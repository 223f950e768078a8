# A TLA+ verification project for lfs-server-go

lfs-server-go stores Git LFS objects. Clients announce an object (its SHA-256
as object id, and its size), upload its content, and download it later. The
server is one process: every request runs in a goroutine of its own, and the
goroutines share a meta store (BoltDB, Cassandra or MySQL) and a content store
(the file system or Amazon S3). Nothing but those stores orders the requests,
so what can go wrong is mostly a matter of which step of which request comes
between two steps of another, and of what is left behind when one step of
several fails.

The modules here model those steps, TLC checks them on small instances, and
TLAPS proves the main results for every value of the constants.
`PROJECT.json` has the list of runs, the mapping from definitions to source
lines, the hazards, the findings and the theorems.

## 1. Inventory

| component | state | operations | interacts with |
|---|---|---|---|
| file system content store, `content_store.go` | files `<oid>` and `<oid>.tmp` | Put, Get, Exists | PutHandler, GetContentHandler, PostHandler call it concurrently; the kernel |
| S3 content store, `aws_content_store.go` | keys of a bucket | Put, Get, Exists, makeBucket | the same handlers; S3 |
| BoltDB meta store, `meta_store.go` | buckets users, objects, projects | Get, Put, AddUser, DeleteUser, listings | all handlers, management pages, the directory |
| Cassandra meta store, `cassandra_meta_store.go`, `cassandra_service.go` | tables users, oids, projects | the same | the same; one statement at a time |
| MySQL meta store, `mysql_meta_store.go`, `mysql_service.go` | tables oids, projects, oid_maps | Get, Put, AddProject, listings | the same; one statement at a time |
| LDAP, `meta_store_auth.go` | none of its own | authenticateLdap | the directory server |
| handlers, `server.go` | none of their own between store calls | POST, batch, PUT, GET content, GET metadata, search | both stores |
| listener and shutdown, `tracking_listener.go`, `main.go` | wait group, socket, signal channel | Accept, Close, WaitForChildren, SIGHUP | net/http |
| management, `mgmt.go` | none | pages, add and delete users, add projects, search | the meta store; opens a second one to search, which waits for the file lock of the first |
| user service, `user_service.go`, `downloader.go` | the cached response | Can, GetResponse | an external service; no handler uses it |
| configuration, logging, generated assets, scripts | | | |

What is hard, and what makes each part correct:

* **Content store.** `<oid>.tmp`, created with O_EXCL, is the only lock.
  Published content must match its id, must not change, must be there after
  success was reported; a failed upload must not block later ones. In S3 there
  is no lock at all: every upload writes the key again, each call may fail after
  it has taken effect, and a write that was given up may arrive late.
* **Meta stores.** Put is several transactions or statements with two
  authentications. Metadata should be write-once, what a caller was given
  should be what is on record, projects and objects should agree, callers
  without access should get nowhere, whatever comes in between.
* **Management pages.** What one page shows must fit the next one, with Puts
  between the two; users added and deleted on a page must not let a call in
  that was never authorised.
* **Handlers.** They combine two stores and hold a snapshot of the metadata
  while the body arrives. 200 must mean that the content is there; content
  must have metadata; a client that retries must succeed in the end.
* **Shutdown.** The process must not exit with a connection open, and must
  exit once the connections are gone. The process that replaces it must not
  serve from the database while the old one does, and a search, which waits for
  the lock that its own process holds, must not hold up the exit.

## 2. Modules

| module | models | composes / refines |
|---|---|---|
| `VerifiedStore` | what handlers expect of a content store, local or `Lossy` | abstract |
| `ContentStore` | `content_store.go`, one step per system call | refines `VerifiedStore` with `Lossy` FALSE, in calm behaviours |
| `AwsContentStore` | `aws_content_store.go`, one step per call to S3, and its clients | refines `VerifiedStore` with `Lossy` TRUE, always |
| `WriteOnceMeta` | what handlers expect of a meta store: a write-once register | abstract |
| `BoltMetaStore` | `meta_store.go`, one step per bolt transaction | refines `WriteOnceMeta` in calm behaviours |
| `CassandraMetaStore` | `cassandra_meta_store.go`, one step per CQL statement | refines `WriteOnceMeta` in calm behaviours |
| `MySQLMetaStore` | `mysql_meta_store.go`, one step per SQL statement | refines `WriteOnceMeta` in calm behaviours |
| `Management` | the pages of `mgmt.go` | extends `BoltMetaStore` |
| `LfsService` | what the server promises its clients: sizes recorded once, content of that size, true answers | abstract |
| `LfsServer` | `server.go`, one step per store call | handlers over a meta store and a content store as in `VerifiedStore`, local or `Lossy`; refines `LfsService` in calm behaviours |
| `LfsOverStore` | the handlers calling a content store of which only its contract is known | extends `LfsServer`, composed with `VerifiedStore`; implements `LfsServer` |
| `TrackingListener` | `tracking_listener.go` and the end of `main.go` | |
| `Handover` | the file lock of bolt, the search page and the process that takes over | extends `TrackingListener` |
| `MC...` | constants for TLC | |
| `...Proofs` | theorems | extend the module they are about; those about `Management` are in `BoltMetaStoreProofs` |

### ContentStore

`tmp[o]` and `path[o]` are the two names of an object, each with an inode or
`NoFile`; `data[i]` is what an inode holds. Names and inodes are kept apart
because a goroutine writes to the inode it has open whatever becomes of the
name, and `Rename` and `Remove` act on the name whatever inode it has. An
upload goes through `Start`, `OpenTmp` (O_EXCL) or `OpenFail`, `CopyChunk`
until the body ends or `CopyFail`, `Check` (close, size, hash), `Rename` or
`RenameFail`, and `Remove`, the deferred call. A download is `GetOpen`,
`GetChunk`, `GetDone`. `Exists` changes nothing and is modelled where it is called,
in `LfsServer`. `Crash` loses the goroutines and keeps the disk. Bodies
are short sequences of chunks and `Sha256` is an operator on them: that is all
the properties distinguish.

### AwsContentStore

`bucket[o]` is what S3 holds; `late[u]` is a write that a call of upload `u` has
given up and that is still on its way. An upload goes through `Start`,
`ReadAll` (whose error the code drops, so what it returns may be a prefix of the
body), `Check`, `PutReader` and `GetKey`; `Exists` is the question of the POST
handler. `PutReader` succeeds, or fails before the key is written, after it, or
with the write under way; its result, `stat`, is put aside until `GetKey` has
answered, as in the code. `Honest` clients ask with POST, upload when they are
told to, and begin again after a failure; the other clients send what they
like.

### VerifiedStore and WriteOnceMeta

The two interfaces of `server.go`, stated as what a caller may rely on. In
`VerifiedStore` an upload takes effect in one step (`Commit`), only with content
of the right size and hash, and success is reported only for one that did
(`End`); a `Lossy` store may also report failure for one that did, and a write
may be postponed and `Land` later. In `WriteOnceMeta` a Put records metadata
for an object that has none or returns what is on record; a call may fail
before or after. The refinement mappings are the operators `stateBar`,
`replyBar`, `keyBar` and `metaBar` at the end of each store's module.

### BoltMetaStore, CassandraMetaStore, MySQLMetaStore

A call has a `pc` that names its next transaction or statement. `Call` stands
for a handler that calls Get or Put with one of the `Requests`; credentials are
a user and a password, or `NoCred` for every header that is missing or does
not parse. The three kinds of configuration (`public`, `local`, `ldap`) are
initial values of `mode`; the LDAP directory confirms a password, denies it, or
cannot be reached. The bcrypt hash of a password is represented by the
password. In the Cassandra and MySQL models a statement may also fail
(`Fault`), and each action does with the error what the code does with it:
ignore it, take it for "not found", or panic, which ends the request.

### Management

Each page is one action: `objectsHandler` and `projectsHandler` read a bucket
(`listed` and `shown` are what the last of them answered), `addUserHandler` and
`delUserHandler` are the user operations of the store. `StoreStep` is everything
else that the store does meanwhile. `valid[c]` is a history variable: whether
the credentials of call `c` have been valid at some time since it began. It
makes `Admitted` a statement about the whole call and not about one check,
which matters because Put overlooks the answer of its second one.

### LfsServer

`Route` is the route table in registration order. Each handler is one action
per store call, and Put of the meta store is three: it authenticates
(`PutBegin`), calls Get, which authenticates again and looks the object up
(`PutLookup`), and writes it (`PutWrite`). `Lapse`, which changes who may log in,
and the requests of other clients come between any two of them. As in the code,
Put takes every error of its Get for "not found": access that lapsed after
`PutBegin`, and a read that failed.

Every call of a store may fail (`Fault`), and the handlers do with the error what
the code does: an object that cannot be read is answered 404 (`Denied`), counts as
new for a batch (`BatchGet`) and inside Put (`PutLookup`). A Put that writes may fail
before or after the object is on record (`PutFails`): a bolt transaction is not
committed, MySQL does not know the project (`mysql_meta_store.go:260`), or `perror`
panics, which ends the request without an answer (`Panic`). `PutUnrecorded` is the
insert whose error MySQL drops: Put succeeds and nothing is on record. `PutWrite`
may leave alone what is on record, as the key of the MySQL table does.
PostHandler answers a failed Put with 401 or 404, BatchHandler leaves the object
out (`PutRefused`).

The content store is the one that `VerifiedStore` describes: `StoreContent` takes
effect at once or refuses, `StoreFails` leaves the contents alone. With `Lossy` it is
the S3 store: Put may report a failure although it took effect (`PutLost`), or send
content off that nobody waits for (`Postpone`); such `late` writes `Land` at any
time, or are lost. Get of content may fail, which is a 404 (`SendContent`). What
`Exists` answers when it cannot look depends on the store: the S3 store says no,
and POST asks for an upload again; the file system store says yes for every error
of Stat but one (`content_store.go:77`), and POST answers 200 for content that may
not be there. In everything else a `Lossy` store can do what a local one does.

The content of an object has size `TrueSize[o]`; clients may declare others. A
request may come without credentials (a batch whose JSON breaks off is served
without them, as in `unpackbatch`), `Crash` loses the requests in progress.
`Announce`, `Upload` and `Download` are a git-lfs client that follows the links of
the answers; only the liveness runs use it.

### LfsOverStore

`LfsServer` has a picture of its content store: two variables, `stored` and `late`,
and uploads that are over in one step. Here the same handlers call a store whose
state is that of `VerifiedStore` (`blob`, `state`, `stream`, `pending`, ...), and which
commits, sends off, refuses, fails or delivers late as its contract allows. An
upload is a call (`CallPut`), something the store does (`Commit`, `SendOff`), and its
end (`Return`); a download is opened (`Open`) and streams, until it is `Copied`, while
other requests are served. `Stored` and `Late` are the picture as a function of the
store; `Shown` keeps `stored` and `late` equal to it, which restricts nothing, as the
theorem `Composition` shows (`StoreInv` has `Pictured`). What `LfsServer` only says of
its picture is said here of the bytes: `Delivered`, `Vouched`, `Measured`.

### LfsService

The server as its clients see it: `record` is the size on record, `stored`
whether the content is there, `reply` what each client was last told, `faults`
how many calls of the stores have failed. `Announce` records a size for
an object that has none, `Store` stores content whose size is the one on record,
and whoever is told something is told the truth as of that step (`Tell`): sizes
that are on record (`Sized`), and a status that is true (`Exact`): 200 to an upload
or a download only if the content is there, in every step; 200 to a POST likewise,
except by a local store that could not look in this very step; 202 only if the
content is not there, and 404 only if it is not or, to anything but a download, the
object is not even on record, unless a store call has failed in this very step. How
many store calls lie between a request and its answer, and what other requests
do meanwhile, is not visible here; that is what `Refines` of `LfsServer` claims.

### TrackingListener

`main` alternates between `serve` and `accept`; `wg` is the wait group. With
`TLS` the count is never reached, because `wrapHttps` unwraps the listener.

### Handover

`lock` is the lock that `bolt.Open` takes on the database file, held from the
start of a process to its exit. `SearchBegin` is a request for the search page,
which opens the file again and waits a second for the lock of its own process;
`SearchEnd` is the end of that second: the handler goes on with a nil store,
panics, and net/http closes the connection. `next` is the process that is
started to take over: it gets the socket as soon as the old one has closed it
(`NextListen`), and then the lock (`NextOpen`) or, after a second, `logger.Fatal`
(`NextGiveUp`), after which it may be started again.

## 3. What the runs show

Runs that pass:

| run | bounds | shows |
|---|---|---|
| `CalmUploads` | 2 uploads, 1 download, 1 object, right and bogus bodies, 1 abort, 1 fault, 1 crash | outside the window after Rename what is published and downloaded is valid, and the store implements `VerifiedStore` |
| `RetryStores` | 2 uploads, 1 abort, 1 crash, fairness | also inside the window: success means stored, failed uploads clean up, and the object is stored in the end unless a restart leaves a `.tmp` file |
| `S3Store` | 1 client that keeps to the protocol and 1 that does not, 1 download, 1 object, right and bogus bodies, 3 failing calls, 1 abort, 2 crashes, fairness | what was acknowledged is there, content never changes, a client that retries is told in the end that it is stored; the store implements a `Lossy` `VerifiedStore` |
| `Bolt` | 2 calls, 3 kinds of request, local and LDAP modes, management pages, 1 crash | project before object, in the store and on the pages; no access for callers who were never valid; calm: a write-once register |
| `Handlers` | `LfsOverStore`, `Lossy`, 2 clients, all routes, a batch of 2, right and wrong sizes and contents, 1 abort or failing call of either store, 1 change of access (1.55 million states) | content has metadata, downloads send content with the hash asked for, 200 means such content is stored, a batch leaves out no object but one whose Put has not succeeded; calm: sizes told stay on record and are those of the content, the server implements `LfsService` |
| `PostClients` | `Lossy`, 2 clients and a stranger who sends anything, 1 abort or failing call of either store, 1 crash, fairness | announced with POST, the object is stored in the end; the stranger gets nothing |
| `Cassandra` | 2 calls, 2 administrators, 1 object, 3 kinds of request, 1 fault, 1 crash | listed objects are recorded, new objects are recorded and listed; calm: passwords are not replaced, a write-once register |
| `MySQL` | 2 calls, 2 projects, all modes, 1 fault, 1 crash | sizes are write-once always; mappings are sound until a statement fails; calm: one mapping per object, a write-once register |
| `Shutdown` | 3 connections, searches, the next process, fairness | exact count, graceful exit, shutdown completes, also under searches; the next process serves only after that |

Runs that find what a comment or a test denies (`findings` in `PROJECT.json`
quotes it):

| run | what happens |
|---|---|
| `TmpWindow` | upload 1 renames; upload 2 creates `.tmp`; upload 1's deferred Remove deletes it; upload 3 creates it again; upload 2, checked, renames upload 3's unchecked file |
| `BatchClients` | after a broken upload a client of the batch API is sent to a download that is a 404, again and again |
| `ShutdownTLS` | with TLS no connection is counted, and the process exits under open requests |

A restart during an upload leaves its `.tmp` file, and O_EXCL refuses the object
for ever after; `StoredUnlessStale` in `RetryStores` names this as the only way
in which a client that goes on trying is never served.

**Calm.** Where the code has a race, the properties that fail because of it are
checked, and proved, for the behaviours without it. The condition, `Calm`, is
stated in the module: for `ContentStore` that nobody creates `<oid>.tmp`
between another upload's Rename and its Remove (`CalmSpec`); for the other
modules a history variable `calm` stays true as long as every step has been
calm, and properties that need it begin with `calm =>`. For the meta stores a
step is calm unless a Put begins while another Put of its object is in
progress, or the caller loses access between the two authentications (and, for
Cassandra and MySQL, a statement fails); for the handlers, unless two Puts that
found nothing are about to write one object, or a Put overlooks an object that is on
record (its access lapsed inside the call, or the read failed), or returns one that it
has not recorded. What holds without any condition
is stated without it.

The behaviours that `calm` sets apart are these, each of which TLC finds in a
few steps when `calm =>` is taken away:

* `meta_store.go:171`: two Puts of one object with different sizes that overlap
  both succeed as new, and the size that the first caller holds is lost.
* `meta_store.go:150`: Put takes an error of the second authentication for "does
  not exist"; if the user is deleted, or the directory fails, between the two,
  an object on record is replaced, with its content already stored or not. The
  same in `cassandra_meta_store.go:156`, and in `LfsServer` for either.
* `cassandra_meta_store.go:243`: two AddUser calls for one name that overlap both
  insert, and the second password wins.
* `cassandra_meta_store.go:96`: a read that fails counts as "not there", and the
  upsert after it replaces the size on record.
* `mysql_meta_store.go:152`: createOid drops the error of its insert, and Put
  returns as new what is not on record; `mysql_meta_store.go:214`: overlapping
  Puts map an object twice.

Other places where the models say less than a reader of the comments expects,
because the code does less: a bolt project lists only the object it was created
for (`meta_store.go:130`); an object that a second project announces is not
listed by it (`cassandra_meta_store.go:156`); the MySQL Put does not create a
missing project, it fails after it has written the object
(`mysql_meta_store.go:260`).

**Bounds.** Two actors are enough for every race of two Puts; publishing
unchecked content takes three uploads, one to leave its Remove behind, one to
lose its file and one to create the name again, hence `TmpWindow` has three.
Objects do not interact (no step of a request for one object looks at the files
or rows of another), except through a shared project, which two calls for one
object share as well. Each fault, abort or crash is a step of its own that may come anywhere;
one of each shows what it leaves behind. `MaxMaps` counts rows up to two, which
stands for "two or more". `Cassandra` and `Bolt` leave out the public mode, which
differs from a local one only in that every caller passes, and `Bolt` requests
without credentials, which are turned away like those with wrong ones; the
theorems cover both. `S3Store` has three failing calls, so that a write given up
by one upload can arrive while another is in doubt, and the client's next
question fails too. `Handlers` has no restart,
which only removes requests and which `PostClients` has; the theorems about
`LfsOverStore` cover restarts there. In `LfsServer` the bound
`MaxAborts` counts broken uploads and failing store calls together. `Handlers`
and `PostClients` are run over a `Lossy` store, `BatchClients` over a local one: what
it shows needs no network. `Posts` and `Lists` choose the bodies of POST and batch
requests: `Handlers` has a POST with the right size, and a batch that names an object
with a wrong size and then one without an id, so that it has one object that is
answered and one that must be left out (the step of Put that found nothing waits at
`write` while the other client lands before it, and the failure and the change of
access come in each of its three steps); `PostClients`, where they come from a
stranger who can write nothing, has one of each.
`TrueSize` is 1 and one of the contents has length 2, so that a size on record
that is wrong, and content that is, both occur. `Handlers` runs the handlers over
the contract of the store, `PostClients` and `BatchClients` over the picture of it that
`LfsServer` has; `Composition` says how the two are related.

**Deadlock** is checked except in the two shutdown runs, where the process
exits.

**Fairness.** `ContentStore!FairSpec` and `LfsServer!FairSpec` assume that the
Go scheduler runs every goroutine that can run, that clients go on sending, and
that a client whose upload failed tries again. That is the case the liveness
properties are about: nothing can be stored for clients that stop. A client
that stalls for ever is not covered (see the hazards). `AwsContentStore!FairSpec`
assumes the same of the `Honest` clients and their requests, each call to S3
being answered or given up; nothing is assumed of the other clients, of writes
that were given up, or of faults, of which there are finitely many: if S3 never
answers again, nobody is told anything. `TrackingListener` assumes only that the
goroutines of the server run; clients may stay connected, so `ShutdownCompletes`
is stated for the time after they have gone. `Handover!HFairSpec` adds that the
timeout of `bolt.Open` does fire, for a search and for the next process, and
nothing about whether or when a next process is started.

## 4. What is proved

`ContentStoreProofs`, for any sets of uploads, downloads, objects and inodes,
any bodies, any hash operator and any bounds on faults:

* `TypeCorrect`, `Acknowledged` and `NoOrphans` for `Spec`;
* `Integrity`, `Exclusion`, `Downloads_Valid`, `Frozen` and `Refinement` for
  `CalmSpec`.

The inductive invariant `IInv` says, beyond the properties themselves, that an
upload in `copy` has open the inode that has its `.tmp` name, and has written
there exactly what the hash has seen (`UploadInv`); that an inode with a `.tmp`
name has no other name and no reader (`TmpPrivate`); and that what a download
has sent is a prefix of a valid object (`DownloadInv`). `PublishedValid` alone
is not inductive: Rename publishes a file by name, and only `TmpExclusive` with
`UploadInv` says that it is the file that was checked. `Calm` is used in one
place, `OpenTmpKeeps`: a new `.tmp` file must not fall under a Remove that is
still to come. The refinement maps a Put to the step of `VerifiedStore` that
its Rename is; all its other system calls are stutters, Begin or End.

`AwsContentStoreProofs`, for `Spec` and so for every behaviour: `TypeCorrect`,
`Acknowledged`, `Stable`, `NoLateMismatch` and `Refinement`. Nothing here needs a
condition on overlaps, unlike on the local disk: `CheckedInv` says that whatever
is in the bucket, in a late write or in an upload past `Check` is valid for its
name, and as SHA-256 is assumed free of collisions among bodies that name
objects, all of these are the same content, so writing the key again, also late,
changes nothing (`Stable`). `StatInv` carries "the key is there" from a
`PutReader` that succeeded to the `GetKey` that reports it. It follows that the
comparison of sizes after the write (line 107) never fails (`NoLateMismatch`).

`Contract` is about `VerifiedStore` alone: whatever implements it has under a name
only content with that hash, streams nothing else, and has what it said it has.
`Integrity` follows for S3, from `Refinement` and `Contract`. It is a check on the
contract as much as on the store: it needs, for instance, that a write which is
under way carries content.

`BoltMetaStoreProofs`: `TypeCorrect`, `ProjectOrder`, `Gate`, `WriteOnce`,
`Snapshots` and `Refinement`. `ProjectInv` carries "the project is there" from `createProject` to
the last transaction, `GateInv` says that a rejected call never gets past its
first authentication, `PutInv` that, while behaviour is calm, a Put which found
nothing is alone with its object.

`Refinement` takes a Put to one step of `WriteOnceMeta`, its last transaction, or
the View that finds the object; `PutInv` is what makes the last transaction a
step that is allowed there.

The same module, of `Management`: `StoreBehaves` shows that every step of `Management` is a step
or a stutter of `BoltMetaStore`, so that its theorems hold behind the pages.
`PageTypes`; `Agreement`, from `ProjectOrder` and the fact that no step takes the
last object from a project (`ProjectsStay`); `Admission`, from `AdmittedInv`: a
call that was never valid has not got past its first check.

`CassandraMetaStoreProofs`: `TypeCorrect`, `Listed`, `Complete`, `WriteOnce`,
`Passwords_Kept`, `Invariance`, `Refinement` and `Snapshots`. `Listed` and `Complete` hold in every
behaviour: no statement removes a size or an entry of a project (`Monotone`), so
"past createOid the object is recorded" (`WriteInv`) stays true until the update
that lists it. `WriteOnce` and `Passwords_Kept` are about read-then-write pairs
and need calm behaviour: `AloneInv` and `AddingInv` carry "the row is not there"
from the read to the insert, because nobody else is about to write it.
`Snapshots`, here and for MySQL, is about what the handlers do with the answer:
the size a caller was given is on record as long as behaviour is calm. It is
proved through the contract: `Contract` (in `MySQLMetaStoreProofs`) shows of
`WriteOnceMeta` alone that it never replaces metadata and never tells a caller
anything else, and `Refinement` brings that to the store.

`MySQLMetaStoreProofs`: `TypeCorrect`, `WriteOnce`, `Invariance`, `Sound`, `Once`,
`Refinement`, `Contract` and `Snapshots`.
`WriteOnce` needs no calm behaviour, unlike its namesake for Bolt: the primary
key of `oids` refuses the second row. `Sound` rests on `IInv`: while no
statement has failed, a Put past `createOid` has its object on record (`MapInv`;
a duplicate key means that another Put recorded it) and a Put past `findProject`
has its project in place, and no statement ever deletes either (`Monotone`).
Once a statement fails `MapInv` breaks, since Put goes on after errors that it
ignores. `Once` and `Refinement` need calm behaviour: `AloneInv` says that a Put
which is about to write is alone with its object and that the object has no
mapping yet.

`LfsServerProofs`, for any clients, objects, sizes and batches, over both kinds of
content store: `TypeCorrect`, `Announced_First`, `Success`, `NothingLost` and `Blind` in
every behaviour, and so `Complete`; `Current`, `Real` and `Refinement` in calm ones.
`ControlInv` says which handler can be
at which store call, and that past a lookup that succeeded it has an object there
which is a hash. `BackedInv` carries "on record" from the lookup of PutHandler to the
store, and on to a write that comes late, and "stored" from a success on (`Assured`);
it rests on `Grows`: nothing on record or stored is taken away, also not by a Put that
overlooks the object, or fails. `Success` is about what a client was told (`Claimed`):
200 to a PUT always, 200 to a POST over a store behind a network always, and over a
local store as long as no call has failed (`FaultsGrow`: a failure stays counted).
`BlindInv` is the invariant of a client whose `Auth` is never true: it stays at the
steps that ask. For the sizes, `AloneInv` says that a Put which found nothing and is
about to write is alone with an object that has no metadata. The step that brings it
there is calm only if the lookup did not overlook the object, and nobody else is at
that point (`WriteBegins`); so what is on record never changes (`MetaKept`), and what
Put returns is on record, unless it failed to record it, which is not calm
(`CalmRecords`). Then what a request holds since its lookup is still on record
when the body has arrived (`KnowsInv`), which is what contentStore.Put compares with.

`Complete` is the action property `NoneDropped`: what a batch has answered, followed by
what it has still to look at (`Line`), does not change until it is the answer, or loses
exactly the object whose Put has just not succeeded (`Droppable`, `Rest`). Each
object takes up to four steps, between which others may write it; `LineKept` and
`LineDropped` are the arithmetic of taking one object from `todo`, with and without an
answer for it, `BatchHandles` the cases of the handler, and the steps of everybody
else leave both alone (`Others`). Put does not succeed for an object without an id,
for a client whose access has gone since the batch last asked, or in a step in which
the store fails; a failure that ends the batch without an answer is a panic there.

`Refinement` takes every store call to one step of `LfsService` or to none. Its three
parts are lemmas: `EffectNext`, that what a step does to the stores is an
`Announce` of an object that has no size (`AloneInv`), a `Store` of content that has
the size on record (`KnowsInv` for a request that has compared with its snapshot,
`RealInv` for a write that comes late), or nothing; `Verdicts`, by cases of the
handlers, that a status is only given where it is due (`Due`), which a status given
in a step with a failing call always is, 200 to a POST only over a local store; and
`TellHandler`, that
the sizes in an answer are on record at that moment, also those that a batch has
collected over many steps. `Service` shows of `LfsService` alone that sizes are never
replaced and that stored content has its size on record.

These theorems are about `Spec`, where every client sends any request. In `FairSpec`,
which `PostClients` runs, some clients keep to the protocol, which is not a
special case of `Spec`: they announce real sizes, whatever `Posts` and `Lists` are.
The lemmas about steps are therefore stated for `Moved`, a step of either
specification, and `Protocol` draws from them the type invariant,
`ContentAnnounced`, `SuccessStored` and `StrangerBlind` for `FairSpec`, assuming only
that the real sizes are among the `Sizes`. The `FairSpec` of the two content stores
is `Spec` with fairness, so that their theorems hold there as they stand.

`LfsOverStoreProofs`, for any contents, clients and store within the contract:
`Composition`, `Turns`, `Delivery`, `Vouching` and `Measure`. `Composition` says that every
behaviour of handlers and store is one of `LfsServer`, step by step: `CommitStores`,
`SendOffPostpones`, the two outcomes of `Return`, and so on. Its invariant `StoreInv` is
what neither side knows alone: that the picture is right (`Pictured`), that an upload
in the store belongs to a handler that waits for it, was called with the metadata
this handler still holds, and took effect only if they match (`Call`), and that
what is on its way to the store, in it or on its way to a client has its hash
(`Hashed`, `Streaming`). So the store's guard (length and hash of the bytes) becomes
the handlers' guard (`Matches`), because content with the hash of an object has its
size, which `ContentsAssumption` states. With `Composition` the theorems of
`LfsServerProofs` hold of the composed system; `Vouching` and `Measure` are `BackedInv`
and `SizesReal` brought back to the bytes. Together with `Refinement` in
`ContentStoreProofs` and `AwsContentStoreProofs` this is a chain from the system calls
to what clients are told, whose links are theorems (each about its own module: the
stores do not stand inside `LfsOverStore`, their contract does); its first link
needs, on the local disk, the behaviours that are calm there.

`TrackingListenerProofs`: `TypeCorrect`, `Counting` and `Graceful`, the last two
without TLS, and about `Handover` `ListenerBehaves`, `HandoverTypes` and
`Succession`. `Balance` is inductive with `TypeOK`, and needs the fact that
adding and removing one connection changes the cardinality of the open ones by
one. `Succession` is `Graceful` with `LockInv`: a process that runs has the lock.

The constants are assumed to be what the ASSUMEs of the modules say (bodies are
sequences of chunks, `NoFile`, `None` and `NoCred` are none of the values they
stand beside, bounds are naturals); TLC evaluates them in every run.

The type invariants of `Management`, `Handover` and the MySQL store (`PageTypes`,
`HandoverTypes`, `TypeCorrect`), `InTurn` and `SuccessStored` are proved and in no run: the
proofs cover every instance, and `Vouched`, which a run checks, says more than
`SuccessStored` of uploads and announcements.

Only model-checked: the liveness properties (`StoredUnlessStale`,
`EventuallyAcked`, `EventuallyUploaded`, `ShutdownCompletes`,
`ExitDespiteSearch`), since the prover has no rules for fairness.

## 5. What is not modelled

* Power failures: a restart keeps what was written, synced or not.
* The number of file descriptors, and memory (the S3 store reads an upload into
  memory as a whole).
* Replication inside Cassandra: a statement takes effect at once, as with the
  replication factor of 1 that `NewCassandraSession` sets. S3 is taken to be
  consistent: a GetKey sees the writes that have arrived.
* An empty object id in the MySQL store (it is inserted once and never found).
* `removeOid`, `removeOidFromProject` and `removeProject` of the Cassandra store,
  which only tests call; the listings of users, and those of Cassandra and MySQL.
* Of the management pages: requests that `basicAuth` turns away, the
  configuration, style sheets and scripts; they change nothing.
* `transformKey`, which maps different ids to different paths; the layout of
  JSON, templates, log lines.
* The user service and its downloader (`user_service.go`, `downloader.go`): no
  code of the program calls them.
* The configuration (`config.go`) is read once before `main` and never written;
  what matters of it are constants and initial values. Credentials and ACLs of
  S3, keyspace and tables are set up at start.

## 6. What could come next

* A model of a power failure for `ContentStore`, where Rename may reach the disk
  before the content does.
* `WriteOnceMeta` beside the handlers, as `VerifiedStore` is in `LfsOverStore`. The meta
  store in `LfsServer` is already one that may do more than the contract: a lookup
  and a write with anything in between (`NothingLost` and `EffectNext` say what of the
  contract holds nevertheless). A batch ends one call and begins the next in one
  step, which would have to be two before the composition is a substitution.
* The pages of `mgmt.go` over the Cassandra and MySQL stores, whose listings are
  several statements.
* `PostClients` over a local store, whose `Exists` says yes when it cannot look: the
  client finds out at its download, and announces again.
* The descriptor limit: os.Open of a file that is there may fail, in `ContentStore` as
  it may in `LfsServer`.
