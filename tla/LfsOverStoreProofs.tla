------------------------- MODULE LfsOverStoreProofs -------------------------
(***************************************************************************)
(* Theorems about LfsOverStore: whatever content store keeps the contract  *)
(* of VerifiedStore, the handlers over it do what LfsServer says, so that  *)
(* what is proved of LfsServer holds of them, and of the bytes themselves. *)
(***************************************************************************)
EXTENDS LfsOverStore, LfsServerProofs

-----------------------------------------------------------------------------
(* What relates the handlers and the store                                 *)

\* The types of the store's variables, as far as they matter here.
BlobsOK ==
    /\ blob  \in [Oids -> Contents \cup {Absent}]
    /\ state \in [Clients -> {"idle", "busy", "stored"}]
    /\ DOMAIN oid = Clients /\ DOMAIN size = Clients /\ DOMAIN verdict = Clients
    /\ DOMAIN stream = Clients /\ DOMAIN pending = Clients

\* Content in the store, or on its way there, has the hash it is kept under.
Hashed ==
    /\ \A o \in Oids : blob[o] # Absent => Sha256(blob[o]) = o
    /\ \A c \in Clients : pending[c] # Absent =>
         /\ pending[c].oid \in Oids /\ pending[c].body \in Contents
         /\ Sha256(pending[c].body) = pending[c].oid

\* What LfsServer says of the store is so.
Pictured == stored = Stored /\ late = Late

\* A handler that waits in Put has its upload in the store, with its own
\* metadata, and what took effect was what they say.
Call(c) ==
    /\ At(c, "put", "content") <=> state[c] = "busy"
    /\ At(c, "put", "sent") <=> state[c] = "stored"
    /\ state[c] # "idle" => oid[c] = Object(c).oid /\ size[c] = snap[c]
    /\ state[c] = "stored" => Matches(c)

\* A client that is being sent content was told so, and asks nothing else.
Streaming(c) == stream[c] # Absent =>
    /\ stage[c] = "idle"
    /\ reply[c].to = "content" /\ reply[c].status = 200
    /\ Sha256(stream[c]) = reply[c].oid

Ties == \A c \in Clients : Call(c) /\ Streaming(c)

StoreInv == BlobsOK /\ Hashed /\ Pictured /\ Ties

\* What is known of the handlers by themselves.
ServerInv == TypeOK /\ ControlInv

-----------------------------------------------------------------------------
(* Every step is one of LfsServer                                          *)

\* Content that Put accepts has the real size of the object.
LEMMA SizeOfContent ==
  ASSUME NEW b \in Contents, NEW o \in Oids, Sha256(b) = o
  PROVE  Len(b) = TrueSize[o]
  BY ContentsAssumption

\* What the handlers see of the store after content has come to it.
LEMMA StoredKeeps ==
  ASSUME BlobsOK, Pictured, Shown, NEW o \in Oids, NEW b, b # Absent,
         blob' = [blob EXCEPT ![o] = b]
  PROVE  Keep(o)
<1>1. \A x \in Oids : (blob'[x] # Absent) = IF x = o THEN TRUE ELSE blob[x] # Absent
  BY DEF BlobsOK
<1>2. Stored' = [x \in Oids |-> IF x = o THEN TRUE ELSE Stored[x]]
  BY <1>1 DEF Stored
<1> QED
  BY <1>2 DEF Shown, Pictured, Keep, Stored

\* An upload that takes effect is StoreContent.
LEMMA CommitStores ==
  ASSUME ServerInv, StoreInv, NEW c \in Clients, Commit(c)
  PROVE  StoreContent(c) /\ Matches(c)
<1> DEFINE o == Object(c).oid
<1>1. PICK b \in Contents : Sends(c, b) /\ blob' = [blob EXCEPT ![oid[c]] = b]
  BY DEF Commit
<1>2. Call(c) /\ state[c] = "busy"
  BY DEF StoreInv, Ties, Commit
<1>3. At(c, "put", "content") /\ oid[c] = o /\ size[c] = snap[c]
  BY <1>2 DEF Call
<1>4. o \in Oids
  BY <1>3 DEF ServerInv, ControlInv, At
<1>5. blob'[o] = b
  BY <1>1, <1>3, <1>4 DEF StoreInv, BlobsOK
<1>6. b # Absent /\ Len(b) = size[c] /\ Sha256(b) = o
  BY <1>3, <1>5 DEF Commit, V!Commit
<1>7. Matches(c)
  <2>1. req[c].good = TRUE
    BY <1>1, <1>6 DEF Sends
  <2>2. snap[c] = TrueSize[o]
    BY <1>3, <1>4, <1>6, SizeOfContent
  <2> QED
    BY <2>1, <2>2 DEF Matches
<1>8. Keep(o)
  BY <1>1, <1>3, <1>4, <1>6, StoredKeeps DEF Commit, StoreInv
<1>9. late' = late
  BY DEF Commit, V!Commit, Shown, Late, StoreInv, Pictured
<1> QED
  BY <1>3, <1>7, <1>8, <1>9 DEF StoreContent, Commit, Goto

\* A write that is sent off is Postpone.
LEMMA SendOffPostpones ==
  ASSUME ServerInv, StoreInv, NEW c \in Clients, SendOff(c)
  PROVE  Postpone(c)
<1> DEFINE o == Object(c).oid
<1>1. PICK b \in Contents :
        Sends(c, b) /\ pending' = [pending EXCEPT ![c] = [oid |-> oid[c], body |-> b]]
  BY DEF SendOff
<1>2. Call(c) /\ state[c] = "busy"
  BY DEF StoreInv, Ties, SendOff
<1>3. At(c, "put", "content") /\ oid[c] = o /\ size[c] = snap[c]
  BY <1>2 DEF Call
<1>4. o \in Oids
  BY <1>3 DEF ServerInv, ControlInv, At
<1>5. pending'[c] = [oid |-> o, body |-> b] /\ pending'[c] # Absent
  BY <1>1, <1>3 DEF StoreInv, BlobsOK, SendOff, V!Postpone
<1>6. Len(b) = size[c] /\ Sha256(b) = o
  BY <1>3, <1>5 DEF SendOff, V!Postpone
<1>7. Matches(c)
  <2>1. req[c].good = TRUE
    BY <1>1, <1>6 DEF Sends
  <2>2. snap[c] = TrueSize[o]
    BY <1>3, <1>4, <1>6, SizeOfContent
  <2> QED
    BY <2>1, <2>2 DEF Matches
<1> DEFINE kept == {pending[d].oid : d \in {e \in Clients \ {c} : pending[e] # Absent}}
<1>8. kept \subseteq late
  BY DEF StoreInv, Pictured, Late
<1>9. late' = kept \cup {o}
  <2>1. \A d \in Clients \ {c} : pending'[d] = pending[d]
    BY <1>1 DEF StoreInv, BlobsOK
  <2>2. Late' = kept \cup {o}
    BY <1>5, <2>1 DEF Late
  <2> QED
    BY <2>2 DEF SendOff, Shown
<1>10. stored' = stored
  BY DEF SendOff, V!Postpone, Shown, Stored, StoreInv, Pictured
<1>11. Lossy
  BY DEF SendOff, V!Postpone
<1> HIDE DEF kept
<1> QED
  BY <1>3, <1>7, <1>8, <1>9, <1>10, <1>11 DEF Postpone, SendOff

\* A write that arrives is Land.
LEMMA ArrivesLands ==
  ASSUME ServerInv, StoreInv, NEW c \in Clients, Arrives(c)
  PROVE  \E o \in Oids : Land(o)
<1> DEFINE o == pending[c].oid
           rest == {pending[d].oid : d \in {e \in Clients \ {c} : pending[e] # Absent}}
<1>1. pending[c] # Absent /\ o \in Oids /\ pending[c].body \in Contents
  BY DEF Arrives, V!Land, StoreInv, Hashed
<1>2. o \in late /\ late = rest \cup {o}
  BY <1>1 DEF StoreInv, Pictured, Late
<1>3. late' \in {late, late \ {o}}
  <2>1. \A d \in Clients \ {c} : pending'[d] = pending[d]
    BY DEF Arrives, V!Land, StoreInv, BlobsOK
  <2>2. pending'[c] = Absent
    BY DEF Arrives, V!Land, StoreInv, BlobsOK
  <2>3. Late' = rest
    BY <2>1, <2>2 DEF Late
  <2> HIDE DEF rest
  <2>4. late' = rest
    BY <2>3 DEF Arrives, Shown
  <2> QED
    BY <1>2, <2>4
<1>4. Keep(o) \/ UNCHANGED stored
  <2>1. CASE blob' = [blob EXCEPT ![o] = pending[c].body]
    <3>1. pending[c].body # Absent
      BY <1>1, ContentsAssumption
    <3> QED
      BY <1>1, <2>1, <3>1, StoredKeeps DEF Arrives, StoreInv
  <2>2. CASE UNCHANGED blob
    BY <2>2 DEF Arrives, Shown, StoreInv, Pictured, Stored
  <2> QED
    BY <2>1, <2>2 DEF Arrives, V!Land
<1> HIDE DEF o, rest
<1>5. Land(o)
  BY <1>2, <1>3, <1>4 DEF Land, Arrives
<1> QED
  BY <1>1, <1>5 DEF o

\* What Put returns is what LfsServer lets PutHandler answer.
LEMMA ReturnAnswers ==
  ASSUME ServerInv, StoreInv, NEW c \in Clients, Return(c)
  PROVE  HandlerStep(c)
<1>1. Call(c) /\ state[c] \in {"busy", "stored"}
  BY DEF StoreInv, BlobsOK, Ties, Return, V!End
<1>2. PICK r \in {"ok", "error"} :
        /\ r = "ok" => state[c] = "stored"
        /\ r = "error" => Lossy \/ state[c] = "busy"
        /\ verdict'[c] = r
  BY DEF Return, V!End, StoreInv, BlobsOK
<1>3. CASE r = "ok"
  <2>1. At(c, "put", "sent")
    BY <1>1, <1>2, <1>3 DEF Call
  <2>2. PutDone(c)
    BY <1>2, <1>3, <2>1 DEF Return, PutDone
  <2> QED
    BY <2>2 DEF HandlerStep
<1>4. CASE r = "error" /\ state[c] = "busy"
  <2>1. At(c, "put", "content")
    BY <1>1, <1>4 DEF Call
  <2>2. StoreContent(c) \/ StoreFails(c)
    BY <1>2, <1>4, <2>1 DEF Return, StoreContent, StoreFails, stores, contents
  <2> QED
    BY <2>2 DEF HandlerStep
<1>5. CASE r = "error" /\ state[c] = "stored"
  <2>1. At(c, "put", "sent") /\ Matches(c) /\ Lossy
    BY <1>1, <1>2, <1>5 DEF Call
  <2>2. PutLost(c)
    BY <1>2, <1>5, <2>1 DEF Return, PutLost
  <2> QED
    BY <2>2 DEF HandlerStep
<1> QED
  BY <1>1, <1>2, <1>3, <1>4, <1>5

\* A step of the handlers and the store is a step of LfsServer, or one that
\* it does not see.
LEMMA Simulation ==
  ASSUME ServerInv, StoreInv, [WholeNext]_wvars
  PROVE  [Next]_vars
<1>1. ASSUME NEW c \in Clients, Ask(c) \/ Lapse(c) PROVE Step
  BY <1>1 DEF Ask, Step
<1>2. ASSUME NEW c \in Clients, Look(c) \/ CallPut(c) \/ Open(c) PROVE Step
  <2>1. HandlerStep(c)
    BY <1>2 DEF Look, CallPut, Open, HandlerStep
  <2> QED
    BY <2>1 DEF Step
<1>3. ASSUME NEW c \in Clients, Return(c) PROVE Step
  BY <1>3, ReturnAnswers DEF Step
<1>4. ASSUME NEW c \in Clients, Commit(c) PROVE Step
  <2>1. HandlerStep(c)
    BY <1>4, CommitStores DEF HandlerStep
  <2> QED
    BY <2>1 DEF Step
<1>5. ASSUME NEW c \in Clients, SendOff(c) PROVE Step
  BY <1>5, SendOffPostpones DEF Step
<1>6. ASSUME NEW c \in Clients, Arrives(c) PROVE Step
  BY <1>6, ArrivesLands DEF Step
<1>7. Crash => Step
  BY DEF Step
<1>8. CASE WholeStep /\ calm' = (calm /\ Calm)
  BY <1>1, <1>2, <1>3, <1>4, <1>5, <1>6, <1>7, <1>8 DEF WholeStep, Next
<1>9. CASE (\E c \in Clients : Copied(c)) \/ UNCHANGED wvars
  BY <1>9 DEF Copied, wvars
<1> QED
  BY <1>8, <1>9 DEF WholeNext

-----------------------------------------------------------------------------
(* What relates the handlers and the store stays so                        *)

\* A client whose request and whose store calls are left alone.
LEMMA TieKept ==
  ASSUME NEW d, Call(d), Streaming(d), Has(d)' = Has(d),
         state'[d] = state[d], oid'[d] = oid[d], size'[d] = size[d],
         stream'[d] = stream[d] \/ stream'[d] = Absent
  PROVE  Call(d)' /\ Streaming(d)'
<1>1. /\ handler'[d] = handler[d] /\ stage'[d] = stage[d] /\ req'[d] = req[d]
      /\ Object(d)' = Object(d) /\ snap'[d] = snap[d] /\ reply'[d] = reply[d]
  BY DEF Has, Object
<1>2. Matches(d)' = Matches(d)
  BY <1>1 DEF Matches
<1> QED
  BY <1>1, <1>2 DEF Call, Streaming, At

\* A client that neither waits in Put nor is being sent anything.
LEMMA TieFree ==
  ASSUME NEW c, state'[c] = "idle", stream'[c] = Absent, ~Waits(c)'
  PROVE  Call(c)' /\ Streaming(c)'
  BY DEF Waits, Call, Streaming

\* The store does nothing of its own accord, and the handlers see no change.
LEMMA StoreQuiet ==
  ASSUME StoreInv, UNCHANGED <<store, contents>>
  PROVE  BlobsOK' /\ Hashed' /\ Pictured'
<1>1. Stored' = Stored /\ Late' = Late
  BY DEF store, Stored, Late
<1> QED
  BY <1>1 DEF StoreInv, BlobsOK, Hashed, Pictured, store, contents

\* The handlers that only look are not in Put, before and after.
LEMMA LookOutside ==
  ASSUME ServerInv, NEW c \in Clients, Look(c)
  PROVE  ~Waits(c) /\ ~Waits(c)' /\ stage[c] # "idle"
<1>0. LocalsOK
  BY TypeParts DEF ServerInv
<1>a. \A status, objs : Answer(c, status, objs) => ~Waits(c)'
  BY <1>0, Effects DEF Waits, At
<1>n. \A objs : NextObject(c, objs) => ~Waits(c)'
  BY <1>0, Effects DEF Waits, At
<1>g. \A s \in {"put", "look", "write", "exists"} : Goto(c, s) => ~Waits(c)'
  BY <1>0, Effects DEF Waits, At
<1>d. Denied(c) => ~Waits(c)'
  BY <1>a DEF Denied
<1>r. \A status : PutRefused(c, status) => ~Waits(c)'
  BY <1>a, <1>n DEF PutRefused
<1>p. Panic(c) => ~Waits(c)'
  BY <1>0, Effects DEF Waits, At
<1>q. PutReturns(c) => ~Waits(c)'
  BY <1>a, <1>n DEF PutReturns
<1>1. CASE GetContentHandler(c)
  <2>1. handler[c] = "content" /\ Goto(c, "content") => ~Waits(c)'
    BY <1>0, Effects DEF Waits, At
  <2> QED
    BY <1>1, <1>d, <2>1 DEF GetContentHandler, At, Waits
<1>2. CASE GetSearchHandler(c) \/ GetMetaHandler(c)
  BY <1>2, <1>a, <1>d DEF GetSearchHandler, GetMetaHandler, At, Waits
<1>3. CASE BatchGet(c) \/ BatchDone(c)
  BY <1>3, <1>a, <1>n, <1>g DEF BatchGet, BatchDone, At, Waits
<1>4. CASE PutBegin(c) \/ PutLookup(c)
  BY <1>4, <1>n, <1>g, <1>r DEF PutBegin, PutLookup, At, Waits
<1>5. CASE PutWrite(c) \/ PutFails(c) \/ PutUnrecorded(c)
  BY <1>5, <1>p, <1>q, <1>r DEF PutWrite, PutFails, PutUnrecorded, At, Waits
<1>6. CASE PostAnswer(c)
  BY <1>6, <1>a DEF PostAnswer, At, Waits
<1> QED
  BY <1>1, <1>2, <1>3, <1>4, <1>5, <1>6 DEF Look

\* A step that serves one client leaves the ties of the others alone.
LEMMA TiesOfOthers ==
  ASSUME ServerInv, StoreInv, NEW c \in Clients, HandlerStep(c) \/ Serve(c),
         \A d \in Clients \ {c} : /\ state'[d] = state[d] /\ oid'[d] = oid[d]
                                  /\ size'[d] = size[d] /\ stream'[d] = stream[d],
         Call(c)' /\ Streaming(c)'
  PROVE  Ties'
<1> SUFFICES ASSUME NEW d \in Clients \ {c} PROVE Call(d)' /\ Streaming(d)'
  BY DEF Ties
<1>1. Has(d)' = Has(d)
  BY Others, TypeParts DEF ServerInv
<1> QED
  BY <1>1, TieKept DEF StoreInv, Ties

\* A request arrives.
LEMMA AskKeeps == ASSUME ServerInv, StoreInv, NEW c \in Clients, Ask(c) PROVE StoreInv'
<1>1. Serve(c)
  BY RequestServes DEF Ask
<1>2. UNCHANGED contents /\ stage[c] = "idle" /\ c \in DOMAIN stage
  BY <1>1, TypeParts DEF Serve, NotRouted, Arrive, stores, ServerInv, LocalsOK
<1>3. ~Waits(c)'
  <2>1. stage'[c] \in {"idle", "get", "put"}
    BY <1>1, <1>2 DEF Serve, NotRouted, Arrive, locals
  <2> QED
    BY <2>1 DEF Waits, At
<1>4. state[c] = "idle"
  BY <1>2 DEF StoreInv, BlobsOK, Ties, Call, At
<1>5. Call(c)' /\ Streaming(c)'
  BY <1>3, <1>4, TieFree DEF Ask, store
<1> QED
  BY <1>1, <1>2, <1>5, StoreQuiet, TiesOfOthers DEF Ask, store, StoreInv

\* A handler looks.
LEMMA LookKeeps == ASSUME ServerInv, StoreInv, NEW c \in Clients, Look(c) PROVE StoreInv'
<1>1. HandlerStep(c) /\ UNCHANGED store
  BY DEF Look, HandlerStep
<1>2. UNCHANGED contents
  BY DEF Look, GetContentHandler, GetSearchHandler, GetMetaHandler, BatchGet, BatchDone,
     PutBegin, PutLookup, PutWrite, PutFails, PutUnrecorded, PostAnswer, stores
<1>3. state[c] = "idle" /\ stream[c] = Absent
  BY LookOutside DEF StoreInv, BlobsOK, Ties, Call, Streaming, Waits
<1>4. Call(c)' /\ Streaming(c)'
  BY <1>1, <1>3, LookOutside, TieFree DEF store
<1> QED
  BY <1>1, <1>2, <1>4, StoreQuiet, TiesOfOthers DEF store, StoreInv

\* A handler calls Put.
LEMMA CallPutKeeps == ASSUME ServerInv, StoreInv, NEW c \in Clients, CallPut(c) PROVE StoreInv'
<1>0. LocalsOK /\ c \in DOMAIN snap
  BY TypeParts DEF ServerInv, LocalsOK
<1>1. HandlerStep(c) /\ At(c, "put", "get") /\ UNCHANGED contents
  BY DEF CallPut, PutHandler, HandlerStep, stores
<1>2. state[c] = "idle" /\ stream[c] = Absent
  BY <1>1 DEF StoreInv, BlobsOK, Ties, Call, Streaming, At
<1>3. CASE stage'[c] = "content"
  <2>1. V!Begin(c, Object(c).oid, snap'[c])
    BY <1>3 DEF CallPut
  <2>2. Goto(c, "content")
    <3>1. \A status, objs : ~Answer(c, status, objs)
      BY <1>0, <1>3, Effects
    <3> QED
      BY <3>1 DEF CallPut, PutHandler, Denied
  <2>3. At(c, "put", "content")' /\ Object(c)' = Object(c)
    BY <1>0, <1>1, <2>2, Effects DEF At, Object
  <2>4. state'[c] = "busy" /\ oid'[c] = Object(c).oid /\ size'[c] = snap'[c]
    BY <2>1 DEF V!Begin, StoreInv, BlobsOK
  <2>5. Call(c)' /\ Streaming(c)'
    BY <1>2, <2>1, <2>3, <2>4 DEF Call, Streaming, At, V!Begin
  <2>6. \A d \in Clients \ {c} : /\ state'[d] = state[d] /\ oid'[d] = oid[d]
                                 /\ size'[d] = size[d] /\ stream'[d] = stream[d]
    BY <2>1 DEF V!Begin, StoreInv, BlobsOK
  <2>7. Ties'
    BY <1>1, <2>5, <2>6, TiesOfOthers
  <2>8. BlobsOK'
    BY <2>1 DEF V!Begin, StoreInv, BlobsOK
  <2>9. Hashed' /\ Pictured'
    BY <1>1, <2>1 DEF V!Begin, StoreInv, Hashed, Pictured, Stored, Late, contents
  <2> QED
    BY <2>7, <2>8, <2>9 DEF StoreInv
<1>4. CASE stage'[c] # "content"
  <2>1. UNCHANGED store
    BY <1>4 DEF CallPut
  <2>2. ~Waits(c)'
    <3>1. Denied(c)
      BY <1>0, <1>4, Effects DEF CallPut, PutHandler
    <3>2. stage'[c] = "idle"
      BY <1>0, <3>1, Effects DEF Denied
    <3> QED
      BY <3>2 DEF Waits, At
  <2>3. Call(c)' /\ Streaming(c)'
    BY <1>2, <2>1, <2>2, TieFree DEF store
  <2> QED
    BY <1>1, <2>1, <2>3, StoreQuiet, TiesOfOthers DEF store, StoreInv
<1> QED
  BY <1>3, <1>4

\* Put returns.
LEMMA ReturnKeeps == ASSUME ServerInv, StoreInv, NEW c \in Clients, Return(c) PROVE StoreInv'
<1>1. HandlerStep(c)
  BY ReturnAnswers
<1>2. UNCHANGED contents /\ UNCHANGED <<blob, oid, stream, pending>>
  BY DEF Return, V!End, stores
<1>3. stage'[c] = "idle" /\ stage[c] # "idle"
  <2>1. stage'[c] = "idle"
    BY TypeParts, Effects DEF Return, ServerInv
  <2>2. stage[c] # "idle"
    BY DEF Return, V!End, StoreInv, BlobsOK, Ties, Call, At
  <2> QED
    BY <2>1, <2>2
<1>4. state'[c] = "idle" /\ \A d \in Clients \ {c} : state'[d] = state[d] /\ size'[d] = size[d]
  BY DEF Return, V!End, StoreInv, BlobsOK
<1>5. Call(c)' /\ Streaming(c)'
  BY <1>2, <1>3, <1>4, TieFree DEF StoreInv, Ties, Streaming, Waits, At
<1>6. Ties'
  BY <1>1, <1>2, <1>4, <1>5, TiesOfOthers
<1>7. BlobsOK'
  BY DEF Return, V!End, StoreInv, BlobsOK
<1>8. Hashed' /\ Pictured'
  BY <1>2 DEF StoreInv, Hashed, Pictured, Stored, Late, contents
<1> QED
  BY <1>6, <1>7, <1>8 DEF StoreInv

\* A download begins: what is sent is what the store has under the id.
LEMMA OpenKeeps == ASSUME ServerInv, StoreInv, NEW c \in Clients, Open(c) PROVE StoreInv'
<1> DEFINE o == Object(c).oid
<1>0. LocalsOK
  BY TypeParts DEF ServerInv
<1>1. HandlerStep(c) /\ At(c, "content", "content") /\ UNCHANGED contents
  BY DEF Open, SendContent, HandlerStep, stores
<1>2. o \in Oids /\ todo[c] # << >>
  BY <1>1 DEF At, ServerInv, ControlInv
<1>3. state[c] = "idle" /\ stream[c] = Absent
  BY <1>1 DEF StoreInv, BlobsOK, Ties, Call, Streaming, At
<1>4. stage'[c] = "idle" /\ reply'[c].to = "content" /\ reply'[c].oid = o
  <2>1. PICK status : Answer(c, status, << >>)
    BY DEF Open, SendContent
  <2> QED
    BY <1>0, <1>1, <1>2, <2>1, Effects DEF At
<1>5. CASE reply'[c].status = 200
  <2>1. V!Fetch(c, o)
    BY <1>5 DEF Open
  <2>2. stream'[c] = blob[o] /\ Sha256(blob[o]) = o
    BY <1>2, <2>1 DEF V!Fetch, StoreInv, BlobsOK, Hashed
  <2>3. Call(c)' /\ Streaming(c)'
    BY <1>3, <1>4, <1>5, <2>1, <2>2 DEF Call, Streaming, At, V!Fetch
  <2>4. \A d \in Clients \ {c} : stream'[d] = stream[d]
    BY <2>1 DEF V!Fetch, StoreInv, BlobsOK
  <2>5. Ties'
    BY <1>1, <2>1, <2>3, <2>4, TiesOfOthers DEF V!Fetch
  <2>6. BlobsOK' /\ Hashed' /\ Pictured'
    BY <1>1, <2>1 DEF V!Fetch, StoreInv, BlobsOK, Hashed, Pictured, Stored, Late, contents
  <2> QED
    BY <2>5, <2>6 DEF StoreInv
<1>6. CASE reply'[c].status # 200
  <2>1. UNCHANGED store
    BY <1>6 DEF Open
  <2>2. Call(c)' /\ Streaming(c)'
    BY <1>3, <1>4, <2>1, TieFree DEF store, Waits, At
  <2> QED
    BY <1>1, <2>1, <2>2, StoreQuiet, TiesOfOthers DEF store, StoreInv
<1> QED
  BY <1>5, <1>6

\* An upload takes effect: what is stored has the hash it is stored under.
LEMMA CommitKeeps == ASSUME ServerInv, StoreInv, NEW c \in Clients, Commit(c) PROVE StoreInv'
<1> DEFINE o == Object(c).oid
<1>0. LocalsOK
  BY TypeParts DEF ServerInv
<1>1. HandlerStep(c) /\ Matches(c) /\ At(c, "put", "content")
  BY CommitStores DEF StoreContent, HandlerStep
<1>2. oid[c] = o /\ size[c] = snap[c] /\ o \in Oids
  BY <1>1 DEF StoreInv, Ties, Call, Commit, At, ServerInv, ControlInv
<1>3. PICK b \in Contents : blob' = [blob EXCEPT ![o] = b]
  BY <1>2 DEF Commit
<1>4. blob'[o] = b /\ Sha256(b) = o
  BY <1>2, <1>3 DEF Commit, V!Commit, StoreInv, BlobsOK
<1>5. Hashed'
  <2>1. \A x \in Oids : blob'[x] = IF x = o THEN b ELSE blob[x]
    BY <1>3 DEF StoreInv, BlobsOK
  <2> QED
    BY <1>4, <2>1 DEF Commit, V!Commit, StoreInv, Hashed
<1>6. BlobsOK'
  BY <1>3 DEF Commit, V!Commit, StoreInv, BlobsOK
<1>7. Pictured'
  BY DEF Commit, Shown, Pictured
<1>8. Call(c)' /\ Streaming(c)'
  <2>1. /\ handler'[c] = handler[c] /\ Object(c)' = Object(c) /\ snap'[c] = snap[c]
        /\ req'[c] = req[c] /\ reply'[c] = reply[c]
    BY DEF Commit, Object
  <2>2. stage'[c] = "sent" /\ state'[c] = "stored"
    BY <1>0 DEF Commit, V!Commit, StoreInv, BlobsOK, LocalsOK
  <2>3. Matches(c)'
    BY <1>1, <2>1 DEF Matches
  <2>4. stream'[c] = Absent
    BY <1>1 DEF StoreInv, Ties, Streaming, At, Commit, V!Commit
  <2>5. oid'[c] = oid[c] /\ size'[c] = size[c]
    BY DEF Commit, V!Commit
  <2> QED
    BY <1>1, <1>2, <2>1, <2>2, <2>3, <2>4, <2>5 DEF Call, Streaming, At
<1>9. \A d \in Clients \ {c} : /\ state'[d] = state[d] /\ oid'[d] = oid[d]
                               /\ size'[d] = size[d] /\ stream'[d] = stream[d]
  BY DEF Commit, V!Commit, StoreInv, BlobsOK
<1> QED
  BY <1>1, <1>5, <1>6, <1>7, <1>8, <1>9, TiesOfOthers DEF StoreInv

\* Steps that leave the handlers and all calls alone.
LEMMA TiesKept ==
  ASSUME ServerInv, StoreInv, UNCHANGED <<locals, reply, state, oid, size>>,
         \A d \in Clients : stream'[d] \in {stream[d], Absent}
  PROVE  Ties'
<1> SUFFICES ASSUME NEW d \in Clients PROVE Call(d)' /\ Streaming(d)'
  BY DEF Ties
<1>1. Has(d)' = Has(d)
  BY DEF locals, Has
<1> QED
  BY <1>1, TieKept DEF StoreInv, Ties

\* A write is sent off, or arrives.
LEMMA LateKeeps ==
  ASSUME ServerInv, StoreInv, NEW c \in Clients, SendOff(c) \/ Arrives(c) PROVE StoreInv'
<1>1. Ties'
  BY TiesKept DEF SendOff, Arrives, V!Postpone, V!Land
<1>2. Pictured'
  BY DEF SendOff, Arrives, Shown, Pictured
<1>3. CASE SendOff(c)
  <2>1. PICK b \in Contents : pending' = [pending EXCEPT ![c] = [oid |-> oid[c], body |-> b]]
    BY <1>3 DEF SendOff
  <2>2. At(c, "put", "content") /\ oid[c] = Object(c).oid
    BY <1>3 DEF SendOff, StoreInv, Ties, Call
  <2>3. oid[c] \in Oids
    BY <2>2 DEF At, ServerInv, ControlInv
  <2>4. pending'[c] = [oid |-> oid[c], body |-> b]
    BY <2>1 DEF StoreInv, BlobsOK
  <2>5. Sha256(b) = oid[c]
    BY <1>3, <2>4 DEF SendOff, V!Postpone
  <2>6. BlobsOK'
    BY <1>3, <2>1 DEF SendOff, V!Postpone, StoreInv, BlobsOK
  <2>7. \A d \in Clients \ {c} : pending'[d] = pending[d]
    BY <2>1 DEF StoreInv, BlobsOK
  <2>8. Hashed'
    BY <1>3, <2>3, <2>4, <2>5, <2>7 DEF SendOff, V!Postpone, StoreInv, Hashed
  <2> QED
    BY <1>1, <1>2, <2>6, <2>8 DEF StoreInv
<1>4. CASE Arrives(c)
  <2> DEFINE o == pending[c].oid
             b == pending[c].body
  <2>1. o \in Oids /\ b \in Contents /\ Sha256(b) = o
    BY <1>4 DEF Arrives, V!Land, StoreInv, Hashed
  <2>2. \A x \in Oids : blob'[x] = blob[x] \/ (x = o /\ blob'[x] = b)
    BY <1>4 DEF Arrives, V!Land, StoreInv, BlobsOK
  <2>3. BlobsOK'
    BY <1>4, <2>1 DEF Arrives, V!Land, StoreInv, BlobsOK
  <2>4. \A d \in Clients : pending'[d] = pending[d] \/ pending'[d] = Absent
    BY <1>4 DEF Arrives, V!Land, StoreInv, BlobsOK
  <2> HIDE DEF o, b
  <2>5. Hashed'
    BY <2>1, <2>2, <2>4 DEF StoreInv, Hashed
  <2> QED
    BY <1>1, <1>2, <2>3, <2>5 DEF StoreInv
<1> QED
  BY <1>3, <1>4

\* A restart ends every request, and every call of the store.
LEMMA RestartKeeps == ASSUME StoreInv, Crash, V!Restart PROVE StoreInv'
<1>1. UNCHANGED <<blob, pending, contents>>
  BY DEF Crash, V!Restart, stores
<1>2. Hashed' /\ Pictured'
  BY <1>1 DEF StoreInv, Hashed, Pictured, Stored, Late, contents
<1>3. BlobsOK'
  BY DEF V!Restart, StoreInv, BlobsOK
<1>4. \A c \in Clients : stage'[c] = "idle" /\ state'[c] = "idle" /\ stream'[c] = Absent
  BY DEF Crash, V!Restart
<1>5. Ties'
  BY <1>4, TieFree DEF Ties, Waits, At
<1> QED
  BY <1>2, <1>3, <1>5 DEF StoreInv

\* Every step of the handlers and the store keeps what relates them.
LEMMA StoreNext == ServerInv /\ StoreInv /\ [WholeNext]_wvars => StoreInv'
<1> SUFFICES ASSUME ServerInv, StoreInv, [WholeNext]_wvars PROVE StoreInv'
  OBVIOUS
<1>1. ASSUME NEW c \in Clients, Ask(c) \/ Look(c) \/ CallPut(c) \/ Return(c) \/ Open(c)
      PROVE  StoreInv'
  BY <1>1, AskKeeps, LookKeeps, CallPutKeeps, ReturnKeeps, OpenKeeps
<1>2. ASSUME NEW c \in Clients, Commit(c) \/ SendOff(c) \/ Arrives(c) PROVE StoreInv'
  BY <1>2, CommitKeeps, LateKeeps
<1>3. ASSUME NEW c \in Clients, Lapse(c), UNCHANGED store PROVE StoreInv'
  <2>1. Ties'
    BY <1>3, TiesKept DEF Lapse, store
  <2> QED
    BY <1>3, <2>1, StoreQuiet DEF Lapse, stores, StoreInv
<1>4. ASSUME NEW c \in Clients, Copied(c) PROVE StoreInv'
  <2>1. \A d \in Clients : stream'[d] \in {stream[d], Absent}
    BY <1>4 DEF Copied, V!Fetched, StoreInv, BlobsOK
  <2>2. Ties'
    BY <1>4, <2>1, TiesKept DEF Copied, V!Fetched, vars
  <2>3. BlobsOK'
    BY <1>4 DEF Copied, V!Fetched, StoreInv, BlobsOK
  <2>4. Hashed' /\ Pictured'
    BY <1>4 DEF Copied, V!Fetched, vars, stores, contents, StoreInv, Hashed, Pictured, Stored, Late
  <2> QED
    BY <2>2, <2>3, <2>4 DEF StoreInv
<1>5. CASE UNCHANGED wvars
  <2>1. Ties'
    BY <1>5, TiesKept DEF wvars, vars, store
  <2> QED
    BY <1>5, <2>1, StoreQuiet DEF wvars, vars, stores, StoreInv
<1> QED
  BY <1>1, <1>2, <1>3, <1>4, <1>5, RestartKeeps DEF WholeNext, WholeStep

-----------------------------------------------------------------------------
(* Theorems                                                                *)

LEMMA WholeStarts == WholeInit => ServerInv /\ StoreInv
<1> SUFFICES ASSUME WholeInit PROVE ServerInv /\ StoreInv
  OBVIOUS
<1>1. ServerInv
  BY TypeInit DEF WholeInit, ServerInv
<1>2. BlobsOK /\ Hashed
  BY DEF WholeInit, V!Init, BlobsOK, Hashed
<1>3. Pictured
  BY DEF WholeInit, Init, V!Init, Pictured, Stored, Late
<1>4. Ties
  BY DEF WholeInit, Init, V!Init, Ties, Call, Streaming, At
<1> QED
  BY <1>1, <1>2, <1>3, <1>4 DEF StoreInv

LEMMA WholeKeeps ==
  ServerInv /\ StoreInv /\ [WholeNext]_wvars =>
    [Next]_vars /\ [Moved]_vars /\ (ServerInv /\ StoreInv)'
<1> SUFFICES ASSUME ServerInv, StoreInv, [WholeNext]_wvars
             PROVE  [Next]_vars /\ [Moved]_vars /\ (ServerInv /\ StoreInv)'
  OBVIOUS
<1>1. [Next]_vars
  BY Simulation
<1>2. [Moved]_vars
  BY <1>1, NextMoves
<1> QED
  BY <1>1, <1>2, TypeNext, StoreNext DEF ServerInv

\* Over any content store that keeps its contract the handlers do what
\* LfsServer says.  So every theorem about LfsServer is one about them.
THEOREM Composition == WholeSpec => Spec
BY WholeStarts, WholeKeeps, PTL DEF WholeSpec, WholeInit, Spec

\* Put, Get and Exists are called one at a time, by handlers that wait for
\* them, whatever requests clients send.
THEOREM Turns == WholeSpec => []InTurn
<1>1. ServerInv /\ StoreInv => InTurn
  <2> SUFFICES ASSUME StoreInv, NEW c \in Clients
               PROVE  /\ Waits(c) <=> state[c] # "idle"
                      /\ stream[c] # Absent => stage[c] = "idle"
    BY DEF InTurn
  <2>1. Call(c) /\ Streaming(c)
    BY DEF StoreInv, Ties
  <2>2. state[c] \in {"idle", "busy", "stored"}
    BY DEF StoreInv, BlobsOK
  <2>3. Waits(c) <=> state[c] # "idle"
    BY <2>1, <2>2 DEF Call, Waits
  <2> QED
    BY <2>1, <2>3 DEF Streaming
<1> QED
  BY <1>1, WholeStarts, WholeKeeps, PTL DEF WholeSpec

\* A client that downloads an object is sent content with the hash it asked
\* for, while uploads of the same object commit, fail and arrive late.
THEOREM Delivery == WholeSpec => []Delivered
<1>1. ServerInv /\ StoreInv => Delivered
  BY DEF StoreInv, Ties, Streaming, Delivered
<1> QED
  BY <1>1, WholeStarts, WholeKeeps, PTL DEF WholeSpec

\* 200 for an upload or an announcement says that the store has content with
\* the hash that the client named, and it still has it when the client asks
\* for something else: for an announcement over a local store, as long as no
\* call of a store has failed.
THEOREM Vouching == WholeSpec => []Vouched
<1>1. StoreInv /\ BackedInv => Vouched
  <2> SUFFICES ASSUME StoreInv, BackedInv, NEW c \in Clients,
                      Claimed(c)
               PROVE  blob[reply[c].oid] # Absent /\ Sha256(blob[reply[c].oid]) = reply[c].oid
    BY DEF Vouched
  <2>1. reply[c].oid \in Oids /\ stored[reply[c].oid]
    BY DEF BackedInv, Backed, Assured
  <2>2. blob[reply[c].oid] # Absent
    BY <2>1 DEF StoreInv, Pictured, Stored
  <2> QED
    BY <2>1, <2>2 DEF StoreInv, Hashed
<1>2. ServerInv /\ [Moved]_vars /\ BackedInv => BackedInv'
  BY BackedNext DEF ServerInv
<1>3. WholeInit => BackedInv
  BY BackedInit DEF WholeInit
<1> QED
  BY <1>1, <1>2, <1>3, WholeStarts, WholeKeeps, PTL DEF WholeSpec

\* In calm behaviours the size that clients are told of an object is the
\* length of the bytes that the store has.
THEOREM Measure == WholeSpec => []Measured
<1>1. StoreInv /\ SizesReal => Measured
  <2> SUFFICES ASSUME StoreInv, SizesReal, calm, NEW o \in Oids, blob[o] # Absent
               PROVE  meta[o] = Len(blob[o])
    BY DEF Measured
  <2>1. blob[o] \in Contents /\ Sha256(blob[o]) = o
    BY DEF StoreInv, BlobsOK, Hashed
  <2>2. stored[o]
    BY DEF StoreInv, Pictured, Stored
  <2> QED
    BY <2>1, <2>2, SizeOfContent DEF SizesReal
<1>2. Spec => []SizesReal
  BY Real
<1> QED
  BY <1>1, <1>2, Composition, WholeStarts, WholeKeeps, PTL DEF WholeSpec

=============================================================================
