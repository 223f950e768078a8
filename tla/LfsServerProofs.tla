-------------------------- MODULE LfsServerProofs --------------------------
(***************************************************************************)
(* Theorems about LfsServer, for any sets of clients and objects, any      *)
(* sizes and batches, over a local store and over one behind a network.    *)
(***************************************************************************)
EXTENDS LfsServer, SequenceTheorems, TLAPS

-----------------------------------------------------------------------------
(* Types and control                                                       *)

\* Which handler can be at which store call, and with which object: only a
\* batch has nothing left to look at, and only a hash gets past a lookup.
ControlInv == \A c \in Clients :
    /\ handler[c] = "none" <=> stage[c] = "idle"
    /\ stage[c] \in {"put", "look", "write"} => handler[c] \in {"batch", "post"}
    /\ stage[c] = "exists" => handler[c] = "post"
    /\ stage[c] = "content" => handler[c] \in {"put", "content"}
    /\ stage[c] = "sent" => handler[c] = "put"
    /\ todo[c] # << >> \/ stage[c] = "idle" \/ At(c, "batch", "get")
    /\ stage[c] \in {"exists", "content", "sent"} => Object(c).oid \in Oids

Stages   == {"idle", "get", "put", "look", "write", "exists", "content", "sent"}
Statuses == {0, 200, 202, 401, 404, 500}

\* The parts of TypeOK: what belongs to the clients, and the rest.
LocalsOK ==
    /\ handler \in [Clients -> Handlers]
    /\ stage   \in [Clients -> Stages]
    /\ req     \in [Clients -> [method : Methods \cup {"none"}, signed : BOOLEAN, good : BOOLEAN]]
    /\ todo    \in [Clients -> Seq(Objects)]
    /\ snap    \in [Clients -> Sizes \cup {0}]
    /\ done    \in [Clients -> Seq(Representations)]
    /\ reply   \in [Clients -> [to : Handlers, oid : Oids \cup {""},
                                status : Statuses, objects : Seq(Representations)]]

StoresOK ==
    /\ meta   \in [Oids -> Sizes \cup {0, None}]
    /\ stored \in [Oids -> BOOLEAN]
    /\ late   \subseteq Oids
    /\ access \in [Clients -> BOOLEAN]

LimitsOK ==
    /\ aborts \in 0 .. MaxAborts
    /\ lapses \in 0 .. MaxLapses
    /\ crashes \in 0 .. MaxCrashes

LEMMA TypeParts == TypeOK <=> LocalsOK /\ StoresOK /\ LimitsOK /\ calm \in BOOLEAN
BY DEF TypeOK, LocalsOK, StoresOK, LimitsOK, Stages, Statuses

\* The route table leads to a handler, or nowhere if no route matches.
LEMMA RouteTypes ==
  ASSUME NEW m \in Methods, NEW p \in Paths, NEW a \in Accepts
  PROVE  /\ Route(m, p, a) \in Handlers
         /\ Matching(m, p, a) # {} => Route(m, p, a) # "none"
<1> DEFINE is == Matching(m, p, a)
           first == CHOOSE i \in is : \A j \in is : i <= j
<1>1. Route(m, p, a) = IF is = {} THEN "none" ELSE Routes[first].to
  BY DEF Route
<1>2. \A i \in 1 .. 6 : Routes[i].to \in Handlers \ {"none"}
  BY DEF Routes, Handlers
<1>3. is \subseteq 1 .. 6
  BY DEF Matching
<1> HIDE DEF is
<1>4. ASSUME is # {} PROVE \E i \in is : \A j \in is : i <= j
  <2>1. PICK k \in is : TRUE
    BY <1>4
  <2>2. k \in {1, 2, 3, 4, 5, 6}
    BY <1>3, <2>1
  <2>3. CASE 1 \in is
    BY <1>3, <2>3
  <2>4. CASE 1 \notin is /\ 2 \in is
    BY <1>3, <2>4
  <2>5. CASE 1 \notin is /\ 2 \notin is /\ 3 \in is
    BY <1>3, <2>5
  <2>6. CASE 1 \notin is /\ 2 \notin is /\ 3 \notin is /\ 4 \in is
    BY <1>3, <2>6
  <2>7. CASE is \subseteq {5, 6} /\ 5 \in is
    BY <1>3, <2>7
  <2>8. CASE is \subseteq {6}
    BY <1>3, <1>4, <2>8
  <2> QED
    BY <1>3, <2>3, <2>4, <2>5, <2>6, <2>7, <2>8
<1>5. is # {} => first \in 1 .. 6
  BY <1>3, <1>4
<1> HIDE DEF first
<1>6. CASE is = {}
  BY <1>1, <1>6 DEF is, Handlers
<1>7. CASE is # {}
  BY <1>1, <1>2, <1>5, <1>7
<1> QED
  BY <1>6, <1>7

\* What RequestVars can be: only a batch may have no object.
LEMMA UnpackedTypes ==
  ASSUME NEW h, NEW p, NEW list \in Unpacked(h, p)
  PROVE  list \in Seq(Objects) /\ (h # "batch" => list # << >>)
<1>1. Garbled \in Objects
  BY DEF Garbled, Objects
<1>2. \A o \in Oids : [oid |-> o, size |-> 0] \in Objects
  BY DEF Objects
<1>3. \A x \in Objects : <<x>> \in Seq(Objects) /\ <<x>> # << >>
  OBVIOUS
<1> QED
  BY <1>1, <1>2, <1>3, ListsAssumption DEF Unpacked

\* A message that reaches a handler is one that the handler can serve.
Served == [to : Handlers \ {"none"}, method : Methods, objects : Seq(Objects),
           signed : BOOLEAN, good : BOOLEAN]

LEMMA MessageTypes ==
  ASSUME NEW x \in Messages
  PROVE  x \in Served /\ (x.to # "batch" => x.objects # << >>)
<1>1. PICK m \in Methods, p \in Paths, a \in Accepts : x \in Routed(m, p, a)
  BY DEF Messages
<1> DEFINE h == Route(m, p, a)
<1>2. h \in Handlers
  BY RouteTypes
<1>3. /\ h # "none"
      /\ x \in [to : {h}, method : {m}, objects : Unpacked(h, p), signed : BOOLEAN,
               good : IF m = "PUT" THEN BOOLEAN ELSE {FALSE}]
  BY <1>1 DEF Routed
<1> HIDE DEF h
<1>4. x.objects \in Seq(Objects) /\ (h # "batch" => x.objects # << >>)
  BY <1>3, UnpackedTypes
<1> QED
  BY <1>2, <1>3, <1>4 DEF Served

\* A request of any client, git-lfs or not.
Serve(c) ==
    \/ NotRouted(c)
    \/ \E x \in Served : (x.to # "batch" => x.objects # << >>) /\ Arrive(c, x)

\* The steps of Next and of ClientNext, whatever becomes of calm.
Moves ==
    \/ \E c \in Clients : Serve(c) \/ HandlerStep(c) \/ Postpone(c) \/ Lapse(c)
    \/ \E o \in Oids : Land(o)
    \/ Crash

Moved == Moves /\ calm' \in BOOLEAN

LEMMA RequestServes == ASSUME NEW c, Request(c) PROVE Serve(c)
  BY MessageTypes DEF Request, Serve

LEMMA NextMoves == [Next]_vars => [Moved]_vars
  BY RequestServes DEF Next, Step, Moved, Moves

\* The object that a handler looks at, and what is on record for it.
LEMMA ObjectTypes ==
  ASSUME LocalsOK, StoresOK, NEW c \in Clients
  PROVE  /\ todo[c] # << >> => /\ Object(c) \in Objects
                               /\ Object(c).oid \in Oids \cup {""}
                               /\ Object(c).size \in Sizes \cup {0}
         /\ Found(c) => /\ Object(c).oid \in Oids
                        /\ Lookup(Object(c).oid) = meta[Object(c).oid]
                        /\ meta[Object(c).oid] \in Sizes \cup {0}
<1>1. ASSUME todo[c] # << >> PROVE Object(c) \in Objects
  BY <1>1, HeadTailProperties DEF LocalsOK, Object
<1>2. Found(c) => Object(c).oid \in Oids
  BY DEF Found, Lookup
<1> QED
  BY <1>1, <1>2 DEF Objects, Found, Lookup, StoresOK

\* Represent gives a Representation.
LEMMA RepresentTypes ==
  ASSUME NEW o \in Oids, NEW s \in Sizes \cup {0}, NEW links \in Links
  PROVE  <<Represent(o, s, links)>> \in Seq(Representations)
BY DEF Represent, Representations

\* A handler that goes on to its next store call.
LEMMA GotoKeeps ==
  ASSUME LocalsOK, ControlInv, NEW c \in Clients, todo[c] # << >>, stage[c] # "idle",
         NEW s \in Stages \ {"idle", "get"}, Goto(c, s),
         s \in {"put", "look", "write"} => handler[c] \in {"batch", "post"},
         s = "exists" => handler[c] = "post",
         s = "content" => handler[c] \in {"put", "content"},
         s = "sent" => handler[c] = "put",
         s \in {"exists", "content", "sent"} => Object(c).oid \in Oids,
         snap' \in [Clients -> Sizes \cup {0}]
  PROVE  LocalsOK' /\ ControlInv'
<1>1. LocalsOK'
  BY DEF LocalsOK, Goto, Stages
<1>2. ControlInv'
  BY DEF LocalsOK, ControlInv, Goto, At, Object
<1> QED
  BY <1>1, <1>2

LEMMA NothingListed == << >> \in Seq(Objects) /\ << >> \in Seq(Representations)
  OBVIOUS

\* A handler that has come to its end.
LEMMA FinishKeeps ==
  ASSUME LocalsOK, ControlInv, NEW c \in Clients, Finish(c),
         reply' \in [Clients -> [to : Handlers, oid : Oids \cup {""},
                                 status : Statuses, objects : Seq(Representations)]]
  PROVE  LocalsOK' /\ ControlInv'
<1>1. NoRequest \in [method : Methods \cup {"none"}, signed : BOOLEAN, good : BOOLEAN]
  BY DEF NoRequest
<1>2. /\ handler' \in [Clients -> Handlers] /\ stage' \in [Clients -> Stages]
      /\ todo' \in [Clients -> Seq(Objects)] /\ done' \in [Clients -> Seq(Representations)]
      /\ snap' \in [Clients -> Sizes \cup {0}]
  <2>1. "none" \in Handlers /\ "idle" \in Stages
    BY DEF Handlers, Stages
  <2> QED
    BY <2>1, NothingListed DEF LocalsOK, Finish
<1>3. req' \in [Clients -> [method : Methods \cup {"none"}, signed : BOOLEAN, good : BOOLEAN]]
  BY <1>1 DEF LocalsOK, Finish
<1>4. ControlInv'
  BY DEF LocalsOK, ControlInv, Finish, At, Object
<1> QED
  BY <1>2, <1>3, <1>4 DEF LocalsOK

\* A handler that answers.
LEMMA AnswerKeeps ==
  ASSUME LocalsOK, StoresOK, ControlInv, NEW c \in Clients, NEW status \in Statuses,
         NEW objs \in Seq(Representations), Answer(c, status, objs)
  PROVE  LocalsOK' /\ ControlInv'
<1>1. (IF todo[c] = << >> THEN "" ELSE Object(c).oid) \in Oids \cup {""}
  BY ObjectTypes
<1>2. reply' \in [Clients -> [to : Handlers, oid : Oids \cup {""},
                              status : Statuses, objects : Seq(Representations)]]
  BY <1>1 DEF LocalsOK, Answer
<1> QED
  BY <1>2, FinishKeeps DEF Answer

\* A handler that panics.
LEMMA PanicKeeps ==
  ASSUME LocalsOK, ControlInv, NEW c \in Clients, Panic(c)
  PROVE  LocalsOK' /\ ControlInv'
BY FinishKeeps DEF Panic, LocalsOK

\* BatchHandler turning to its next object.
LEMMA NextObjectKeeps ==
  ASSUME LocalsOK, ControlInv, NEW c \in Clients, handler[c] = "batch",
         todo[c] # << >>, NEW objs \in Seq(Representations), NextObject(c, objs)
  PROVE  LocalsOK' /\ ControlInv'
<1>1. Tail(todo[c]) \in Seq(Objects) /\ done[c] \o objs \in Seq(Representations)
  BY HeadTailProperties, ConcatProperties DEF LocalsOK
<1>2. LocalsOK'
  BY <1>1 DEF LocalsOK, NextObject, Stages
<1>3. ControlInv'
  BY DEF LocalsOK, ControlInv, NextObject, At, Object
<1> QED
  BY <1>2, <1>3

\* Steps that are counted stay within their bounds.
LEMMA FaultKeeps == LimitsOK /\ Fault => LimitsOK'
BY BoundsAssumption DEF LimitsOK, Fault

\* A handler does not change who may log in, and counts the calls that fail.
LEMMA HandlerCalls ==
  ASSUME NEW c, HandlerStep(c)
  PROVE  UNCHANGED access /\ (UNCHANGED limits \/ Fault)
<1>1. CASE GetContentHandler(c) \/ SendContent(c) \/ GetSearchHandler(c) \/ GetMetaHandler(c)
  BY <1>1 DEF GetContentHandler, SendContent, GetSearchHandler, GetMetaHandler, Denied
<1>2. CASE PutHandler(c) \/ StoreContent(c) \/ StoreFails(c) \/ PutDone(c) \/ PutLost(c)
  BY <1>2 DEF PutHandler, StoreContent, StoreFails, PutDone, PutLost, Denied
<1>3. CASE BatchGet(c) \/ BatchDone(c) \/ PutBegin(c) \/ PutLookup(c)
  BY <1>3 DEF BatchGet, BatchDone, PutBegin, PutLookup
<1>4. CASE PutWrite(c) \/ PutFails(c) \/ PutUnrecorded(c) \/ PostAnswer(c)
  BY <1>4 DEF PutWrite, PutFails, PutUnrecorded, PostAnswer, Exists
<1> QED
  BY <1>1, <1>2, <1>3, <1>4 DEF HandlerStep

\* Of the stores, it writes the metadata at the end of Put, and the contents
\* in an upload.
LEMMA HandlerWrites ==
  ASSUME NEW c, HandlerStep(c)
  PROVE  /\ UNCHANGED meta \/ (stage[c] = "write" /\ Record(c))
         /\ UNCHANGED contents \/ StoreContent(c)
<1>1. CASE GetContentHandler(c) \/ SendContent(c) \/ GetSearchHandler(c) \/ GetMetaHandler(c)
  BY <1>1 DEF GetContentHandler, SendContent, GetSearchHandler, GetMetaHandler, stores
<1>2. CASE PutHandler(c) \/ StoreContent(c) \/ StoreFails(c) \/ PutDone(c) \/ PutLost(c)
  BY <1>2 DEF PutHandler, StoreContent, StoreFails, PutDone, PutLost, stores
<1>3. CASE BatchGet(c) \/ BatchDone(c) \/ PutBegin(c) \/ PutLookup(c)
  BY <1>3 DEF BatchGet, BatchDone, PutBegin, PutLookup, stores
<1>4. CASE PutWrite(c) \/ PutFails(c) \/ PutUnrecorded(c) \/ PostAnswer(c)
  BY <1>4 DEF PutWrite, PutFails, PutUnrecorded, PostAnswer, stores
<1> QED
  BY <1>1, <1>2, <1>3, <1>4 DEF HandlerStep

\* The first state is well typed.
LEMMA TypeInit == Init => TypeOK /\ ControlInv
<1> SUFFICES ASSUME Init PROVE TypeOK /\ ControlInv
  OBVIOUS
<1>1. NoRequest \in [method : Methods \cup {"none"}, signed : BOOLEAN, good : BOOLEAN]
  BY DEF NoRequest
<1>2. NoReply \in [to : Handlers, oid : Oids \cup {""}, status : Statuses,
                   objects : Seq(Representations)]
  BY DEF NoReply, Handlers, Statuses
<1>3. LocalsOK
  <2>1. << >> \in Seq(Objects) /\ << >> \in Seq(Representations)
    OBVIOUS
  <2>2. "none" \in Handlers /\ "idle" \in Stages
    BY DEF Handlers, Stages
  <2> QED
    BY <1>1, <1>2, <2>1, <2>2 DEF Init, LocalsOK
<1>4. StoresOK /\ LimitsOK /\ calm \in BOOLEAN
  BY BoundsAssumption DEF Init, StoresOK, LimitsOK
<1>5. ControlInv
  BY DEF Init, ControlInv
<1> QED
  BY <1>3, <1>4, <1>5, TypeParts

\* What a step of a handler does to the types, one store call at a time.
LEMMA TypeHandler ==
  ASSUME LocalsOK, StoresOK, LimitsOK, ControlInv, NEW c \in Clients, HandlerStep(c)
  PROVE  LocalsOK' /\ StoresOK' /\ LimitsOK' /\ ControlInv'
<1> DEFINE Keeps == LocalsOK' /\ ControlInv'
<1>r. /\ todo[c] # << >> => Object(c).oid \in Oids \cup {""} /\ Object(c).size \in Sizes \cup {0}
      /\ Found(c) => /\ Object(c).oid \in Oids
                     /\ Lookup(Object(c).oid) = meta[Object(c).oid]
                     /\ meta[Object(c).oid] \in Sizes \cup {0}
  BY ObjectTypes
<1>k. /\ snap \in [Clients -> Sizes \cup {0}]
      /\ stage[c] # "idle" /\ ~At(c, "batch", "get") => todo[c] # << >>
      /\ stage[c] \in {"exists", "content", "sent"} => Object(c).oid \in Oids
      /\ stage[c] \in {"put", "look", "write"} => handler[c] \in {"batch", "post"}
  BY DEF LocalsOK, ControlInv
<1>a. \A status \in {200, 202, 401, 404, 500}, objs \in Seq(Representations) :
        Answer(c, status, objs) => Keeps
  BY AnswerKeeps DEF Statuses
<1>s. \A status \in {200, 202, 401, 404, 500} : Answer(c, status, << >>) => Keeps
  <2> SUFFICES ASSUME NEW status \in {200, 202, 401, 404, 500}, Answer(c, status, << >>)
               PROVE  Keeps
    OBVIOUS
  <2> HIDE DEF Keeps
  <2>1. << >> \in Seq(Representations)
    OBVIOUS
  <2>2. \A objs \in Seq(Representations) : Answer(c, status, objs) => Keeps
    BY <1>a
  <2> QED
    BY <2>1, <2>2
<1>n. \A objs \in Seq(Representations) :
        handler[c] = "batch" /\ todo[c] # << >> /\ NextObject(c, objs) => Keeps
  BY NextObjectKeeps
<1>e. handler[c] = "batch" /\ todo[c] # << >> /\ NextObject(c, << >>) => Keeps
  <2>1. << >> \in Seq(Representations)
    OBVIOUS
  <2> QED
    BY <1>n, <2>1
<1>g. /\ handler[c] \in {"batch", "post"} => \A s \in {"put", "look", "write"} :
           todo[c] # << >> /\ stage[c] # "idle" /\ Goto(c, s) /\ UNCHANGED snap => Keeps
      /\ At(c, "put", "content") /\ Goto(c, "sent") /\ UNCHANGED snap => Keeps
  BY <1>k, GotoKeeps DEF Stages, At
<1>d. ASSUME Denied(c) PROVE Keeps
  <2>1. \E status \in {401, 404} : Answer(c, status, << >>)
    BY <1>d DEF Denied
  <2> QED
    BY <1>s, <2>1
<1>l. ASSUME NEW h \in {"put", "content"}, At(c, h, "get"), Found(c), Goto(c, "content"),
             snap' = [snap EXCEPT ![c] = Lookup(Object(c).oid)]
      PROVE  Keeps
  <2>1. snap' \in [Clients -> Sizes \cup {0}]
    BY <1>l, <1>r, <1>k
  <2> QED
    BY <1>l, <1>r, <1>k, <2>1, GotoKeeps DEF At, Stages
<1>o. LimitsOK'
  BY HandlerCalls, FaultKeeps DEF LimitsOK, limits
<1>w. StoresOK'
  <2>1. meta' \in [Oids -> Sizes \cup {0, None}]
    <3>1. CASE UNCHANGED meta
      BY <3>1 DEF StoresOK
    <3>2. CASE stage[c] = "write" /\ Record(c)
      <4>1. Object(c).oid \in Oids /\ Object(c).size \in Sizes \cup {0}
        BY <1>r, <1>k, <3>2 DEF At, Record
      <4> QED
        BY <3>2, <4>1 DEF Record, StoresOK
    <3> QED
      BY <3>1, <3>2, HandlerWrites
  <2>2. stored' \in [Oids -> BOOLEAN] /\ late' \subseteq Oids
    <3>1. CASE UNCHANGED contents
      BY <3>1 DEF contents, StoresOK
    <3>2. CASE StoreContent(c)
      BY <3>2 DEF StoreContent, Keep, StoresOK
    <3> QED
      BY <3>1, <3>2, HandlerWrites
  <2>3. access' \in [Clients -> BOOLEAN]
    BY HandlerCalls DEF StoresOK
  <2> QED
    BY <2>1, <2>2, <2>3 DEF StoresOK
<1> SUFFICES Keeps
  BY <1>o, <1>w
<1> HIDE DEF Keeps
<1>1. CASE GetContentHandler(c)
  BY <1>1, <1>d, <1>l DEF GetContentHandler
<1>2. CASE SendContent(c)
  BY <1>2, <1>s DEF SendContent
<1>3. CASE GetSearchHandler(c)
  BY <1>3, <1>d, <1>s DEF GetSearchHandler
<1>4. CASE GetMetaHandler(c)
  <2> DEFINE r == <<Represent(Object(c).oid, Lookup(Object(c).oid), {"download"})>>
  <2>1. Found(c) => r \in Seq(Representations)
    BY <1>r, RepresentTypes DEF Links
  <2>2. \/ Denied(c)
        \/ Found(c) /\ (Answer(c, 200, r) \/ Answer(c, 200, << >>))
    BY <1>4 DEF GetMetaHandler
  <2> HIDE DEF r
  <2> QED
    BY <1>a, <1>d, <1>s, <2>1, <2>2
<1>5. CASE PutHandler(c)
  BY <1>5, <1>d, <1>l DEF PutHandler
<1>6. CASE StoreContent(c)
  <2>1. ASSUME Goto(c, "sent"), UNCHANGED snap PROVE Keeps
    BY <1>6, <1>g, <2>1 DEF StoreContent
  <2>2. ASSUME Answer(c, 500, << >>) PROVE Keeps
    BY <1>s, <2>2
  <2> QED
    BY <1>6, <2>1, <2>2 DEF StoreContent
<1>7. CASE StoreFails(c) \/ PutDone(c) \/ PutLost(c)
  BY <1>7, <1>s DEF StoreFails, PutDone, PutLost
<1>8. CASE BatchGet(c)
  <2> DEFINE r == <<Represent(Object(c).oid, Lookup(Object(c).oid), {"download"})>>
  <2>1. handler[c] = "batch" /\ todo[c] # << >> /\ stage[c] # "idle"
    BY <1>8 DEF BatchGet, At
  <2>2. Found(c) => r \in Seq(Representations)
    BY <1>r, RepresentTypes DEF Links
  <2>3. \/ Found(c) /\ NextObject(c, r)
        \/ Answer(c, 401, << >>)
        \/ Goto(c, "put") /\ UNCHANGED snap
    BY <1>8 DEF BatchGet
  <2> HIDE DEF r
  <2> QED
    BY <1>s, <1>g, <1>n, <2>1, <2>2, <2>3
<1>9. CASE BatchDone(c)
  <2>1. done[c] \in Seq(Representations)
    BY DEF LocalsOK
  <2> QED
    BY <1>9, <2>1, <1>a DEF BatchDone
<1>p. ASSUME stage[c] \in {"put", "look", "write"}, NEW status \in {401, 404},
             PutRefused(c, status)
      PROVE  Keeps
  <2>1. CASE handler[c] = "batch"
    BY <1>p, <1>e, <1>k, <2>1 DEF PutRefused, At
  <2>2. CASE handler[c] # "batch"
    BY <1>p, <1>s, <2>2 DEF PutRefused
  <2> QED
    BY <2>1, <2>2
<1>10. CASE PutBegin(c)
  <2>1. todo[c] # << >> /\ handler[c] \in {"batch", "post"} /\ stage[c] = "put"
    BY <1>10, <1>k DEF PutBegin, At
  <2>2. PutRefused(c, 401) \/ (Goto(c, "look") /\ UNCHANGED snap)
    BY <1>10 DEF PutBegin
  <2> QED
    BY <1>g, <1>p, <2>1, <2>2
<1>11. CASE PutLookup(c)
  <2> DEFINE o == Object(c).oid
             r == <<Represent(o, Lookup(o), {"download", "upload"})>>
  <2>1. todo[c] # << >> /\ handler[c] \in {"batch", "post"} /\ stage[c] = "look"
    BY <1>11, <1>k DEF PutLookup, At
  <2>2. ASSUME Goto(c, "write"), UNCHANGED snap PROVE Keeps
    BY <1>g, <2>1, <2>2
  <2>3. ASSUME Found(c), handler[c] = "batch", NextObject(c, r) PROVE Keeps
    <3>1. r \in Seq(Representations)
      BY <1>r, <2>3, RepresentTypes DEF Links
    <3> QED
      BY <2>1, <2>3, <3>1, <1>n
  <2>4. ASSUME Found(c), handler[c] = "post", Goto(c, "exists"),
               snap' = [snap EXCEPT ![c] = Lookup(o)]
        PROVE  Keeps
    <3>1. snap' \in [Clients -> Sizes \cup {0}]
      BY <1>r, <1>k, <2>4
    <3> QED
      BY <1>r, <2>1, <2>4, <3>1, GotoKeeps DEF Stages, Keeps
  <2> QED
    BY <1>11, <2>2, <2>3, <2>4 DEF PutLookup
<1>v. ASSUME stage[c] = "write", Object(c).oid # "", PutReturns(c) PROVE Keeps
  <2> DEFINE r == <<Represent(Object(c).oid, Object(c).size, {"upload"})>>
  <2>1. todo[c] # << >> /\ handler[c] \in {"batch", "post"}
    BY <1>v, <1>k DEF At
  <2>2. r \in Seq(Representations)
    BY <1>r, <1>v, <2>1, RepresentTypes DEF Links
  <2>3. (handler[c] = "batch" /\ NextObject(c, r)) \/ Answer(c, 202, r)
    BY <1>v DEF PutReturns
  <2> HIDE DEF r
  <2> QED
    BY <1>a, <1>n, <2>1, <2>2, <2>3
<1>12. CASE PutWrite(c)
  BY <1>12, <1>p, <1>v DEF PutWrite
<1>13. CASE PutFails(c)
  <2>1. Panic(c) => Keeps
    BY PanicKeeps DEF Keeps
  <2> QED
    BY <1>13, <1>p, <2>1 DEF PutFails
<1>14. CASE PutUnrecorded(c)
  BY <1>14, <1>v DEF PutUnrecorded
<1>15. CASE PostAnswer(c)
  <2> DEFINE r == <<Represent(Object(c).oid, snap[c], {"download", "upload"})>>
  <2>1. r \in Seq(Representations)
    BY <1>15, <1>k, RepresentTypes DEF PostAnswer, At, Links
  <2>2. \E status \in {200, 202} : Answer(c, status, r)
    BY <1>15 DEF PostAnswer
  <2> HIDE DEF r
  <2>3. \A status \in {200, 202} : Answer(c, status, r) => Keeps
    BY <1>a, <2>1
  <2> QED
    BY <2>2, <2>3
<1> QED
  BY <1>1, <1>2, <1>3, <1>4, <1>5, <1>6, <1>7, <1>8, <1>9, <1>10, <1>11, <1>12, <1>13, <1>14,
     <1>15 DEF HandlerStep

\* What the arrival of a request does to the types.
LEMMA TypeRequest ==
  ASSUME LocalsOK, StoresOK, LimitsOK, ControlInv, NEW c \in Clients, Serve(c)
  PROVE  LocalsOK' /\ StoresOK' /\ LimitsOK' /\ ControlInv'
<1>1. NoReply \in [to : Handlers, oid : Oids \cup {""}, status : Statuses,
                   objects : Seq(Representations)]
  BY DEF NoReply, Handlers, Statuses
<1>2. CASE NotRouted(c)
  <2>1. NotFound \in [to : Handlers, oid : Oids \cup {""}, status : Statuses,
                      objects : Seq(Representations)]
    BY DEF NotFound, Handlers, Statuses
  <2>2. LocalsOK'
    BY <1>2, <2>1 DEF NotRouted, LocalsOK, locals
  <2>3. ControlInv'
    BY <1>2 DEF NotRouted, ControlInv, locals, At, Object
  <2> QED
    BY <1>2, <2>2, <2>3 DEF NotRouted, stores, contents, limits, StoresOK, LimitsOK
<1>3. ASSUME NEW x \in Served, x.to # "batch" => x.objects # << >>, Arrive(c, x)
      PROVE  LocalsOK' /\ StoresOK' /\ LimitsOK' /\ ControlInv'
  <2>1. x \in Served /\ (x.to # "batch" => x.objects # << >>)
    BY <1>3
  <2>2. x.to \in Handlers \ {"none"} /\ x.objects \in Seq(Objects)
    BY <2>1 DEF Served
  <2>3. x.method \in Methods /\ x.signed \in BOOLEAN /\ x.good \in BOOLEAN
    BY <2>1 DEF Served
  <2>4. /\ handler' \in [Clients -> Handlers] /\ stage' \in [Clients -> Stages]
        /\ todo' \in [Clients -> Seq(Objects)]
    <3>1. (IF x.to = "post" THEN "put" ELSE "get") \in Stages
      BY DEF Stages
    <3> QED
      BY <1>3, <2>2, <3>1 DEF Arrive, LocalsOK
  <2>5. req' \in [Clients -> [method : Methods \cup {"none"}, signed : BOOLEAN, good : BOOLEAN]]
    BY <1>3, <2>3 DEF Arrive, LocalsOK
  <2>6. reply' \in [Clients -> [to : Handlers, oid : Oids \cup {""}, status : Statuses,
                                objects : Seq(Representations)]]
    BY <1>1, <1>3 DEF Arrive, LocalsOK
  <2>7. LocalsOK'
    BY <1>3, <2>4, <2>5, <2>6 DEF Arrive, LocalsOK
  <2>8. ControlInv'
    BY <1>3, <2>1, <2>2 DEF Arrive, LocalsOK, ControlInv, At, Object
  <2> QED
    BY <1>3, <2>7, <2>8 DEF Arrive, stores, contents, limits, StoresOK, LimitsOK
<1> QED
  BY <1>2, <1>3 DEF Serve

\* Every step keeps the types, and the handlers where they can be.
LEMMA TypeNext == TypeOK /\ ControlInv /\ [Moved]_vars => TypeOK' /\ ControlInv'
<1> SUFFICES ASSUME TypeOK, ControlInv, [Moved]_vars PROVE TypeOK' /\ ControlInv'
  OBVIOUS
<1>0. LocalsOK /\ StoresOK /\ LimitsOK /\ calm \in BOOLEAN
  BY TypeParts
<1>b. calm' \in BOOLEAN
  BY <1>0 DEF Moved, vars
<1> DEFINE Good == LocalsOK' /\ StoresOK' /\ LimitsOK' /\ ControlInv'
<1> SUFFICES Good
  BY <1>b DEF TypeOK, LocalsOK, StoresOK, LimitsOK, Stages, Statuses
<1>1. ASSUME NEW c \in Clients, HandlerStep(c) PROVE Good
  BY <1>0, <1>1, TypeHandler
<1>2. ASSUME NEW c \in Clients, Serve(c) PROVE Good
  BY <1>0, <1>2, TypeRequest
<1>3. ASSUME NEW c \in Clients, Lapse(c) PROVE Good
  <2>1. LocalsOK' /\ StoresOK'
    BY <1>0, <1>3 DEF Lapse, LocalsOK, StoresOK, locals, stores, contents
  <2>2. LimitsOK'
    BY <1>0, <1>3, BoundsAssumption DEF Lapse, LimitsOK
  <2>3. ControlInv'
    BY <1>3 DEF Lapse, ControlInv, locals, At, Object
  <2> QED
    BY <2>1, <2>2, <2>3
<1>4. ASSUME NEW o \in Oids, Land(o) PROVE Good
  <2>1. LocalsOK' /\ LimitsOK'
    BY <1>0, <1>4 DEF Land, LocalsOK, LimitsOK, locals, limits
  <2>2. StoresOK'
    BY <1>0, <1>4 DEF Land, Keep, StoresOK
  <2>3. ControlInv'
    BY <1>4 DEF Land, ControlInv, locals, At, Object
  <2> QED
    BY <2>1, <2>2, <2>3
<1>7. ASSUME NEW c \in Clients, Postpone(c) PROVE Good
  <2>1. LocalsOK' /\ LimitsOK'
    BY <1>0, <1>7 DEF Postpone, LocalsOK, LimitsOK, locals, limits
  <2>2. Object(c).oid \in Oids
    BY <1>0, <1>7 DEF Postpone, At, ControlInv
  <2>3. StoresOK'
    BY <1>0, <1>7, <2>2 DEF Postpone, StoresOK
  <2>4. ControlInv'
    BY <1>7 DEF Postpone, ControlInv, locals, At, Object
  <2> QED
    BY <2>1, <2>3, <2>4
<1>5. CASE Crash
  <2>1. NoRequest \in [method : Methods \cup {"none"}, signed : BOOLEAN, good : BOOLEAN]
    BY DEF NoRequest
  <2>2. << >> \in Seq(Objects) /\ << >> \in Seq(Representations)
    OBVIOUS
  <2>3. "none" \in Handlers /\ "idle" \in Stages
    BY DEF Handlers, Stages
  <2>4. LocalsOK'
    BY <1>0, <1>5, <2>1, <2>2, <2>3 DEF Crash, LocalsOK
  <2>5. ControlInv'
    BY <1>5 DEF Crash, ControlInv
  <2>6. LimitsOK' /\ StoresOK'
    BY <1>0, <1>5, BoundsAssumption DEF Crash, LimitsOK, StoresOK, stores, contents
  <2> QED
    BY <2>4, <2>5, <2>6
<1>6. CASE UNCHANGED vars
  <2>1. LocalsOK' /\ StoresOK' /\ LimitsOK'
    BY <1>0, <1>6
       DEF vars, LocalsOK, StoresOK, LimitsOK, locals, stores, contents, limits
  <2>2. ControlInv'
    BY <1>6 DEF vars, ControlInv, locals, At, Object
  <2> QED
    BY <2>1, <2>2
<1> QED
  BY <1>1, <1>2, <1>3, <1>4, <1>5, <1>6, <1>7 DEF Moved, Moves

\* Stores, handlers and answers are well typed, and every handler is at a
\* store call of its own with an object it can serve.
THEOREM TypeCorrect == Spec => [](TypeOK /\ ControlInv)
<1> QED
  BY TypeInit, TypeNext, NextMoves, PTL DEF Spec

-----------------------------------------------------------------------------
(* What a step leaves alone                                                *)

\* What client d has in progress and was told.
Has(d) == <<handler[d], stage[d], req[d], todo[d], snap[d], done[d], reply[d]>>

\* A handler that serves one client leaves the others alone.
LEMMA Others ==
  ASSUME LocalsOK, NEW c \in Clients, NEW d \in Clients, d # c,
         HandlerStep(c) \/ Serve(c)
  PROVE  Has(d)' = Has(d)
<1> DEFINE Same == Has(d)' = Has(d)
<1>1. \A status, objs : Answer(c, status, objs) => Same
  BY DEF Answer, Finish, Has, LocalsOK
<1>p. Panic(c) => Same
  BY DEF Panic, Finish, Has, LocalsOK
<1>2. ASSUME NEW s, Goto(c, s), UNCHANGED snap \/ \E n : snap' = [snap EXCEPT ![c] = n]
      PROVE  Same
  BY <1>2 DEF Goto, Has, LocalsOK
<1>3. \A objs : NextObject(c, objs) => Same
  BY DEF NextObject, Has, LocalsOK
<1>4. Denied(c) => Same
  BY <1>1 DEF Denied
<1>5. \A status : PutRefused(c, status) => Same
  BY <1>1, <1>3 DEF PutRefused
<1>r. PutReturns(c) => Same
  BY <1>1, <1>3 DEF PutReturns
<1>6. NotRouted(c) => Same
  BY DEF NotRouted, locals, Has, LocalsOK
<1>7. ASSUME NEW x, Arrive(c, x) PROVE Same
  <2>1. /\ handler'[d] = handler[d] /\ stage'[d] = stage[d] /\ req'[d] = req[d]
        /\ todo'[d] = todo[d] /\ reply'[d] = reply[d]
    BY <1>7 DEF Arrive, LocalsOK
  <2>2. snap' = snap /\ done' = done
    BY <1>7 DEF Arrive
  <2> QED
    BY <2>1, <2>2 DEF Has
<1> HIDE DEF Same
<1>8. Serve(c) => Same
  BY <1>6, <1>7 DEF Serve
<1>9. GetContentHandler(c) \/ SendContent(c) \/ GetSearchHandler(c) \/ GetMetaHandler(c) => Same
  BY <1>1, <1>2, <1>4 DEF GetContentHandler, SendContent, GetSearchHandler, GetMetaHandler
<1>10. PutHandler(c) \/ StoreContent(c) \/ StoreFails(c) \/ PutDone(c) \/ PutLost(c) => Same
  BY <1>1, <1>2, <1>4 DEF PutHandler, StoreContent, StoreFails, PutDone, PutLost
<1>11. BatchGet(c) \/ BatchDone(c) => Same
  BY <1>1, <1>2, <1>3 DEF BatchGet, BatchDone
<1>12. PutBegin(c) \/ PutLookup(c) => Same
  BY <1>2, <1>3, <1>5 DEF PutBegin, PutLookup
<1>13. PutWrite(c) \/ PutFails(c) \/ PutUnrecorded(c) => Same
  BY <1>p, <1>r, <1>5 DEF PutWrite, PutFails, PutUnrecorded
<1>14. PostAnswer(c) => Same
  BY <1>1 DEF PostAnswer
<1> QED
  BY <1>8, <1>9, <1>10, <1>11, <1>12, <1>13, <1>14 DEF HandlerStep, Same

\* A size is a number, and so is not None.
LEMMA SizeIsNumber == \A n \in Sizes \cup {0} : n \in Nat /\ n # None
<1>1. \A n \in Sizes : n \in Nat
  BY SizesAssumption
<1>2. None \notin Nat
  BY NoneAssumption
<1> QED
  BY <1>1, <1>2

\* Only the end of Put writes metadata.
LEMMA MetaWrites ==
  ASSUME TypeOK, ControlInv, [Moved]_vars
  PROVE  \/ UNCHANGED meta
         \/ \E c \in Clients :
              /\ HandlerStep(c) /\ stage[c] = "write"
              /\ Object(c).oid \in Oids /\ Object(c).size \in Sizes \cup {0}
              /\ meta' = [meta EXCEPT ![Object(c).oid] = Object(c).size]
<1>0. LocalsOK /\ StoresOK
  BY TypeParts
<1>1. ASSUME NEW c \in Clients, HandlerStep(c), ~UNCHANGED meta
      PROVE  /\ stage[c] = "write"
             /\ Object(c).oid \in Oids /\ Object(c).size \in Sizes \cup {0}
             /\ meta' = [meta EXCEPT ![Object(c).oid] = Object(c).size]
  <2>1. stage[c] = "write" /\ Record(c)
    BY <1>1, HandlerWrites
  <2>2. todo[c] # << >>
    BY <2>1 DEF ControlInv, At
  <2>3. Object(c).oid \in Oids \cup {""} /\ Object(c).size \in Sizes \cup {0}
    BY <1>0, <2>2, ObjectTypes
  <2> QED
    BY <2>1, <2>3 DEF Record
<1>2. ASSUME NEW c \in Clients, Serve(c) \/ Lapse(c) \/ Postpone(c) PROVE UNCHANGED meta
  BY <1>2 DEF Serve, NotRouted, Arrive, Lapse, Postpone, stores
<1>3. (\E o \in Oids : Land(o)) \/ Crash \/ UNCHANGED vars => UNCHANGED meta
  BY DEF Land, Crash, vars, stores
<1> QED
  BY <1>1, <1>2, <1>3 DEF Moved, Moves

\* The count of failed calls only grows.
LEMMA FaultsGrow ==
  ASSUME TypeOK, [Moved]_vars
  PROVE  aborts' \in {aborts, aborts + 1} /\ (aborts' = 0 => aborts = 0)
<1>1. aborts \in Nat
  BY TypeParts, BoundsAssumption DEF LimitsOK
<1>2. ASSUME NEW c \in Clients, HandlerStep(c) PROVE aborts' \in {aborts, aborts + 1}
  BY <1>2, HandlerCalls DEF limits, Fault
<1>3. ASSUME NEW c \in Clients, Serve(c) \/ Lapse(c) \/ Postpone(c)
      PROVE  aborts' \in {aborts, aborts + 1}
  BY <1>3 DEF Serve, NotRouted, Arrive, Lapse, Postpone, limits
<1>4. (\E o \in Oids : Land(o)) \/ Crash \/ UNCHANGED vars => aborts' \in {aborts, aborts + 1}
  BY DEF Land, Crash, vars, limits
<1>5. aborts' \in {aborts, aborts + 1}
  BY <1>2, <1>3, <1>4 DEF Moved, Moves
<1> QED
  BY <1>1, <1>5

\* Nothing that is on record or stored is taken away again.
LEMMA Grows ==
  ASSUME TypeOK, ControlInv, [Moved]_vars, NEW o \in Oids
  PROVE  /\ meta[o] # None => meta'[o] # None
         /\ stored[o] => stored'[o]
<1>0. o \in DOMAIN meta /\ o \in DOMAIN stored
  BY TypeParts DEF StoresOK
<1>1. meta[o] # None => meta'[o] # None
  <2>1. CASE UNCHANGED meta
    BY <2>1
  <2>2. ASSUME NEW x \in Oids, NEW n \in Sizes \cup {0}, meta' = [meta EXCEPT ![x] = n]
        PROVE  meta[o] # None => meta'[o] # None
    <3>1. n # None
      BY SizeIsNumber
    <3>2. meta'[o] = IF o = x THEN n ELSE meta[o]
      BY <1>0, <2>2
    <3> QED
      BY <3>1, <3>2
  <2> QED
    BY MetaWrites, <2>1, <2>2
<1>2. ASSUME stored[o] PROVE stored'[o]
  <2>1. ASSUME NEW x, Keep(x) PROVE stored'[o]
    <3>1. stored'[o] = IF o = x THEN TRUE ELSE stored[o]
      BY <1>0, <2>1 DEF Keep
    <3> QED
      BY <1>2, <3>1
  <2>2. ASSUME NEW c \in Clients, HandlerStep(c) PROVE stored'[o]
    <3>1. CASE StoreContent(c)
      BY <1>2, <2>1, <3>1 DEF StoreContent
    <3> QED
      BY <1>2, <2>2, <3>1, HandlerWrites DEF contents
  <2>3. ASSUME NEW c \in Clients, Serve(c) \/ Postpone(c) \/ Lapse(c) PROVE stored'[o]
    BY <1>2, <2>3 DEF Serve, NotRouted, Arrive, Postpone, Lapse, stores, contents
  <2>4. CASE (\E x \in Oids : Land(x)) \/ Crash \/ UNCHANGED vars
    BY <1>2, <2>1, <2>4 DEF Land, Crash, vars, stores, contents
  <2> QED
    BY <2>2, <2>3, <2>4 DEF Moved, Moves
<1> QED
  BY <1>1, <1>2

-----------------------------------------------------------------------------
(* ContentAnnounced and SuccessStored                                      *)

\* The client has been told that content is stored, or sent it.
Assured(c) == Claimed(c) \/ (reply[c].status = 200 /\ reply[c].to = "content")

\* A request past its lookup has an object on record, an upload past the
\* store has it stored, and what the client was assured of is stored.
Backed(c) ==
    /\ stage[c] \in {"content", "sent"} => meta[Object(c).oid] # None
    /\ stage[c] = "sent" => stored[Object(c).oid]
    /\ Assured(c) => reply[c].oid \in Oids /\ stored[reply[c].oid]

BackedInv ==
    /\ \A o \in Oids : stored[o] \/ o \in late => meta[o] # None
    /\ \A c \in Clients : Backed(c)

\* What a client is left with by an answer, and by going on.
LEMMA Effects ==
  ASSUME LocalsOK, NEW c \in Clients
  PROVE  /\ Panic(c) => /\ stage'[c] = "idle" /\ done'[c] = << >> /\ handler'[c] = "none"
                        /\ reply'[c] = reply[c]
         /\ \A status, objs : Answer(c, status, objs) =>
              /\ stage'[c] = "idle" /\ done'[c] = << >>
              /\ reply'[c].to = handler[c] /\ reply'[c].status = status
              /\ reply'[c].objects = objs
              /\ todo[c] # << >> => reply'[c].oid = Object(c).oid
         /\ \A s : Goto(c, s) =>
              /\ stage'[c] = s /\ handler'[c] = handler[c] /\ todo'[c] = todo[c]
              /\ reply'[c] = reply[c] /\ done'[c] = done[c]
         /\ \A objs : NextObject(c, objs) =>
              /\ stage'[c] = "get" /\ reply'[c] = reply[c] /\ snap'[c] = snap[c]
              /\ done'[c] = done[c] \o objs
<1>1. \A status, objs : Answer(c, status, objs) =>
        /\ stage'[c] = "idle" /\ done'[c] = << >>
        /\ reply'[c].to = handler[c] /\ reply'[c].status = status
        /\ reply'[c].objects = objs
        /\ todo[c] # << >> => reply'[c].oid = Object(c).oid
  <2> SUFFICES ASSUME NEW status, NEW objs, Answer(c, status, objs)
               PROVE  /\ stage'[c] = "idle" /\ done'[c] = << >>
                      /\ reply'[c].to = handler[c] /\ reply'[c].status = status
                      /\ reply'[c].objects = objs
                      /\ todo[c] # << >> => reply'[c].oid = Object(c).oid
    OBVIOUS
  <2>1. c \in DOMAIN stage /\ c \in DOMAIN done /\ c \in DOMAIN reply
    BY DEF LocalsOK
  <2>2. stage'[c] = "idle" /\ done'[c] = << >>
    BY <2>1 DEF Answer, Finish
  <2> DEFINE h == handler[c]
             o == IF todo[c] = << >> THEN "" ELSE Object(c).oid
  <2>3. reply'[c] = [to |-> h, status |-> status, objects |-> objs, oid |-> o]
    BY <2>1 DEF Answer
  <2> HIDE DEF h, o
  <2>4. reply'[c].to = h
    BY <2>3
  <2>5. reply'[c].status = status
    BY <2>3
  <2>6. reply'[c].objects = objs
    BY <2>3
  <2>7. reply'[c].oid = o
    BY <2>3
  <2> QED
    BY <2>2, <2>4, <2>5, <2>6, <2>7 DEF h, o
<1>2. \A s : Goto(c, s) =>
        /\ stage'[c] = s /\ handler'[c] = handler[c] /\ todo'[c] = todo[c]
        /\ reply'[c] = reply[c] /\ done'[c] = done[c]
  BY DEF Goto, LocalsOK
<1>3. \A objs : NextObject(c, objs) =>
        /\ stage'[c] = "get" /\ reply'[c] = reply[c] /\ snap'[c] = snap[c]
        /\ done'[c] = done[c] \o objs
  BY DEF NextObject, LocalsOK
<1>4. Panic(c) => /\ stage'[c] = "idle" /\ done'[c] = << >> /\ handler'[c] = "none"
                  /\ reply'[c] = reply[c]
  BY DEF Panic, Finish, LocalsOK
<1> QED
  BY <1>1, <1>2, <1>3, <1>4

\* A handler that says nothing assures of nothing new.
LEMMA AssuredBefore ==
  ASSUME TypeOK, [Moved]_vars, NEW d \in Clients, reply'[d] = reply[d], Assured(d)'
  PROVE  Assured(d)
BY FaultsGrow DEF Assured, Claimed

\* What is on record and stored for a client stays so while others are served.
LEMMA BackedOthers ==
  ASSUME TypeOK, ControlInv, [Moved]_vars, NEW d \in Clients, Backed(d), Has(d)' = Has(d)
  PROVE  Backed(d)'
<1>1. stage'[d] = stage[d] /\ reply'[d] = reply[d] /\ Object(d)' = Object(d)
  BY DEF Has, Object
<1>2. stage[d] \in {"content", "sent"} => Object(d).oid \in Oids
  BY DEF ControlInv
<1>3. stage[d] \in {"content", "sent"} => meta'[Object(d).oid] # None
  BY <1>2, Grows DEF Backed
<1>4. stage[d] = "sent" => stored'[Object(d).oid]
  BY <1>2, Grows DEF Backed
<1>5. Assured(d)' => reply[d].oid \in Oids /\ stored'[reply[d].oid]
  BY <1>1, Grows, AssuredBefore DEF Backed
<1> QED
  BY <1>1, <1>3, <1>4, <1>5 DEF Backed

\* A handler gets past a lookup with what is on record, past the store with
\* what is stored, and says 200 of nothing else.
LEMMA BackedHandler ==
  ASSUME TypeOK, ControlInv, [Moved]_vars, NEW c \in Clients, Backed(c), HandlerStep(c)
  PROVE  Backed(c)'
<1> DEFINE o == Object(c).oid
<1>0. LocalsOK /\ StoresOK
  BY TypeParts
<1>t. /\ stage[c] # "idle" /\ ~At(c, "batch", "get") => todo[c] # << >>
      /\ stage[c] \in {"exists", "content", "sent"} => o \in Oids
  BY DEF ControlInv
<1>q. ASSUME reply'[c] = reply[c], Assured(c)'
      PROVE  reply'[c].oid \in Oids /\ stored'[reply'[c].oid]
  BY <1>q, Grows, AssuredBefore DEF Backed
<1>e. ASSUME NEW status, NEW objs, Answer(c, status, objs),
             \/ status # 200 \/ handler[c] \notin {"put", "post", "content"}
             \/ todo[c] # << >> /\ o \in Oids /\ stored'[o]
             \/ handler[c] = "post" /\ ~Lossy /\ aborts' # 0
      PROVE  Backed(c)'
  <2>1. /\ stage'[c] = "idle" /\ reply'[c].to = handler[c] /\ reply'[c].status = status
        /\ todo[c] # << >> => reply'[c].oid = o
    BY <1>0, <1>e, Effects
  <2>2. Assured(c)' => todo[c] # << >> /\ o \in Oids /\ stored'[o]
    BY <1>e, <2>1 DEF Assured, Claimed
  <2> QED
    BY <2>1, <2>2 DEF Backed
<1>g. ASSUME NEW s, Goto(c, s), s \in {"content", "sent"} => meta'[o] # None,
             s = "sent" => stored'[o], o \in Oids
      PROVE  Backed(c)'
  <2>1. stage'[c] = s /\ Object(c)' = Object(c) /\ reply'[c] = reply[c]
    BY <1>0, <1>g, Effects DEF Object
  <2> QED
    BY <1>g, <1>q, <2>1 DEF Backed
<1>w. ASSUME reply'[c] = reply[c], stage'[c] \notin {"content", "sent"} PROVE Backed(c)'
  BY <1>w, <1>q DEF Backed
<1>n. ASSUME NEW objs, NextObject(c, objs) PROVE Backed(c)'
  <2>1. stage'[c] = "get" /\ reply'[c] = reply[c]
    BY <1>0, <1>n, Effects
  <2> QED
    BY <1>w, <2>1
<1>d. ASSUME Denied(c) PROVE Backed(c)'
  <2>1. \E status \in {401, 404} : Answer(c, status, << >>)
    BY <1>d DEF Denied
  <2> QED
    BY <1>e, <2>1
<1>l. ASSUME Found(c), Goto(c, "content") PROVE Backed(c)'
  <2>1. o \in Oids /\ meta'[o] # None
    BY <1>0, <1>l, ObjectTypes, Grows DEF Found
  <2> QED
    BY <1>g, <1>l, <2>1
<1>1. CASE GetContentHandler(c) \/ PutHandler(c)
  BY <1>1, <1>d, <1>l DEF GetContentHandler, PutHandler
<1>2. CASE SendContent(c)
  <2>1. todo[c] # << >> /\ o \in Oids /\ UNCHANGED stored
    BY <1>2, <1>t DEF SendContent, At, stores, contents
  <2>2. PICK status : /\ Answer(c, status, << >>)
                      /\ status = 200 => stored[o]
    BY <1>2 DEF SendContent
  <2> QED
    BY <1>e, <2>1, <2>2
<1>3. CASE GetSearchHandler(c) \/ GetMetaHandler(c)
  <2>1. handler[c] \notin {"put", "post", "content"}
    BY <1>3 DEF GetSearchHandler, GetMetaHandler, At
  <2>2. Denied(c) \/ \E objs : Answer(c, 200, objs)
    BY <1>3 DEF GetSearchHandler, GetMetaHandler
  <2> QED
    BY <1>d, <1>e, <2>1, <2>2
<1>4. CASE StoreContent(c)
  <2>1. o \in Oids /\ meta'[o] # None
    BY <1>4, <1>t, Grows DEF StoreContent, At, Backed
  <2>2. CASE Keep(o) /\ Goto(c, "sent")
    <3>1. stored'[o]
      <4>1. o \in DOMAIN stored
        BY <1>0, <2>1 DEF StoresOK
      <4> QED
        BY <2>2, <4>1 DEF Keep
    <3> QED
      BY <1>g, <2>1, <2>2, <3>1
  <2>3. CASE Answer(c, 500, << >>)
    BY <1>e, <2>3
  <2> QED
    BY <1>4, <2>2, <2>3 DEF StoreContent
<1>5. CASE StoreFails(c)
  BY <1>5, <1>e DEF StoreFails
<1>11. CASE PutLost(c)
  BY <1>11, <1>e DEF PutLost
<1>6. CASE PutDone(c)
  <2>1. todo[c] # << >> /\ o \in Oids /\ stored'[o]
    BY <1>6, <1>t, Grows DEF PutDone, At, Backed
  <2> QED
    BY <1>6, <1>e, <2>1 DEF PutDone
<1>v. ASSUME NEW s \in {"put", "look", "write", "exists"}, Goto(c, s) PROVE Backed(c)'
  <2>1. stage'[c] = s /\ reply'[c] = reply[c]
    BY <1>0, <1>v, Effects
  <2> QED
    BY <1>w, <2>1
<1>7. CASE BatchGet(c) \/ BatchDone(c)
  <2>1. handler[c] = "batch"
    BY <1>7 DEF BatchGet, BatchDone, At
  <2>2. \/ \E objs : NextObject(c, objs)
        \/ \E status, objs : Answer(c, status, objs)
        \/ Goto(c, "put")
    BY <1>7 DEF BatchGet, BatchDone
  <2> QED
    BY <1>e, <1>n, <1>v, <2>1, <2>2
<1>r. ASSUME NEW status \in {401, 404}, PutRefused(c, status) PROVE Backed(c)'
  BY <1>r, <1>e, <1>n DEF PutRefused
<1>u. ASSUME PutReturns(c) PROVE Backed(c)'
  <2>1. (\E objs : NextObject(c, objs)) \/ \E objs : Answer(c, 202, objs)
    BY <1>u DEF PutReturns
  <2> QED
    BY <1>n, <1>e, <2>1
<1>8. CASE PutBegin(c) \/ PutLookup(c)
  <2>1. \/ PutRefused(c, 401)
        \/ \E s \in {"look", "write", "exists"} : Goto(c, s)
        \/ \E objs : NextObject(c, objs)
    BY <1>8 DEF PutBegin, PutLookup
  <2> QED
    BY <1>r, <1>v, <1>n, <2>1
<1>9. CASE PutWrite(c) \/ PutFails(c) \/ PutUnrecorded(c)
  <2>1. PutRefused(c, 404) \/ PutReturns(c) \/ Panic(c)
    BY <1>9 DEF PutWrite, PutFails, PutUnrecorded
  <2>2. Panic(c) => Backed(c)'
    <3>1. Panic(c) => stage'[c] = "idle" /\ reply'[c] = reply[c]
      BY <1>0, Effects
    <3> QED
      BY <1>w, <3>1
  <2> QED
    BY <1>r, <1>u, <2>1, <2>2
<1>10. CASE PostAnswer(c)
  <2>1. todo[c] # << >> /\ o \in Oids /\ UNCHANGED stored /\ handler[c] = "post"
    BY <1>10, <1>t DEF PostAnswer, At, stores, contents
  <2>2. PICK said, objs :
          Exists(c, said) /\ Answer(c, IF said THEN 200 ELSE 202, objs)
    BY <1>10 DEF PostAnswer
  <2>3. said => stored[o] \/ (~Lossy /\ aborts' # 0)
    <3>1. Fault => aborts' # 0
      BY TypeParts, BoundsAssumption DEF Fault, LimitsOK
    <3> QED
      BY <2>2, <3>1 DEF Exists
  <2> QED
    BY <1>e, <2>1, <2>2, <2>3
<1> QED
  BY <1>1, <1>2, <1>3, <1>4, <1>5, <1>6, <1>7, <1>8, <1>9, <1>10, <1>11 DEF HandlerStep

\* Every step keeps content announced, and successes true.
LEMMA BackedNext ==
  TypeOK /\ ControlInv /\ BackedInv /\ [Moved]_vars => BackedInv'
<1> SUFFICES ASSUME TypeOK, ControlInv, BackedInv, [Moved]_vars PROVE BackedInv'
  OBVIOUS
<1>0. LocalsOK /\ StoresOK
  BY TypeParts
<1> DEFINE Content == \A o \in Oids : stored'[o] \/ o \in late' => meta'[o] # None
           Clear   == \A c \in Clients : Backed(c)'
<1>n. NoReply.status # 200 /\ NotFound.status # 200
  BY DEF NoReply, NotFound
<1>c. \A c \in Clients : c \in DOMAIN reply /\ c \in DOMAIN stage
  BY <1>0 DEF LocalsOK
<1>1. ASSUME \A o \in Oids : \/ stored'[o] \/ o \in late' => stored[o] \/ o \in late
                             \/ meta[o] # None
      PROVE  Content
  BY <1>1, Grows DEF BackedInv
<1>2. ASSUME UNCHANGED contents PROVE Content
  BY <1>1, <1>2 DEF contents
<1>3. ASSUME \A c \in Clients : Has(c)' = Has(c) PROVE Clear
  BY <1>3, BackedOthers DEF BackedInv
<1>4. ASSUME NEW c \in Clients, HandlerStep(c) \/ Serve(c), Backed(c)' PROVE Clear
  BY <1>0, <1>4, Others, BackedOthers DEF BackedInv
<1>5. ASSUME NEW c \in Clients, HandlerStep(c) PROVE Content /\ Clear
  <2>1. Clear
    BY <1>4, <1>5, BackedHandler DEF BackedInv
  <2> DEFINE o == Object(c).oid
  <2>2. ASSUME At(c, "put", "content") PROVE o \in Oids /\ meta[o] # None
    BY <2>2 DEF At, ControlInv, BackedInv, Backed
  <2>3. CASE StoreContent(c)
    <3>1. \A x \in Oids \ {o} : stored'[x] = stored[x]
      BY <1>0, <2>3 DEF StoreContent, Keep, StoresOK
    <3> QED
      BY <1>1, <2>1, <2>2, <2>3, <3>1 DEF StoreContent
  <2>4. CASE ~StoreContent(c)
    <3>1. UNCHANGED contents
      BY <1>5, <2>4, HandlerWrites
    <3> QED
      BY <1>2, <2>1, <3>1
  <2> QED
    BY <2>3, <2>4
<1>6. ASSUME NEW c \in Clients, Serve(c) PROVE Content /\ Clear
  <2>1. UNCHANGED contents
    BY <1>6 DEF Serve, NotRouted, Arrive, stores
  <2>2. CASE NotRouted(c)
    <3>1. reply'[c].status # 200 /\ stage'[c] = stage[c] /\ stage[c] = "idle"
      BY <1>c, <1>n, <2>2 DEF NotRouted, locals
    <3> QED
      BY <1>2, <1>4, <1>6, <2>1, <3>1 DEF Backed, Assured, Claimed
  <2>3. CASE ~NotRouted(c)
    <3>1. PICK x : Arrive(c, x)
      BY <1>6, <2>3 DEF Serve
    <3>2. reply'[c].status # 200 /\ stage'[c] \in {"put", "get"}
      BY <1>c, <1>n, <3>1 DEF Arrive
    <3> QED
      BY <1>2, <1>4, <1>6, <2>1, <3>2 DEF Backed, Assured, Claimed
  <2> QED
    BY <2>2, <2>3
<1>7. ASSUME NEW c \in Clients, Lapse(c) PROVE Content /\ Clear
  BY <1>2, <1>3, <1>7 DEF Lapse, stores, locals, Has
<1>8. ASSUME NEW o \in Oids, Land(o) PROVE Content /\ Clear
  <2>1. \A x \in Oids : stored'[x] \/ x \in late' => stored[x] \/ x \in late
    BY <1>0, <1>8 DEF Land, Keep, StoresOK
  <2> QED
    BY <1>1, <1>3, <1>8, <2>1 DEF Land, locals, Has
<1>11. ASSUME NEW c \in Clients, Postpone(c) PROVE Content /\ Clear
  <2>1. Object(c).oid \in Oids /\ meta[Object(c).oid] # None
    BY <1>11 DEF Postpone, At, ControlInv, BackedInv, Backed
  <2>2. UNCHANGED stored /\ \A x \in late' : x \in late \/ x = Object(c).oid
    BY <1>11 DEF Postpone
  <2> QED
    BY <1>1, <1>3, <1>11, <2>1, <2>2 DEF Postpone, locals, Has
<1>9. CASE Crash
  <2>1. \A c \in Clients : stage'[c] = "idle" /\ reply'[c] = reply[c]
    BY <1>9 DEF Crash
  <2>2. Clear
    <3> SUFFICES ASSUME NEW c \in Clients, Assured(c)'
                 PROVE  reply[c].oid \in Oids /\ stored'[reply[c].oid]
      BY <2>1 DEF Backed
    <3>1. Assured(c)
      BY <2>1, AssuredBefore
    <3> QED
      BY <3>1, Grows DEF BackedInv, Backed
  <2>3. Content
    BY <1>2, <1>9 DEF Crash, stores
  <2> QED
    BY <2>2, <2>3 DEF BackedInv
<1>10. CASE UNCHANGED vars
  <2>1. Content /\ Clear
    BY <1>2, <1>3, <1>10 DEF vars, stores, locals, Has
  <2> QED
    BY <2>1 DEF BackedInv
<1> QED
  BY <1>5, <1>6, <1>7, <1>8, <1>9, <1>10, <1>11 DEF Moved, Moves, BackedInv

\* Nothing is stored at first, and nobody has been told anything.
LEMMA BackedInit == Init => BackedInv
<1>1. NoReply.status # 200
  BY DEF NoReply
<1> QED
  BY <1>1 DEF Init, BackedInv, Backed, Assured, Claimed

LEMMA BackedMeans == BackedInv => ContentAnnounced /\ SuccessStored
  BY DEF BackedInv, Backed, Assured, ContentAnnounced, SuccessStored

\* Content in the store has metadata on record: no upload gets past
\* PutHandler without, and neither does one whose write comes late.
THEOREM Announced_First == Spec => []ContentAnnounced
<1> QED
  BY BackedMeans, TypeInit, TypeNext, BackedInit, BackedNext, NextMoves, PTL DEF Spec

\* In every behaviour, calm or not, no request, failing store call, late write
\* or restart takes an object off the record, or content out of the store.
THEOREM NothingLost ==
  Spec => [][\A o \in Oids : /\ meta[o] # None => meta'[o] # None
                            /\ stored[o] => stored'[o]]_vars
<1>1. TypeOK /\ ControlInv /\ [Moved]_vars =>
        [\A o \in Oids : /\ meta[o] # None => meta'[o] # None
                        /\ stored[o] => stored'[o]]_vars
  BY Grows
<1> QED
  BY <1>1, TypeInit, TypeNext, NextMoves, PTL DEF Spec

\* What was answered with 200, to a PUT, a POST or a download, is stored: to
\* a POST over a local store, as long as no call of a store has failed.
THEOREM Success == Spec => []SuccessStored
<1> QED
  BY BackedMeans, TypeInit, TypeNext, BackedInit, BackedNext, NextMoves, PTL DEF Spec

-----------------------------------------------------------------------------
(* NoneDropped                                                             *)

\* The next object goes over from the ones to look at to the answers.
LEMMA LineKept ==
  ASSUME LocalsOK, NEW c \in Clients, todo[c] # << >>, NEW r, r.oid = Object(c).oid,
         NextObject(c, <<r>>)
  PROVE  Line(c)' = Line(c)
<1> DEFINE n == Len(done[c])
           m == Len(todo[c])
<1>1. done[c] \in Seq(Representations) /\ todo[c] \in Seq(Objects)
  BY DEF LocalsOK
<1>2. done'[c] = Append(done[c], r) /\ todo'[c] = Tail(todo[c])
  <2>1. done'[c] = done[c] \o <<r>> /\ todo'[c] = Tail(todo[c])
    BY DEF NextObject, LocalsOK
  <2> QED
    BY <1>1, <2>1
<1>3. n \in Nat /\ m \in Nat \ {0}
  BY <1>1
<1>4. Len(done'[c]) = n + 1 /\ Len(todo'[c]) = m - 1
  BY <1>1, <1>2
<1>5. /\ \A k \in 1 .. n : done'[c][k] = done[c][k]
      /\ done'[c][n + 1] = r
      /\ \A k \in 1 .. m - 1 : todo'[c][k] = todo[c][k + 1]
      /\ r.oid = todo[c][1].oid
  <2>1. \A k \in 1 .. n : done'[c][k] = done[c][k]
    BY <1>1, <1>2
  <2>2. done'[c][n + 1] = r
    BY <1>1, <1>2
  <2>3. \A k \in 1 .. m - 1 : todo'[c][k] = todo[c][k + 1]
    BY <1>1, <1>2
  <2>4. r.oid = todo[c][1].oid
    BY <1>1 DEF Object
  <2> QED
    BY <2>1, <2>2, <2>3, <2>4
<1>6. Line(c)' = [k \in 1 .. (n + 1) + (m - 1) |->
                   IF k <= n + 1 THEN done'[c][k].oid ELSE todo'[c][k - (n + 1)].oid]
  BY <1>4 DEF Line
<1> HIDE DEF n, m
<1>7. ASSUME NEW k \in 1 .. n + m
      PROVE  (IF k <= n + 1 THEN done'[c][k].oid ELSE todo'[c][k - (n + 1)].oid)
             = (IF k <= n THEN done[c][k].oid ELSE todo[c][k - n].oid)
  <2>1. CASE k <= n
    <3>1. k \in 1 .. n /\ k <= n + 1
      BY <1>3, <1>7, <2>1
    <3> QED
      BY <1>5, <2>1, <3>1
  <2>2. CASE k = n + 1
    <3>1. ~(k <= n) /\ k <= n + 1 /\ k - n = 1
      BY <1>3, <2>2
    <3> QED
      BY <1>5, <2>2, <3>1
  <2>3. CASE k > n + 1
    <3>1. k - (n + 1) \in 1 .. m - 1 /\ (k - (n + 1)) + 1 = k - n
          /\ ~(k <= n + 1) /\ ~(k <= n)
      BY <1>3, <1>7, <2>3
    <3>2. todo'[c][k - (n + 1)] = todo[c][k - n]
      BY <1>5, <3>1
    <3> QED
      BY <3>1, <3>2
  <2> QED
    BY <1>3, <1>7, <2>1, <2>2, <2>3
<1>8. (n + 1) + (m - 1) = n + m
  BY <1>3
<1> QED
  BY <1>6, <1>7, <1>8 DEF Line, n, m

\* The next object is left out of the answers.
LEMMA LineDropped ==
  ASSUME LocalsOK, NEW c \in Clients, todo[c] # << >>, NextObject(c, << >>)
  PROVE  Line(c)' = Rest(c)
<1> DEFINE n == Len(done[c])
           m == Len(todo[c])
<1>1. done[c] \in Seq(Representations) /\ todo[c] \in Seq(Objects)
  BY DEF LocalsOK
<1>2. done'[c] = done[c] /\ todo'[c] = Tail(todo[c])
  <2>1. done'[c] = done[c] \o << >> /\ todo'[c] = Tail(todo[c])
    BY DEF NextObject, LocalsOK
  <2> QED
    BY <1>1, <2>1
<1>3. n \in Nat /\ m \in Nat \ {0}
  BY <1>1
<1>4. Len(done'[c]) = n /\ Len(todo'[c]) = m - 1
  BY <1>1, <1>2
<1>5. \A k \in 1 .. m - 1 : todo'[c][k] = todo[c][k + 1]
  BY <1>1, <1>2
<1>6. Line(c)' = [k \in 1 .. n + (m - 1) |->
                   IF k <= n THEN done'[c][k].oid ELSE todo'[c][k - n].oid]
  BY <1>4 DEF Line
<1> HIDE DEF n, m
<1>7. ASSUME NEW k \in 1 .. (n + m) - 1
      PROVE  (IF k <= n THEN done'[c][k].oid ELSE todo'[c][k - n].oid)
             = (IF k <= n THEN done[c][k].oid ELSE todo[c][k - n + 1].oid)
  <2>1. CASE k <= n
    BY <1>2, <2>1
  <2>2. CASE ~(k <= n)
    <3>1. k - n \in 1 .. m - 1
      BY <1>3, <1>7, <2>2
    <3>2. todo'[c][k - n] = todo[c][k - n + 1]
      BY <1>5, <3>1
    <3> QED
      BY <2>2, <3>2
  <2> QED
    BY <2>1, <2>2
<1>8. n + (m - 1) = (n + m) - 1
  BY <1>3
<1> QED
  BY <1>6, <1>7, <1>8 DEF Rest, n, m

\* What a batch that is left alone, or turns to the same object once more, has.
LEMMA LineSame ==
  ASSUME NEW c, done'[c] = done[c], todo'[c] = todo[c]
  PROVE  Line(c)' = Line(c)
  BY DEF Line

\* A batch that has looked at everything answers the objects it was asked for.
LEMMA LineAnswered ==
  ASSUME LocalsOK, NEW c \in Clients, todo[c] = << >>
  PROVE  Line(c) = [k \in DOMAIN done[c] |-> done[c][k].oid]
<1>1. done[c] \in Seq(Representations)
  BY DEF LocalsOK
<1>2. Len(todo[c]) = 0 /\ Len(done[c]) \in Nat /\ DOMAIN done[c] = 1 .. Len(done[c])
  BY <1>1
<1>3. Line(c) = [k \in 1 .. Len(done[c]) + 0 |->
                   IF k <= Len(done[c]) THEN done[c][k].oid ELSE todo[c][k - Len(done[c])].oid]
  BY <1>2 DEF Line
<1> QED
  BY <1>2, <1>3

\* What the client is told.
LEMMA AnswerTells ==
  ASSUME LocalsOK, NEW c \in Clients, NEW status, NEW objs, Answer(c, status, objs)
  PROVE  reply'[c].status = status /\ reply'[c].objects = objs
BY Effects

\* What NoneDropped allows a batch, but for the end of the process.
Whole(c) ==
    \/ handler'[c] = "batch" /\ (Line(c)' = Line(c) \/ (Droppable(c) /\ Line(c)' = Rest(c)))
    \/ /\ handler'[c] = "none" /\ reply'[c].status = 200
       /\ Line(c) = [k \in DOMAIN reply'[c].objects |-> reply'[c].objects[k].oid]
    \/ ~Auth(c) /\ handler'[c] = "none" /\ reply'[c].status = 401
    \/ Droppable(c) /\ handler'[c] = "none" /\ aborts' # aborts

\* A batch goes on with its objects, answers them, or gives up as it may.
LEMMA BatchHandles ==
  ASSUME LocalsOK, LimitsOK, ControlInv, NEW c \in Clients, HandlerStep(c), handler[c] = "batch"
  PROVE  Whole(c)
<1>0. stage[c] \in {"idle", "get", "put", "look", "write"}
  BY DEF ControlInv, LocalsOK, Stages
<1>t. stage[c] \in {"put", "look", "write"} => todo[c] # << >>
  BY DEF ControlInv, At
<1>g. ASSUME NEW s, Goto(c, s) PROVE Whole(c)
  <2>1. handler'[c] = "batch" /\ done'[c] = done[c] /\ todo'[c] = todo[c]
    BY <1>g, Effects
  <2> QED
    BY <2>1, LineSame DEF Whole
<1>n. ASSUME NEW s, NEW links, todo[c] # << >>,
             NextObject(c, <<Represent(Object(c).oid, s, links)>>)
      PROVE  Whole(c)
  <2>1. Represent(Object(c).oid, s, links).oid = Object(c).oid
    BY DEF Represent
  <2>2. Line(c)' = Line(c)
    BY <1>n, <2>1, LineKept
  <2>3. handler'[c] = "batch"
    BY <1>n DEF NextObject
  <2> QED
    BY <2>2, <2>3 DEF Whole
<1>d. ASSUME NEW status, PutRefused(c, status), todo[c] # << >>, Droppable(c) PROVE Whole(c)
  <2>1. NextObject(c, << >>)
    BY <1>d DEF PutRefused
  <2>2. Line(c)' = Rest(c) /\ handler'[c] = "batch"
    BY <1>d, <2>1, LineDropped DEF NextObject
  <2> QED
    BY <1>d, <2>2 DEF Whole
<1> DEFINE Added(s, links) == NextObject(c, <<Represent(Object(c).oid, s, links)>>)
<1>m. ASSUME NEW s, NEW links, todo[c] # << >>, Added(s, links) PROVE Whole(c)
  BY <1>n, <1>m DEF Added
<1>r. PutReturns(c) => Added(Object(c).size, {"upload"})
  BY DEF PutReturns, Added
<1> HIDE DEF Added
<1>1. CASE BatchGet(c)
  <2>1. todo[c] # << >>
    BY <1>1 DEF BatchGet
  <2>2. \/ Added(Lookup(Object(c).oid), {"download"})
        \/ ~Auth(c) /\ Answer(c, 401, << >>)
        \/ Goto(c, "put")
    BY <1>1 DEF BatchGet, Added
  <2>3. ASSUME ~Auth(c), Answer(c, 401, << >>) PROVE Whole(c)
    <3>1. handler'[c] = "none"
      BY <2>3 DEF Answer, Finish, LocalsOK
    <3>2. reply'[c].status = 401
      BY <2>3, AnswerTells
    <3> QED
      BY <2>3, <3>1, <3>2 DEF Whole
  <2> QED
    BY <1>g, <1>m, <2>1, <2>2, <2>3
<1>2. CASE BatchDone(c)
  <2>1. Answer(c, 200, done[c]) /\ todo[c] = << >>
    BY <1>2 DEF BatchDone
  <2>2. handler'[c] = "none"
    BY <2>1 DEF Answer, Finish, LocalsOK
  <2>3. reply'[c].status = 200 /\ reply'[c].objects = done[c]
    <3>1. Answer(c, 200, done[c])
      BY <2>1
    <3> QED
      BY <3>1, AnswerTells
  <2>4. Line(c) = [k \in DOMAIN done[c] |-> done[c][k].oid]
    BY <2>1, LineAnswered
  <2>5. Line(c) = [k \in DOMAIN reply'[c].objects |-> reply'[c].objects[k].oid]
    BY <2>3, <2>4, Zenon
  <2> QED
    BY <2>2, <2>3, <2>5, Zenon DEF Whole
<1>3. CASE PutBegin(c)
  <2>1. stage[c] = "put" /\ ((~Auth(c) /\ PutRefused(c, 401)) \/ Goto(c, "look"))
    BY <1>3 DEF PutBegin
  <2>2. ~Auth(c) => Droppable(c)
    BY <2>1 DEF Droppable
  <2> QED
    BY <1>d, <1>g, <1>t, <2>1, <2>2
<1>4. CASE PutLookup(c)
  <2>1. stage[c] = "look"
    BY <1>4 DEF PutLookup
  <2>2. \/ Goto(c, "write")
        \/ Added(Lookup(Object(c).oid), {"download", "upload"})
    BY <1>4 DEF PutLookup, Added
  <2> QED
    BY <1>g, <1>m, <1>t, <2>1, <2>2
<1>f. Fault => aborts' # aborts
  BY BoundsAssumption DEF Fault, LimitsOK
<1>5. CASE PutWrite(c)
  <2>1. /\ stage[c] = "write"
        /\ (Object(c).oid = "" /\ PutRefused(c, 404)) \/ PutReturns(c)
    BY <1>5 DEF PutWrite
  <2>2. Object(c).oid = "" => Droppable(c)
    BY <2>1 DEF Droppable
  <2> QED
    BY <1>d, <1>m, <1>r, <1>t, <2>1, <2>2
<1>6. CASE PutFails(c)
  <2>1. stage[c] = "write" /\ aborts' # aborts /\ (PutRefused(c, 404) \/ Panic(c))
    BY <1>6, <1>f DEF PutFails
  <2>2. Droppable(c)
    BY <2>1 DEF Droppable
  <2>3. Panic(c) => handler'[c] = "none"
    BY Effects
  <2>4. Panic(c) => Whole(c)
    BY <2>1, <2>2, <2>3 DEF Whole
  <2> QED
    BY <1>d, <1>t, <2>1, <2>2, <2>4
<1>7. CASE PutUnrecorded(c)
  <2>1. stage[c] = "write" /\ PutReturns(c)
    BY <1>7 DEF PutUnrecorded
  <2> QED
    BY <1>m, <1>r, <1>t, <2>1
<1>8. ~ (GetContentHandler(c) \/ SendContent(c) \/ GetSearchHandler(c) \/ GetMetaHandler(c)
         \/ PutHandler(c) \/ StoreContent(c) \/ StoreFails(c) \/ PutDone(c) \/ PutLost(c)
         \/ PostAnswer(c))
  BY DEF GetContentHandler, SendContent, GetSearchHandler, GetMetaHandler,
     PutHandler, StoreContent, StoreFails, PutDone, PutLost, PostAnswer, At
<1> QED
  BY <1>1, <1>2, <1>3, <1>4, <1>5, <1>6, <1>7, <1>8 DEF HandlerStep

\* Whatever other requests and the environment do, a batch answers every object
\* that it was asked for, leaves out none but those whose Put has not succeeded,
\* and ends without an answer only without access, in a panic or in a restart.
THEOREM Complete == Spec => NoneDropped
<1> DEFINE Carried(c) == handler[c] = "batch" =>
      \/ handler'[c] = "batch" /\ (Line(c)' = Line(c) \/ (Droppable(c) /\ Line(c)' = Rest(c)))
      \/ /\ handler'[c] = "none" /\ reply'[c].status = 200
         /\ Line(c) = [k \in DOMAIN reply'[c].objects |-> reply'[c].objects[k].oid]
      \/ ~Auth(c) /\ handler'[c] = "none" /\ reply'[c].status = 401
      \/ Droppable(c) /\ handler'[c] = "none" /\ aborts' # aborts
      \/ crashes' # crashes
<1>1. TypeOK /\ ControlInv /\ [Moved]_vars => [\A c \in Clients : Carried(c)]_vars
  <2> SUFFICES ASSUME TypeOK, ControlInv, [Moved]_vars, NEW c \in Clients, handler[c] = "batch"
               PROVE  Carried(c)
    BY DEF Carried
  <2>0. LocalsOK /\ LimitsOK /\ stage[c] # "idle"
    BY TypeParts DEF ControlInv
  <2>1. ASSUME Has(c)' = Has(c) PROVE Carried(c)
    BY <2>1, LineSame DEF Has
  <2>2. ASSUME HandlerStep(c) PROVE Carried(c)
    BY <2>0, <2>2, BatchHandles DEF Whole
  <2>3. ASSUME NEW d \in Clients, HandlerStep(d) \/ Serve(d), d # c PROVE Carried(c)
    BY <2>0, <2>1, <2>3, Others
  <2>4. ~Serve(c)
    BY <2>0 DEF Serve, NotRouted, Arrive
  <2>5. ASSUME \/ \E d \in Clients : Postpone(d) \/ Lapse(d)
               \/ \E o \in Oids : Land(o)
               \/ UNCHANGED vars
        PROVE  Carried(c)
    BY <2>1, <2>5 DEF Postpone, Lapse, Land, vars, locals, Has
  <2>6. CASE Crash
    <3>1. crashes' = crashes + 1 /\ crashes \in Nat
      BY <2>6, TypeParts, BoundsAssumption DEF Crash, LimitsOK
    <3>2. crashes' # crashes
      BY <3>1
    <3> QED
      BY <3>2
  <2> QED
    BY <2>2, <2>3, <2>4, <2>5, <2>6 DEF Moved, Moves
<1> QED
  BY <1>1, TypeInit, TypeNext, NextMoves, PTL DEF Spec, NoneDropped

-----------------------------------------------------------------------------
(* StrangerBlind                                                           *)

\* A client without access, where access is needed, is at a step that only
\* asks for it, and has collected nothing.
Outside(c) ==
    /\ access[c] = FALSE
    /\ stage[c] \in {"idle", "get", "put"}
    /\ done[c] = << >>
    /\ reply[c].objects = << >>

BlindInv == ~Public => \A c \in Strangers : Outside(c)

\* A handler that serves a stranger turns it away at the first lookup.
LEMMA BlindHandler ==
  ASSUME LocalsOK, ControlInv, ~Public, NEW c \in Clients, Outside(c), HandlerStep(c)
  PROVE  Outside(c)'
<1>1. ~Auth(c) /\ ~Found(c) /\ stage[c] \notin {"look", "write", "exists", "content", "sent"}
  BY DEF Outside, Auth, Found
<1>2. UNCHANGED access
  BY HandlerCalls
<1>3. ASSUME NEW status, NEW objs, Answer(c, status, objs), objs = << >> PROVE Outside(c)'
  BY <1>2, <1>3, Effects DEF Outside
<1>4. ASSUME NextObject(c, << >>) PROVE Outside(c)'
  <2>1. stage'[c] = "get" /\ reply'[c] = reply[c] /\ done'[c] = done[c] \o << >>
    BY <1>4, Effects
  <2>2. done'[c] = << >>
    BY <2>1 DEF Outside
  <2> QED
    BY <1>2, <2>1, <2>2 DEF Outside
<1>5. Denied(c) => Outside(c)'
  BY <1>3 DEF Denied
<1>6. \A status : PutRefused(c, status) => Outside(c)'
  BY <1>3, <1>4 DEF PutRefused
<1>7. CASE GetContentHandler(c) \/ GetSearchHandler(c) \/ GetMetaHandler(c) \/ PutHandler(c)
  BY <1>1, <1>5, <1>7 DEF GetContentHandler, GetSearchHandler, GetMetaHandler, PutHandler
<1>8. CASE BatchGet(c)
  BY <1>1, <1>3, <1>8 DEF BatchGet
<1>9. CASE BatchDone(c)
  BY <1>3, <1>9 DEF BatchDone, Outside
<1>10. CASE PutBegin(c)
  BY <1>1, <1>6, <1>10 DEF PutBegin
<1>11. ~ (SendContent(c) \/ StoreContent(c) \/ StoreFails(c) \/ PutDone(c) \/ PutLost(c)
          \/ PutLookup(c) \/ PutWrite(c) \/ PutFails(c) \/ PutUnrecorded(c) \/ PostAnswer(c))
  BY <1>1 DEF SendContent, StoreContent, StoreFails, PutDone, PutLost, PutLookup, PutWrite,
     PutFails, PutUnrecorded, PostAnswer, At
<1> QED
  BY <1>7, <1>8, <1>9, <1>10, <1>11 DEF HandlerStep

\* No step lets a stranger in, and no step gives it an object.
LEMMA BlindNext == TypeOK /\ ControlInv /\ BlindInv /\ [Moved]_vars => BlindInv'
<1> SUFFICES ASSUME TypeOK, ControlInv, BlindInv, ~Public, [Moved]_vars, NEW d \in Strangers
             PROVE  Outside(d)'
  BY DEF BlindInv
<1>0. LocalsOK /\ StoresOK /\ d \in Clients /\ Outside(d)
  BY TypeParts, NamesAssumption DEF BlindInv
<1>1. ASSUME Has(d)' = Has(d), access'[d] = access[d] PROVE Outside(d)'
  BY <1>0, <1>1 DEF Has, Outside
<1>2. ASSUME NEW c \in Clients, HandlerStep(c) PROVE Outside(d)'
  <2>1. UNCHANGED access
    BY <1>2, HandlerCalls
  <2> QED
    BY <1>0, <1>1, <1>2, <2>1, Others, BlindHandler
<1>3. ASSUME NEW c \in Clients, Serve(c) PROVE Outside(d)'
  <2>1. UNCHANGED access
    BY <1>3 DEF Serve, NotRouted, Arrive
  <2>2. CASE c = d
    <3>1. NoReply.objects = << >> /\ NotFound.objects = << >>
      BY DEF NoReply, NotFound
    <3>2. d \in DOMAIN reply /\ d \in DOMAIN stage
      BY <1>0 DEF LocalsOK
    <3>3. CASE NotRouted(d)
      BY <1>0, <2>1, <3>1, <3>2, <3>3 DEF NotRouted, locals, Outside
    <3>4. CASE ~NotRouted(d)
      <4>1. PICK x : Arrive(d, x)
        BY <1>3, <2>2, <3>4 DEF Serve
      <4> QED
        BY <1>0, <2>1, <3>1, <3>2, <4>1 DEF Arrive, Outside
    <3> QED
      BY <3>3, <3>4
  <2>3. CASE c # d
    BY <1>0, <1>1, <1>3, <2>1, <2>3, Others
  <2> QED
    BY <2>2, <2>3
<1>4. ASSUME NEW c \in Clients, Lapse(c) PROVE Outside(d)'
  <2>1. access'[d] = access[d]
    BY <1>0, <1>4 DEF Lapse, StoresOK
  <2> QED
    BY <1>1, <1>4, <2>1 DEF Lapse, locals, Has
<1>5. ASSUME NEW o \in Oids, Land(o) PROVE Outside(d)'
  BY <1>1, <1>5 DEF Land, locals, Has
<1>8. ASSUME NEW c \in Clients, Postpone(c) PROVE Outside(d)'
  BY <1>1, <1>8 DEF Postpone, locals, Has
<1>6. CASE Crash
  BY <1>0, <1>6 DEF Crash, Outside
<1>7. CASE UNCHANGED vars
  BY <1>1, <1>7 DEF vars, locals, Has
<1> QED
  BY <1>2, <1>3, <1>4, <1>5, <1>6, <1>7, <1>8 DEF Moved, Moves

LEMMA BlindInit == Init => BlindInv
<1>1. NoReply.objects = << >>
  BY DEF NoReply
<1> QED
  BY <1>1, NamesAssumption DEF Init, BlindInv, Outside

LEMMA BlindMeans == BlindInv => StrangerBlind
  BY DEF BlindInv, Outside, StrangerBlind

\* A client whose credentials are never valid is given no object and does not
\* reach the half of a handler that reads or writes one, whatever it sends.
THEOREM Blind == Spec => []StrangerBlind
<1> QED
  BY BlindInit, BlindMeans, TypeInit, TypeNext, BlindNext, NextMoves, PTL DEF Spec

-----------------------------------------------------------------------------
(* Clients that keep to the protocol                                       *)

\* The requests of a git-lfs client reach a handler.
LEMMA ClientServes ==
  ASSUME \A o \in Oids : TrueSize[o] \in Sizes, NEW c, ClientStep(c)
  PROVE  Serve(c)
<1>1. /\ Route("POST", "objects", "meta") \in Handlers \ {"none"}
      /\ Route("POST", "batch", "meta") \in Handlers \ {"none"}
  <2>1. 6 \in Matching("POST", "objects", "meta") /\ 1 \in Matching("POST", "batch", "meta")
    BY DEF Matching, Routes
  <2> QED
    BY <2>1, RouteTypes DEF Methods, Paths, Accepts
<1>2. ASSUME NEW m \in {"PUT", "GET"}
      PROVE  Route(m, "object", "content") \in Handlers \ {"none"}
  <2>1. Matching(m, "object", "content") # {}
    <3>1. 5 \in Matching("PUT", "object", "content") /\ 2 \in Matching("GET", "object", "content")
      BY DEF Matching, Routes
    <3> QED
      BY <3>1
  <2> QED
    BY <2>1, RouteTypes DEF Methods, Paths, Accepts
<1>o. ASSUME NEW o \in Oids
      PROVE  [oid |-> o, size |-> TrueSize[o]] \in Objects /\ [oid |-> o, size |-> 0] \in Objects
  BY DEF Objects
<1>l. \A x \in Objects : <<x>> \in Seq(Objects) /\ <<x>> # << >>
  OBVIOUS
<1>3. ASSUME NEW o \in Oids, Announce(c, o) PROVE Serve(c)
  <2> DEFINE x == [to |-> Route("POST", IF Api = "post" THEN "objects" ELSE "batch", "meta"),
                   method |-> "POST", objects |-> Announced(o),
                   signed |-> TRUE, good |-> FALSE]
  <2>1. Announced(o) \in Seq(Objects) /\ Announced(o) # << >>
    BY <1>o, <1>l DEF Announced
  <2>2. x.to \in Handlers \ {"none"}
    BY <1>1
  <2>3. x \in Served /\ x.objects # << >>
    BY <2>1, <2>2 DEF Served, Methods
  <2>4. Arrive(c, x)
    BY <1>3 DEF Announce
  <2> HIDE DEF x
  <2> QED
    BY <2>3, <2>4 DEF Serve
<1>4. ASSUME NEW m \in {"PUT", "GET"}, NEW o \in Oids, Arrive(c, ForContent(m, o))
      PROVE  Serve(c)
  <2> DEFINE x == ForContent(m, o)
  <2>1. <<[oid |-> o, size |-> 0]>> \in Seq(Objects) /\ <<[oid |-> o, size |-> 0]>> # << >>
    BY <1>o, <1>l
  <2>2. x \in Served /\ x.objects # << >>
    BY <1>2, <2>1 DEF ForContent, Served, Methods
  <2> HIDE DEF x
  <2>3. Arrive(c, x)
    BY <1>4 DEF x
  <2> QED
    BY <2>2, <2>3 DEF Serve
<1> QED
  BY <1>3, <1>4 DEF ClientStep, Upload, Download

LEMMA ClientMoves ==
  ASSUME \A o \in Oids : TrueSize[o] \in Sizes, TypeOK, [ClientNext]_vars
  PROVE  [Moved]_vars
<1>1. calm \in BOOLEAN
  BY DEF TypeOK
<1> QED
  BY <1>1, ClientServes, RequestServes, NamesAssumption DEF ClientNext, Moved, Moves

\* What does not depend on who sends what holds as well when clients announce
\* objects with their real size, follow the links they are given, and try
\* again: types, content with metadata on record, successes that are true,
\* and strangers who are given nothing by servers that are busy with others.
THEOREM Protocol ==
  ASSUME \A o \in Oids : TrueSize[o] \in Sizes
  PROVE  FairSpec => [](TypeOK /\ ContentAnnounced /\ SuccessStored /\ StrangerBlind)
<1> DEFINE Inv == TypeOK /\ ControlInv /\ BackedInv /\ BlindInv
<1>1. Init => Inv
  BY TypeInit, BackedInit, BlindInit
<1>2. Inv /\ [ClientNext]_vars => Inv'
  <2> SUFFICES ASSUME Inv, [ClientNext]_vars PROVE Inv'
    OBVIOUS
  <2>1. [Moved]_vars
    BY ClientMoves
  <2> QED
    BY <2>1, TypeNext, BackedNext, BlindNext
<1>3. Inv => TypeOK /\ ContentAnnounced /\ SuccessStored /\ StrangerBlind
  BY BackedMeans, BlindMeans
<1> QED
  BY <1>1, <1>2, <1>3, PTL DEF FairSpec

-----------------------------------------------------------------------------
(* SizesCurrent and SizesReal                                              *)

\* What a list of answers says of sizes is what m has.
Told(m, list) == \A k \in DOMAIN list : m[list[k].oid] = list[k].size

\* What a request holds and has said of sizes is what is on record.
Knows(c) ==
    /\ Told(meta, done[c]) /\ Told(meta, reply[c].objects)
    /\ stage[c] \in {"exists", "content"} => meta[Object(c).oid] = snap[c]

\* A Put that is about to write is alone with its object, which is not on record.
AloneInv == \A o \in Oids, c \in Clients : Writing(c, o) =>
    /\ meta[o] = None
    /\ \A d \in Clients : Writing(d, o) => c = d

RealInv == \A o \in Oids : stored[o] \/ o \in late => meta[o] = TrueSize[o]

KnowsInv == \A c \in Clients : Knows(c)

SizesInv == calm => AloneInv /\ KnowsInv /\ RealInv

\* What is on record stays as it is while the writer of an object is alone.
LEMMA MetaKept ==
  ASSUME TypeOK, ControlInv, AloneInv, [Moved]_vars, NEW o \in Oids, meta[o] # None
  PROVE  meta'[o] = meta[o]
<1>1. ASSUME NEW c \in Clients, stage[c] = "write", Object(c).oid \in Oids,
             meta' = [meta EXCEPT ![Object(c).oid] = Object(c).size]
      PROVE  meta'[o] = meta[o]
  <2>1. Writing(c, Object(c).oid)
    BY <1>1 DEF Writing
  <2>2. Object(c).oid # o
    BY <1>1, <2>1 DEF AloneInv
  <2> QED
    BY <1>1, <2>2
<1> QED
  BY <1>1, MetaWrites

\* So answers that were right stay right.
LEMMA ToldKept ==
  ASSUME TypeOK, ControlInv, AloneInv, [Moved]_vars,
         NEW list \in Seq(Representations), Told(meta, list)
  PROVE  Told(meta', list)
<1> SUFFICES ASSUME NEW k \in DOMAIN list PROVE meta'[list[k].oid] = list[k].size
  BY DEF Told
<1>1. list[k] \in Representations
  OBVIOUS
<1>2. list[k].oid \in Oids /\ list[k].size \in Sizes \cup {0}
  BY <1>1 DEF Representations
<1>3. meta[list[k].oid] = list[k].size /\ list[k].size # None
  BY <1>2, SizeIsNumber DEF Told
<1> QED
  BY <1>2, <1>3, MetaKept

\* A Put does not write twice.
LEMMA WriteEnds ==
  ASSUME LocalsOK, NEW c \in Clients, stage[c] = "write", HandlerStep(c)
  PROVE  stage'[c] # "write"
<1>1. \A status, objs : Answer(c, status, objs) => stage'[c] # "write"
  BY Effects
<1>2. \A objs : NextObject(c, objs) => stage'[c] # "write"
  BY Effects
<1>3. Panic(c) => stage'[c] # "write"
  BY Effects
<1>4. PutReturns(c) \/ (\E status : PutRefused(c, status)) => stage'[c] # "write"
  BY <1>1, <1>2 DEF PutReturns, PutRefused
<1>5. PutWrite(c) \/ PutFails(c) \/ PutUnrecorded(c)
  BY DEF HandlerStep, GetContentHandler, SendContent, GetSearchHandler, GetMetaHandler,
     PutHandler, StoreContent, StoreFails, PutDone, PutLost, BatchGet, BatchDone, PutBegin,
     PutLookup, PostAnswer, At
<1> QED
  BY <1>3, <1>4, <1>5 DEF PutWrite, PutFails, PutUnrecorded

\* The one way to come to the writing end of Put: Get has found nothing, or
\* the object on record has been overlooked.
LEMMA WriteBegins ==
  ASSUME TypeOK, ControlInv, [Moved]_vars, NEW d \in Clients, stage'[d] = "write"
  PROVE  \/ Has(d)' = Has(d)
         \/ /\ UNCHANGED meta /\ Object(d)' = Object(d)
            /\ Lookup(Object(d).oid) = None \/ Overlooks(d)
<1> DEFINE Goal == \/ Has(d)' = Has(d)
                   \/ /\ UNCHANGED meta /\ Object(d)' = Object(d)
                      /\ Lookup(Object(d).oid) = None \/ Overlooks(d)
<1>0. LocalsOK /\ d \in DOMAIN stage
  BY TypeParts DEF LocalsOK
<1>a. \A status, objs : ~Answer(d, status, objs)
  BY <1>0, Effects
<1>g. \A s : Goto(d, s) => s = "write" /\ Object(d)' = Object(d)
  BY <1>0, Effects DEF Object
<1>n. \A objs : ~NextObject(d, objs)
  BY <1>0, Effects
<1>d. ~Denied(d) /\ \A status : ~PutRefused(d, status)
  BY <1>a, <1>n DEF Denied, PutRefused
<1>1. CASE HandlerStep(d)
  <2>1. PutLookup(d)
    <3>1. ~GetContentHandler(d) /\ ~SendContent(d) /\ ~GetSearchHandler(d)
      BY <1>a, <1>g, <1>d DEF GetContentHandler, SendContent, GetSearchHandler
    <3>2. ~GetMetaHandler(d) /\ ~PutHandler(d)
      BY <1>a, <1>g, <1>d DEF GetMetaHandler, PutHandler
    <3>3. ~StoreContent(d) /\ ~StoreFails(d) /\ ~PutDone(d) /\ ~PutLost(d)
      BY <1>a, <1>g DEF StoreContent, StoreFails, PutDone, PutLost
    <3>4. ~BatchGet(d) /\ ~BatchDone(d)
      BY <1>a, <1>g, <1>n DEF BatchGet, BatchDone
    <3>5. ~PutBegin(d) /\ ~PostAnswer(d)
      BY <1>a, <1>g, <1>d DEF PutBegin, PostAnswer
    <3>6. ~PutWrite(d) /\ ~PutFails(d) /\ ~PutUnrecorded(d)
      BY <1>1, <1>0, WriteEnds DEF PutWrite, PutFails, PutUnrecorded
    <3> QED
      BY <1>1, <3>1, <3>2, <3>3, <3>4, <3>5, <3>6 DEF HandlerStep
  <2>2. Goto(d, "write") /\ stage[d] = "look" /\ UNCHANGED meta
    BY <2>1, <1>g, <1>n DEF PutLookup, stores
  <2> QED
    BY <1>g, <2>2 DEF Overlooks
<1>2. ASSUME NEW c \in Clients, HandlerStep(c) \/ Serve(c), c # d PROVE Goal
  BY <1>0, <1>2, Others
<1>3. ~Serve(d)
  <2>1. ~NotRouted(d)
    BY DEF NotRouted, locals
  <2>2. \A x : ~Arrive(d, x)
    BY <1>0 DEF Arrive
  <2> QED
    BY <2>1, <2>2 DEF Serve
<1>4. ASSUME \/ \E c \in Clients : Postpone(c) \/ Lapse(c)
             \/ \E o \in Oids : Land(o)
             \/ UNCHANGED vars
      PROVE  Goal
  BY <1>4 DEF Postpone, Lapse, Land, vars, locals, Has
<1>5. ~Crash
  BY DEF Crash
<1> QED
  BY <1>1, <1>2, <1>3, <1>4, <1>5 DEF Moved, Moves

\* Calm steps leave every writer alone with its object.
LEMMA AloneNext ==
  ASSUME TypeOK, ControlInv, AloneInv, [Next]_vars, calm'
  PROVE  AloneInv'
<1>1. ASSUME NEW o \in Oids, NEW c \in Clients, NEW d \in Clients,
             Writing(c, o)', Writing(d, o)'
      PROVE  c = d
  <2>1. CASE Next
    BY <1>1, <2>1 DEF Next, Calm
  <2>2. CASE UNCHANGED vars
    BY <1>1, <2>2 DEF vars, locals, Writing, Object, AloneInv
  <2> QED
    BY <2>1, <2>2
<1>2. ASSUME NEW o \in Oids, NEW d \in Clients, Writing(d, o)'
      PROVE  meta'[o] = None
  <2>1. stage'[d] = "write" /\ Object(d)'.oid = o
    BY <1>2 DEF Writing
  <2>2. CASE /\ UNCHANGED meta /\ Object(d)' = Object(d)
             /\ Lookup(Object(d).oid) = None \/ Overlooks(d)
    <3>1. ~Overlooks(d)
      <4>1. CASE Next
        BY <4>1 DEF Next, Calm
      <4>2. CASE UNCHANGED vars
        BY <4>2 DEF vars, locals, Overlooks
      <4> QED
        BY <4>1, <4>2
    <3> QED
      BY <2>1, <2>2, <3>1 DEF Lookup
  <2>3. CASE Has(d)' = Has(d)
    <3>1. stage[d] = "write" /\ Object(d)' = Object(d)
      BY <2>1, <2>3 DEF Has, Object
    <3>2. Writing(d, o) /\ meta[o] = None
      BY <2>1, <3>1 DEF Writing, AloneInv
    <3>3. ASSUME NEW c \in Clients, HandlerStep(c), stage[c] = "write",
                 meta' = [meta EXCEPT ![Object(c).oid] = Object(c).size]
          PROVE  meta'[o] = meta[o]
      <4>1. c # d
        BY <2>1, <3>3, WriteEnds, TypeParts
      <4>2. Object(c).oid # o
        BY <3>2, <3>3, <4>1 DEF Writing, AloneInv
      <4> QED
        BY <3>3, <4>2
    <3> QED
      BY <3>2, <3>3, NextMoves, MetaWrites
  <2> QED
    BY <2>1, <2>2, <2>3, NextMoves, WriteBegins
<1> QED
  BY <1>1, <1>2 DEF AloneInv

\* What one client holds and was told stays right while others are served.
LEMMA KnowsOthers ==
  ASSUME TypeOK, ControlInv, AloneInv, [Moved]_vars,
         NEW d \in Clients, Knows(d), Has(d)' = Has(d)
  PROVE  Knows(d)'
<1>0. LocalsOK
  BY TypeParts
<1>1. /\ stage'[d] = stage[d] /\ reply'[d] = reply[d] /\ done'[d] = done[d]
      /\ snap'[d] = snap[d] /\ Object(d)' = Object(d)
  BY DEF Has, Object
<1>2. done[d] \in Seq(Representations) /\ reply[d].objects \in Seq(Representations)
  BY <1>0 DEF LocalsOK
<1>3. Told(meta', done[d]) /\ Told(meta', reply[d].objects)
  BY <1>2, ToldKept DEF Knows
<1>4. stage[d] \in {"exists", "content"} => meta'[Object(d).oid] = snap[d]
  <2> SUFFICES ASSUME stage[d] \in {"exists", "content"} PROVE meta'[Object(d).oid] = snap[d]
    OBVIOUS
  <2>1. Object(d).oid \in Oids
    BY DEF ControlInv
  <2>2. meta[Object(d).oid] = snap[d] /\ snap[d] \in Sizes \cup {0}
    BY <1>0 DEF Knows, LocalsOK
  <2> QED
    BY <2>1, <2>2, SizeIsNumber, MetaKept
<1> QED
  BY <1>1, <1>3, <1>4 DEF Knows

\* Lists put together of right answers are right.
LEMMA ToldLists ==
  ASSUME NEW m
  PROVE  /\ Told(m, << >>)
         /\ \A o, s, links : m[o] = s => Told(m, <<Represent(o, s, links)>>)
         /\ \A a, b \in Seq(Representations) : Told(m, a) /\ Told(m, b) => Told(m, a \o b)
<1>1. Told(m, << >>)
  BY DEF Told
<1>2. ASSUME NEW o, NEW s, NEW links, m[o] = s PROVE Told(m, <<Represent(o, s, links)>>)
  <2> DEFINE r == Represent(o, s, links)
  <2>1. r.oid = o /\ r.size = s
    BY DEF Represent
  <2> HIDE DEF r
  <2>2. \A k \in DOMAIN <<r>> : <<r>>[k] = r
    OBVIOUS
  <2>3. Told(m, <<r>>)
    BY <1>2, <2>1, <2>2 DEF Told
  <2> QED
    BY <2>3 DEF r
<1>3. ASSUME NEW a \in Seq(Representations), NEW b \in Seq(Representations),
             Told(m, a), Told(m, b), NEW k \in DOMAIN (a \o b)
      PROVE  m[(a \o b)[k].oid] = (a \o b)[k].size
  <2>1. \/ k \in DOMAIN a /\ (a \o b)[k] = a[k]
        \/ k - Len(a) \in DOMAIN b /\ (a \o b)[k] = b[k - Len(a)]
    BY ConcatProperties
  <2> QED
    BY <1>3, <2>1 DEF Told
<1> QED
  BY <1>1, <1>2, <1>3 DEF Told

\* A handler that serves a client says of sizes what is on record, and holds
\* what is on record when it gets past a lookup.
LEMMA KnowsHandler ==
  ASSUME TypeOK, ControlInv, AloneInv, [Moved]_vars,
         NEW c \in Clients, Knows(c), HandlerStep(c), ~PutUnrecorded(c)
  PROVE  Knows(c)'
<1> DEFINE o == Object(c).oid
<1>0. LocalsOK /\ StoresOK
  BY TypeParts
<1>t. /\ stage[c] \in {"exists", "content", "sent"} => o \in Oids
      /\ c \in DOMAIN snap /\ snap[c] \in Sizes \cup {0}
      /\ Found(c) => o \in Oids /\ meta[o] # None /\ Lookup(o) = meta[o]
      /\ done[c] \in Seq(Representations) /\ reply[c].objects \in Seq(Representations)
  BY <1>0, ObjectTypes DEF ControlInv, LocalsOK, Found
<1>k. Told(meta', done[c]) /\ Told(meta', reply[c].objects)
  BY <1>t, ToldKept DEF Knows
<1>e. ASSUME NEW status, NEW objs, Answer(c, status, objs), Told(meta', objs)
      PROVE  Knows(c)'
  <2>1. stage'[c] = "idle" /\ done'[c] = << >> /\ reply'[c].objects = objs
    BY <1>0, <1>e, Effects
  <2>2. Told(meta', << >>)
    BY ToldLists
  <2> QED
    BY <1>e, <2>1, <2>2 DEF Knows
<1>z. \A status : Answer(c, status, << >>) => Knows(c)'
  <2>1. Told(meta', << >>)
    BY ToldLists
  <2> QED
    BY <1>e, <2>1
<1>n. ASSUME NEW objs \in Seq(Representations), NextObject(c, objs), Told(meta', objs)
      PROVE  Knows(c)'
  <2>1. stage'[c] = "get" /\ reply'[c] = reply[c] /\ done'[c] = done[c] \o objs
    BY <1>0, <1>n, Effects
  <2>2. Told(meta', done[c] \o objs)
    BY <1>n, <1>k, <1>t, ToldLists
  <2> QED
    BY <1>k, <2>1, <2>2 DEF Knows
<1>g. ASSUME NEW s, Goto(c, s),
             s \in {"exists", "content"} => meta'[o] = snap'[c]
      PROVE  Knows(c)'
  <2>1. /\ stage'[c] = s /\ Object(c)' = Object(c)
        /\ reply'[c] = reply[c] /\ done'[c] = done[c]
    BY <1>0, <1>g, Effects DEF Object
  <2> QED
    BY <1>g, <1>k, <2>1 DEF Knows
<1>d. ASSUME Denied(c) PROVE Knows(c)'
  <2>1. \E status \in {401, 404} : Answer(c, status, << >>)
    BY <1>d DEF Denied
  <2> QED
    BY <1>z, <2>1
<1>l. ASSUME Found(c), NEW s, Goto(c, s), snap' = [snap EXCEPT ![c] = Lookup(o)]
      PROVE  Knows(c)'
  <2>1. meta'[o] = meta[o]
    BY <1>l, <1>t, MetaKept
  <2>2. snap'[c] = meta[o]
    BY <1>l, <1>t
  <2> QED
    BY <1>g, <1>l, <2>1, <2>2
<1>s. ASSUME Found(c), NEW links \in Links
      PROVE  LET r == <<Represent(o, Lookup(o), links)>>
             IN  Told(meta', r) /\ r \in Seq(Representations)
  <2>1. o \in Oids /\ meta'[o] = Lookup(o) /\ Lookup(o) \in Sizes \cup {0}
    BY <1>0, <1>s, <1>t, MetaKept, ObjectTypes
  <2> QED
    BY <1>s, <2>1, ToldLists, RepresentTypes
<1>1. CASE GetContentHandler(c) \/ PutHandler(c)
  BY <1>1, <1>d, <1>l DEF GetContentHandler, PutHandler
<1>2. CASE SendContent(c) \/ GetSearchHandler(c) \/ StoreFails(c) \/ PutDone(c) \/ PutLost(c)
  BY <1>2, <1>d, <1>z DEF SendContent, GetSearchHandler, StoreFails, PutDone, PutLost
<1>3. CASE GetMetaHandler(c)
  <2> DEFINE r == <<Represent(o, Lookup(o), {"download"})>>
             objs == IF req[c].method = "GET" THEN r ELSE << >>
  <2>1. Denied(c) \/ (Found(c) /\ Answer(c, 200, objs))
    BY <1>3 DEF GetMetaHandler
  <2>2. Found(c) => Told(meta', r)
    BY <1>s DEF Links
  <2>3. Told(meta', << >>)
    BY ToldLists
  <2> HIDE DEF r
  <2>4. Found(c) => Told(meta', objs)
    BY <2>2, <2>3
  <2> HIDE DEF objs
  <2> QED
    BY <1>d, <1>e, <2>1, <2>4
<1>4. CASE StoreContent(c)
  BY <1>4, <1>g, <1>z DEF StoreContent
<1>5. CASE BatchGet(c)
  <2> DEFINE r == <<Represent(o, Lookup(o), {"download"})>>
  <2>1. Found(c) => Told(meta', r) /\ r \in Seq(Representations)
    BY <1>s DEF Links
  <2>2. \/ Found(c) /\ NextObject(c, r)
        \/ Answer(c, 401, << >>)
        \/ Goto(c, "put")
    BY <1>5 DEF BatchGet
  <2> HIDE DEF r
  <2> QED
    BY <1>n, <1>z, <1>g, <2>1, <2>2
<1>6. CASE BatchDone(c)
  BY <1>6, <1>e, <1>k DEF BatchDone
<1>r. ASSUME NEW status \in {401, 404}, PutRefused(c, status) PROVE Knows(c)'
  <2>1. << >> \in Seq(Representations) /\ Told(meta', << >>)
    BY ToldLists
  <2>2. NextObject(c, << >>) => Knows(c)'
    BY <1>n, <2>1
  <2> QED
    BY <1>r, <1>z, <2>2 DEF PutRefused
<1>7. CASE PutBegin(c) \/ PutLookup(c)
  <2> DEFINE r == <<Represent(o, Lookup(o), {"download", "upload"})>>
  <2>1. Found(c) => Told(meta', r) /\ r \in Seq(Representations)
    BY <1>s DEF Links
  <2>2. \/ PutRefused(c, 401)
        \/ \E s \in {"look", "write"} : Goto(c, s)
        \/ Found(c) /\ NextObject(c, r)
        \/ /\ Found(c) /\ Goto(c, "exists")
           /\ snap' = [snap EXCEPT ![c] = Lookup(o)]
    BY <1>7 DEF PutBegin, PutLookup
  <2> HIDE DEF r
  <2> QED
    BY <1>r, <1>g, <1>n, <1>l, <2>1, <2>2
<1>8. CASE PutWrite(c)
  <2> DEFINE n == Object(c).size
             r == <<Represent(o, n, {"upload"})>>
  <2>1. CASE PutRefused(c, 404)
    BY <1>r, <2>1
  <2>2. CASE o # "" /\ PutReturns(c) /\ (Record(c) \/ meta[o] # None)
    <3>1. o \in Oids /\ n \in Sizes \cup {0}
      <4>1. todo[c] # << >>
        BY <1>8 DEF PutWrite, ControlInv, At
      <4> QED
        BY <1>0, <2>2, <4>1, ObjectTypes
    <3>2. meta[o] = None
      BY <1>8, <3>1 DEF PutWrite, Writing, AloneInv
    <3>3. meta'[o] = n
      <4>1. o \in DOMAIN meta
        BY <1>0, <3>1 DEF StoresOK
      <4> QED
        BY <2>2, <3>2, <4>1 DEF Record
    <3>4. Told(meta', r) /\ r \in Seq(Representations)
      BY <3>1, <3>3, ToldLists, RepresentTypes DEF Links
    <3>5. NextObject(c, r) \/ Answer(c, 202, r)
      BY <2>2 DEF PutReturns
    <3> HIDE DEF r
    <3> QED
      BY <1>e, <1>n, <3>4, <3>5
  <2> QED
    BY <1>8, <2>1, <2>2 DEF PutWrite
<1>10. CASE PutFails(c)
  <2>1. ASSUME Panic(c) PROVE Knows(c)'
    <3>1. stage'[c] = "idle" /\ done'[c] = << >> /\ reply'[c] = reply[c]
      BY <1>0, <2>1, Effects
    <3>2. Told(meta', << >>)
      BY ToldLists
    <3> QED
      BY <1>k, <3>1, <3>2 DEF Knows
  <2> QED
    BY <1>10, <1>r, <2>1 DEF PutFails
<1>9. CASE PostAnswer(c)
  <2> DEFINE r == <<Represent(o, snap[c], {"download", "upload"})>>
  <2>1. o \in Oids /\ meta[o] = snap[c]
    BY <1>9, <1>t DEF PostAnswer, At, Knows
  <2>2. meta'[o] = snap[c]
    BY <1>t, <2>1, SizeIsNumber, MetaKept
  <2>3. Told(meta', r)
    BY <2>2, ToldLists
  <2>4. \E status \in {200, 202} : Answer(c, status, r)
    BY <1>9 DEF PostAnswer
  <2> HIDE DEF r
  <2> QED
    BY <1>e, <2>3, <2>4
<1> QED
  BY <1>1, <1>2, <1>3, <1>4, <1>5, <1>6, <1>7, <1>8, <1>9, <1>10 DEF HandlerStep

\* No step puts content in the store, or on its way there, of a size that is
\* not on record.
LEMMA RealNext ==
  ASSUME TypeOK, ControlInv, AloneInv, KnowsInv, RealInv, [Moved]_vars
  PROVE  RealInv'
<1>0. StoresOK
  BY TypeParts
<1>1. ASSUME NEW o \in Oids, meta[o] = TrueSize[o] PROVE meta'[o] = TrueSize[o]
  <2>1. meta[o] # None
    BY <1>1, SizesAssumption, NoneAssumption
  <2> QED
    BY <1>1, <2>1, MetaKept
<1>2. ASSUME \A o \in Oids : \/ stored'[o] \/ o \in late' => stored[o] \/ o \in late
                             \/ meta[o] = TrueSize[o]
      PROVE  RealInv'
  BY <1>1, <1>2 DEF RealInv
<1>3. ASSUME UNCHANGED contents PROVE RealInv'
  BY <1>2, <1>3 DEF contents
<1>4. ASSUME NEW c \in Clients, HandlerStep(c) PROVE RealInv'
  <2> DEFINE o == Object(c).oid
  <2>1. ASSUME At(c, "put", "content"), Matches(c) PROVE o \in Oids /\ meta[o] = TrueSize[o]
    BY <2>1 DEF At, Matches, ControlInv, KnowsInv, Knows
  <2>2. CASE StoreContent(c)
    <3>1. \/ UNCHANGED stored
          \/ Matches(c) /\ \A x \in Oids \ {o} : stored'[x] = stored[x]
      BY <1>0, <2>2 DEF StoreContent, Keep, StoresOK
    <3> QED
      BY <1>2, <2>1, <2>2, <3>1 DEF StoreContent
  <2>3. CASE ~StoreContent(c)
    <3>1. UNCHANGED contents
      BY <1>4, <2>3, HandlerWrites
    <3> QED
      BY <1>3, <3>1
  <2> QED
    BY <2>2, <2>3
<1>5. ASSUME NEW c \in Clients, Serve(c) \/ Lapse(c) PROVE RealInv'
  BY <1>3, <1>5 DEF Serve, NotRouted, Arrive, Lapse, stores
<1>6. ASSUME NEW x \in Oids, Land(x) PROVE RealInv'
  <2>1. \A o \in Oids : stored'[o] \/ o \in late' => stored[o] \/ o \in late
    BY <1>0, <1>6 DEF Land, Keep, StoresOK
  <2> QED
    BY <1>2, <2>1
<1>7. CASE Crash \/ UNCHANGED vars
  BY <1>3, <1>7 DEF Crash, vars, stores
<1>8. ASSUME NEW c \in Clients, Postpone(c) PROVE RealInv'
  <2>1. Object(c).oid \in Oids /\ meta[Object(c).oid] = TrueSize[Object(c).oid]
    BY <1>8 DEF Postpone, At, Matches, ControlInv, KnowsInv, Knows
  <2>2. UNCHANGED stored /\ \A x \in late' : x \in late \/ x = Object(c).oid
    BY <1>8 DEF Postpone
  <2> QED
    BY <1>2, <2>1, <2>2
<1> QED
  BY <1>4, <1>5, <1>6, <1>7, <1>8 DEF Moved, Moves

\* What clients hold and were told stays right in every calm step.
LEMMA KnowsNext ==
  ASSUME TypeOK, ControlInv, AloneInv, KnowsInv, [Moved]_vars,
         \A c \in Clients : ~PutUnrecorded(c)
  PROVE  KnowsInv'
<1> SUFFICES ASSUME NEW d \in Clients PROVE Knows(d)'
  BY DEF KnowsInv
<1>0. LocalsOK /\ Knows(d)
  BY TypeParts DEF KnowsInv
<1>n. \A m : Told(m, << >>)
  BY ToldLists
<1>1. ASSUME Has(d)' = Has(d) PROVE Knows(d)'
  BY <1>0, <1>1, KnowsOthers
<1>2. ASSUME NEW c \in Clients, HandlerStep(c) PROVE Knows(d)'
  BY <1>0, <1>1, <1>2, Others, KnowsHandler
<1>3. ASSUME NEW c \in Clients, Serve(c) PROVE Knows(d)'
  <2>1. CASE c = d
    <3>1. NoReply.objects = << >> /\ NotFound.objects = << >>
      BY DEF NoReply, NotFound
    <3>2. d \in DOMAIN reply /\ d \in DOMAIN stage
      BY <1>0 DEF LocalsOK
    <3>3. Told(meta', done[d])
      BY <1>0, ToldKept DEF LocalsOK, Knows
    <3>4. /\ stage'[d] \notin {"exists", "content"}
          /\ done'[d] = done[d] /\ reply'[d].objects = << >>
      <4>1. CASE NotRouted(d)
        BY <3>1, <3>2, <4>1 DEF NotRouted, locals
      <4>2. CASE ~NotRouted(d)
        <5>1. PICK x : Arrive(d, x)
          BY <1>3, <2>1, <4>2 DEF Serve
        <5> QED
          BY <3>1, <3>2, <5>1 DEF Arrive
      <4> QED
        BY <4>1, <4>2
    <3> QED
      BY <1>n, <3>3, <3>4 DEF Knows
  <2>2. CASE c # d
    BY <1>0, <1>1, <1>3, <2>2, Others
  <2> QED
    BY <2>1, <2>2
<1>4. ASSUME \/ \E c \in Clients : Postpone(c) \/ Lapse(c)
             \/ \E o \in Oids : Land(o)
             \/ UNCHANGED vars
      PROVE  Knows(d)'
  BY <1>1, <1>4 DEF Postpone, Lapse, Land, vars, locals, Has
<1>5. CASE Crash
  <2>1. stage'[d] = "idle" /\ done'[d] = << >> /\ reply'[d] = reply[d]
    BY <1>5 DEF Crash
  <2>2. Told(meta', reply[d].objects)
    BY <1>0, ToldKept DEF LocalsOK, Knows
  <2> QED
    BY <1>n, <2>1, <2>2 DEF Knows
<1> QED
  BY <1>2, <1>3, <1>4, <1>5 DEF Moved, Moves

\* In a calm step no Put claims a record that it has failed to make.
LEMMA CalmRecords ==
  ASSUME TypeOK, [Next]_vars, calm', NEW c \in Clients
  PROVE  ~PutUnrecorded(c)
<1>1. CASE Next
  BY <1>1 DEF Next, Calm
<1>2. CASE UNCHANGED vars
  <2>1. aborts \in Nat /\ aborts' = aborts
    BY <1>2, TypeParts, BoundsAssumption DEF vars, limits, LimitsOK
  <2>2. aborts' # aborts + 1
    BY <2>1
  <2> QED
    BY <2>2 DEF PutUnrecorded, Fault
<1> QED
  BY <1>1, <1>2

\* Together: as long as steps are calm, sizes stay right.
LEMMA SizesNext == TypeOK /\ ControlInv /\ SizesInv /\ [Next]_vars => SizesInv'
<1> SUFFICES ASSUME TypeOK, ControlInv, SizesInv, [Next]_vars, calm'
             PROVE  AloneInv' /\ KnowsInv' /\ RealInv'
  BY DEF SizesInv
<1>1. calm
  BY DEF Next, vars
<1>2. ASSUME NEW c \in Clients PROVE ~PutUnrecorded(c)
  BY CalmRecords
<1> QED
  BY <1>1, <1>2, NextMoves, AloneNext, KnowsNext, RealNext DEF SizesInv

LEMMA SizesInit == Init => SizesInv
<1> SUFFICES ASSUME Init PROVE AloneInv /\ KnowsInv /\ RealInv
  BY DEF SizesInv
<1>1. AloneInv /\ RealInv
  BY DEF Init, AloneInv, RealInv, Writing
<1>2. NoReply.objects = << >> /\ \A m : Told(m, << >>)
  BY ToldLists DEF NoReply
<1>3. KnowsInv
  BY <1>2 DEF Init, KnowsInv, Knows
<1> QED
  BY <1>1, <1>3

\* In calm behaviours clients are told the size that is on record, which stays.
THEOREM Current == Spec => []SizesCurrent
<1>1. SizesInv => SizesCurrent
  BY DEF SizesInv, KnowsInv, Knows, Told, SizesCurrent
<1> QED
  BY <1>1, TypeInit, TypeNext, SizesInit, SizesNext, NextMoves, PTL DEF Spec

\* In calm behaviours the size on record of stored content is its real size.
THEOREM Real == Spec => []SizesReal
<1>1. SizesInv => SizesReal
  BY DEF SizesInv, RealInv, SizesReal
<1> QED
  BY <1>1, TypeInit, TypeNext, SizesInit, SizesNext, NextMoves, PTL DEF Spec

-----------------------------------------------------------------------------
(* Refinement of LfsService                                                *)

\* What a step does to the sizes on record and the stored contents is an
\* announcement, an upload that fits the record, or nothing.
LEMMA EffectNext ==
  ASSUME TypeOK, ControlInv, AloneInv, KnowsInv, RealInv, [Moved]_vars
  PROVE  LS!Effect /\ aborts' \in {aborts, aborts + 1}
<1> DEFINE Goal == LS!Effect /\ aborts' \in {aborts, aborts + 1}
<1>1. ASSUME UNCHANGED <<meta, stored>>, aborts' \in {aborts, aborts + 1} PROVE Goal
  BY <1>1 DEF LS!Effect
<1>2. ASSUME NEW o \in Oids, meta[o] = TrueSize[o], Keep(o), UNCHANGED meta,
             aborts' \in {aborts, aborts + 1}
      PROVE  Goal
  BY <1>2 DEF Keep, LS!Effect, LS!Store
<1>0. aborts' \in {aborts, aborts + 1}
  BY FaultsGrow
<1>3. ASSUME NEW c \in Clients, HandlerStep(c), stage[c] = "write", Record(c) PROVE Goal
  <2> DEFINE o == Object(c).oid
             s == Object(c).size
  <2>1. UNCHANGED stored
    BY <1>3, HandlerWrites DEF StoreContent, At, contents
  <2>2. o \in Oids /\ s \in Sizes \cup {0}
    <3>1. todo[c] # << >>
      BY <1>3 DEF ControlInv, At
    <3> QED
      BY <1>3, <3>1, ObjectTypes, TypeParts DEF Record
  <2>3. Writing(c, o)
    BY <1>3 DEF Writing
  <2>4. LS!Announce(o, s)
    BY <1>3, <2>1, <2>2, <2>3 DEF AloneInv, Record, LS!Announce
  <2> QED
    BY <1>0, <2>2, <2>4 DEF LS!Effect
<1>4. ASSUME NEW c \in Clients, StoreContent(c) PROVE Goal
  <2> DEFINE o == Object(c).oid
  <2>1. ASSUME Matches(c) PROVE o \in Oids /\ meta[o] = TrueSize[o]
    BY <1>4, <2>1 DEF StoreContent, At, Matches, ControlInv, KnowsInv, Knows
  <2>2. UNCHANGED meta /\ (UNCHANGED stored \/ (Matches(c) /\ Keep(o)))
    BY <1>4 DEF StoreContent
  <2> QED
    BY <1>0, <1>1, <1>2, <2>1, <2>2
<1>5. ASSUME NEW c \in Clients, HandlerStep(c), ~(stage[c] = "write" /\ Record(c)), ~StoreContent(c)
      PROVE  Goal
  BY <1>0, <1>1, <1>5, HandlerWrites DEF contents
<1>6. ASSUME NEW c \in Clients, Serve(c) \/ Postpone(c) \/ Lapse(c) PROVE Goal
  BY <1>1, <1>6 DEF Serve, NotRouted, Arrive, Postpone, Lapse, stores, contents, limits
<1>7. ASSUME NEW o \in Oids, Land(o) PROVE Goal
  <2>1. meta[o] = TrueSize[o] /\ UNCHANGED meta /\ aborts' = aborts
    BY <1>7 DEF Land, RealInv, limits
  <2> QED
    BY <1>1, <1>2, <1>7, <2>1 DEF Land
<1>8. CASE Crash \/ UNCHANGED vars
  BY <1>1, <1>8 DEF Crash, vars, stores, contents, limits
<1> QED
  BY <1>3, <1>4, <1>5, <1>6, <1>7, <1>8 DEF Moved, Moves

\* The object an answer is about.
About(c) == IF todo[c] = << >> THEN "" ELSE Object(c).oid

\* 202 and 404 are due, and so is 200 to a POST.
Due(c, status) ==
    LET o == About(c) IN
    /\ status \in {202, 404} /\ o \in Oids /\ UNCHANGED aborts => ~stored'[o]
    /\ status = 404 /\ o \in Oids /\ handler[c] # "content" /\ UNCHANGED aborts => meta'[o] = None
    /\ status = 200 /\ handler[c] = "post" /\ (Lossy \/ UNCHANGED aborts) =>
         o \in Oids /\ stored'[o]

\* A handler answers so only where it is due.
LEMMA Verdicts ==
  ASSUME TypeOK, ControlInv, BackedInv, AloneInv, NEW c \in Clients, HandlerStep(c)
  PROVE  UNCHANGED reply \/ \E status, objs : Answer(c, status, objs) /\ Due(c, status)
<1> DEFINE Judged == \E status, objs : Answer(c, status, objs) /\ Due(c, status)
           Goal   == UNCHANGED reply \/ Judged
<1> SUFFICES Goal
  OBVIOUS
<1>1. ASSUME NEW status, NEW objs, Answer(c, status, objs), status \notin {202, 404},
             status = 200 => handler[c] # "post"
      PROVE  Judged
  BY <1>1 DEF Due
<1>2. \A s : Goto(c, s) => UNCHANGED reply
  BY DEF Goto
<1>3. \A objs : NextObject(c, objs) => UNCHANGED reply
  BY DEF NextObject
<1>4. \A o \in Oids : meta[o] = None => ~stored[o]
  BY DEF BackedInv
<1>f. ASSUME Fault, NEW status \in {202, 404} PROVE Due(c, status)
  <2>1. aborts' # aborts
    BY <1>f, TypeParts, BoundsAssumption DEF Fault, LimitsOK
  <2> QED
    BY <1>f, <2>1 DEF Due
<1>5. ASSUME Denied(c), UNCHANGED stores, todo[c] # << >> PROVE Judged
  <2>1. CASE Auth(c) /\ ~Found(c)
    <3>1. Lookup(Object(c).oid) = None
      BY <2>1 DEF Found
    <3>2. ASSUME About(c) \in Oids PROVE meta[About(c)] = None
      BY <1>5, <3>1, <3>2 DEF Lookup, About
    <3>3. Due(c, 404)
      BY <1>4, <1>5, <3>2 DEF Due, stores, contents
    <3>4. Answer(c, 404, << >>)
      BY <1>5, <2>1 DEF Denied
    <3> QED
      BY <3>3, <3>4
  <2>2. CASE ~Auth(c)
    <3>1. Answer(c, 401, << >>)
      BY <1>5, <2>2 DEF Denied, Found
    <3> QED
      BY <1>1, <3>1
  <2>3. CASE Found(c)
    BY <1>f, <1>5, <2>3 DEF Denied
  <2> QED
    BY <2>1, <2>2, <2>3
<1> HIDE DEF Judged
<1>6. CASE GetContentHandler(c) \/ GetSearchHandler(c) \/ GetMetaHandler(c) \/ PutHandler(c)
  <2>1. todo[c] # << >> /\ handler[c] # "post" /\ UNCHANGED stores
    BY <1>6 DEF GetContentHandler, GetSearchHandler, GetMetaHandler, PutHandler, At, ControlInv
  <2>2. \/ Denied(c) \/ (\E s : Goto(c, s)) \/ (\E objs : Answer(c, 200, objs))
    BY <1>6 DEF GetContentHandler, GetSearchHandler, GetMetaHandler, PutHandler
  <2> QED
    BY <1>1, <1>2, <1>5, <2>1, <2>2
<1>7. CASE SendContent(c)
  <2>1. handler[c] = "content" /\ UNCHANGED stored /\ todo[c] # << >>
    BY <1>7 DEF SendContent, At, stores, contents, ControlInv
  <2>2. ASSUME ~stored[Object(c).oid] PROVE Due(c, 404)
    BY <2>1, <2>2 DEF Due, About
  <2>3. \/ stored[Object(c).oid] /\ Answer(c, 200, << >>)
        \/ ~stored[Object(c).oid] /\ Answer(c, 404, << >>)
        \/ Fault /\ Answer(c, 404, << >>)
    BY <1>7 DEF SendContent
  <2> QED
    BY <1>1, <1>f, <2>1, <2>2, <2>3 DEF Judged
<1>8. CASE StoreContent(c) \/ StoreFails(c) \/ PutDone(c) \/ PutLost(c)
  <2>1. handler[c] = "put"
    BY <1>8 DEF StoreContent, StoreFails, PutDone, PutLost, At
  <2> QED
    BY <1>1, <1>2, <1>8, <2>1 DEF StoreContent, StoreFails, PutDone, PutLost
<1>9. CASE BatchGet(c) \/ BatchDone(c)
  <2>1. handler[c] = "batch"
    BY <1>9 DEF BatchGet, BatchDone, At
  <2> QED
    BY <1>1, <1>2, <1>3, <1>9, <2>1 DEF BatchGet, BatchDone
<1>10. CASE PutBegin(c) \/ PutLookup(c)
  BY <1>1, <1>2, <1>3, <1>10 DEF PutBegin, PutLookup, PutRefused
<1>11. CASE PutWrite(c)
  <2>1. todo[c] # << >>
    BY <1>11 DEF PutWrite, ControlInv, At
  <2>2. CASE Object(c).oid = ""
    <3>1. About(c) \notin Oids
      BY <2>1, <2>2, NamesAssumption DEF About
    <3>2. Due(c, 404)
      BY <3>1 DEF Due
    <3> QED
      BY <1>3, <1>11, <2>2, <3>2 DEF PutWrite, PutRefused, Judged
  <2>3. CASE Object(c).oid # ""
    <3>1. UNCHANGED stored
      BY <1>11 DEF PutWrite, contents
    <3>2. ASSUME About(c) \in Oids PROVE ~stored[About(c)]
      <4>1. Writing(c, About(c))
        BY <1>11, <2>1 DEF PutWrite, Writing, About
      <4> QED
        BY <1>4, <3>2, <4>1 DEF AloneInv
    <3>3. Due(c, 202)
      BY <3>1, <3>2 DEF Due
    <3> QED
      BY <1>3, <1>11, <2>3, <3>3 DEF PutWrite, PutReturns, Judged
  <2> QED
    BY <2>2, <2>3
<1>12. CASE PutFails(c)
  <2>1. Due(c, 404)
    BY <1>f, <1>12 DEF PutFails
  <2>2. PutRefused(c, 404) \/ Panic(c)
    BY <1>12 DEF PutFails
  <2>3. UNCHANGED reply \/ Answer(c, 404, << >>)
    BY <1>3, <2>2 DEF PutRefused, Panic
  <2> QED
    BY <2>1, <2>3 DEF Judged
<1>13. CASE PutUnrecorded(c)
  <2>1. Due(c, 202)
    BY <1>f, <1>13 DEF PutUnrecorded
  <2>2. PICK objs : NextObject(c, objs) \/ Answer(c, 202, objs)
    <3>1. PutReturns(c)
      BY <1>13 DEF PutUnrecorded
    <3> QED
      BY <3>1 DEF PutReturns
  <2>3. UNCHANGED reply \/ Answer(c, 202, objs)
    BY <1>3, <2>2
  <2> QED
    BY <2>1, <2>3 DEF Judged
<1>14. CASE PostAnswer(c)
  <2>1. UNCHANGED stored /\ todo[c] # << >> /\ Object(c).oid \in Oids
    BY <1>14 DEF PostAnswer, At, stores, contents, ControlInv
  <2>2. PICK said, objs :
          Exists(c, said) /\ Answer(c, IF said THEN 200 ELSE 202, objs)
    BY <1>14 DEF PostAnswer
  <2>3. CASE said = stored[Object(c).oid]
    <3>1. Due(c, IF said THEN 200 ELSE 202)
      BY <2>1, <2>3 DEF Due, About
    <3> QED
      BY <2>2, <3>1 DEF Judged
  <2>4. CASE said = ~Lossy /\ Fault
    <3>1. aborts' # aborts
      BY <2>4, TypeParts, BoundsAssumption DEF Fault, LimitsOK
    <3>2. said => ~Lossy
      BY <2>4
    <3>3. Due(c, IF said THEN 200 ELSE 202)
      BY <3>1, <3>2 DEF Due
    <3> QED
      BY <2>2, <3>3 DEF Judged
  <2> QED
    BY <2>2, <2>3, <2>4 DEF Exists
<1> QED
  BY <1>6, <1>7, <1>8, <1>9, <1>10, <1>11, <1>12, <1>13, <1>14 DEF HandlerStep, Judged

\* What a handler tells its client is right when it says so.
LEMMA TellHandler ==
  ASSUME TypeOK, ControlInv, BackedInv, AloneInv, TypeOK', BackedInv', KnowsInv',
         NEW c \in Clients, HandlerStep(c)
  PROVE  UNCHANGED reply \/ LS!Tell(c)
<1>1. CASE UNCHANGED reply
  BY <1>1
<1>2. ASSUME NEW status, NEW objs, Answer(c, status, objs), Due(c, status)
      PROVE  LS!Tell(c)
  <2> DEFINE r == reply'[c]
  <2>0. LocalsOK /\ LocalsOK' /\ c \in DOMAIN reply
    <3>1. LocalsOK
      BY TypeParts
    <3>2. LocalsOK'
      BY DEF TypeOK, LocalsOK, Stages, Statuses
    <3>3. c \in DOMAIN reply
      BY <3>1 DEF LocalsOK
    <3> QED
      BY <3>1, <3>2, <3>3
  <2>1. r = [to |-> handler[c], status |-> status, objects |-> objs, oid |-> About(c)]
    BY <1>2, <2>0 DEF Answer, About
  <2>2. reply' = [reply EXCEPT ![c] = r]
    BY <1>2, <2>0 DEF Answer
  <2>3. r.to = handler[c] /\ r.status = status /\ r.oid = About(c)
    BY <2>1
  <2>4. r.objects \in Seq(Representations)
    BY <2>0 DEF LocalsOK
  <2>5. Told(meta', r.objects) /\ Backed(c)'
    BY DEF KnowsInv, Knows, BackedInv
  <2>6. r.status = 200 /\ r.to \in {"put", "content"} => r.oid \in Oids /\ stored'[r.oid]
    BY <2>5 DEF Backed, Assured, Claimed
  <2> HIDE DEF r
  <2>7. LS!Sized(r)
    <3> SUFFICES ASSUME NEW k \in DOMAIN r.objects
                 PROVE  r.objects[k].oid \in Oids /\ meta'[r.objects[k].oid] = r.objects[k].size
      BY DEF LS!Sized
    <3>1. r.objects[k] \in Representations
      BY <2>4
    <3> QED
      BY <2>5, <3>1 DEF Told, Representations
  <2>8. LS!Exact(r)
    BY <1>2, <2>3, <2>6 DEF Due, LS!Exact
  <2> QED
    BY <2>2, <2>7, <2>8 DEF LS!Tell, r
<1> QED
  BY <1>1, <1>2, Verdicts

\* The router, and a request that arrives, say nothing that could be wrong.
LEMMA TellRequest ==
  ASSUME LocalsOK, NEW c \in Clients, Serve(c)
  PROVE  LS!Tell(c)
<1> c \in DOMAIN reply
  BY DEF LocalsOK
<1>1. ASSUME /\ reply'[c].objects = << >> /\ reply'[c].oid \notin Oids
             /\ reply'[c].status # 200
      PROVE  LS!Sized(reply'[c]) /\ LS!Exact(reply'[c])
  <2>1. DOMAIN reply'[c].objects = {}
    BY <1>1
  <2>2. LS!Sized(reply'[c])
    BY <2>1 DEF LS!Sized
  <2>3. LS!Exact(reply'[c])
    BY <1>1 DEF LS!Exact
  <2> QED
    BY <2>2, <2>3
<1>2. CASE reply' = [reply EXCEPT ![c] = NoReply]
  <2>1. reply'[c].objects = << >> /\ reply'[c].oid = NoReply.oid /\ reply'[c].status = 0
    <3>1. reply'[c] = NoReply
      BY <1>2
    <3>2. NoReply.objects = << >> /\ NoReply.status = 0
      BY DEF NoReply
    <3> QED
      BY <3>1, <3>2
  <2>2. reply' = [reply EXCEPT ![c] = reply'[c]]
    BY <1>2
  <2>3. reply'[c].oid \notin Oids /\ reply'[c].status # 200
    <3>1. NoReply.oid = ""
      BY Zenon DEF NoReply
    <3>2. NoReply.oid \notin Oids
      BY <3>1, NamesAssumption, Zenon
    <3> QED
      BY <2>1, <3>2
  <2> QED
    BY <1>1, <2>1, <2>2, <2>3 DEF LS!Tell
<1>3. CASE reply' = [reply EXCEPT ![c] = NotFound]
  <2>1. reply'[c].objects = << >> /\ reply'[c].oid = NotFound.oid /\ reply'[c].status = 404
    <3>1. reply'[c] = NotFound
      BY <1>3
    <3>2. NotFound.objects = << >> /\ NotFound.status = 404
      BY DEF NotFound
    <3> QED
      BY <3>1, <3>2
  <2>2. reply' = [reply EXCEPT ![c] = reply'[c]]
    BY <1>3
  <2>3. reply'[c].oid \notin Oids /\ reply'[c].status # 200
    <3>1. NotFound.oid = ""
      BY Zenon DEF NotFound
    <3>2. NotFound.oid \notin Oids
      BY <3>1, NamesAssumption, Zenon
    <3> QED
      BY <2>1, <3>2
  <2> QED
    BY <1>1, <2>1, <2>2, <2>3 DEF LS!Tell
<1> QED
  BY <1>2, <1>3 DEF Serve, NotRouted, Arrive

\* One step of the server is one of the service, or nothing that clients see.
LEMMA ServiceStep ==
  ASSUME TypeOK, ControlInv, BackedInv, AloneInv, KnowsInv, RealInv,
         TypeOK', BackedInv', KnowsInv', [Moved]_vars
  PROVE  [LS!Next]_(LS!vars)
<1>1. LS!Effect /\ aborts' \in {aborts, aborts + 1}
  BY EffectNext
<1>2. UNCHANGED reply \/ \E c \in Clients : LS!Tell(c)
  <2>1. ASSUME NEW c \in Clients, HandlerStep(c) PROVE UNCHANGED reply \/ LS!Tell(c)
    BY <2>1, TellHandler
  <2>2. ASSUME NEW c \in Clients, Serve(c) PROVE LS!Tell(c)
    BY <2>2, TellRequest, TypeParts
  <2>3. ASSUME \/ \E c \in Clients : Postpone(c) \/ Lapse(c)
               \/ \E o \in Oids : Land(o)
               \/ Crash
               \/ UNCHANGED vars
        PROVE  UNCHANGED reply
    BY <2>3 DEF Postpone, Lapse, Land, Crash, vars
  <2> QED
    BY <2>1, <2>2, <2>3 DEF Moved, Moves
<1> QED
  BY <1>1, <1>2 DEF LS!Next

\* In calm behaviours clients see what LfsService promises: sizes recorded
\* once, content stored only where its size is on record, and answers that
\* are true when they are given.
THEOREM Refinement == Spec => Refines
<1>1. Init => LS!Init
  <2>1. NoReply.status = 0 /\ NoReply.objects = << >>
    BY DEF NoReply
  <2> QED
    BY <2>1 DEF Init, LS!Init
<1>2. /\ TypeOK /\ ControlInv /\ BackedInv /\ SizesInv
      /\ TypeOK' /\ BackedInv' /\ SizesInv' /\ [Next]_vars
      => [calm' => [LS!Next]_(LS!vars)]_vars
  <2> SUFFICES ASSUME TypeOK, ControlInv, BackedInv, SizesInv, TypeOK', BackedInv', SizesInv',
                      [Next]_vars, calm'
               PROVE  [LS!Next]_(LS!vars)
    OBVIOUS
  <2>1. calm
    BY DEF Next, vars
  <2> QED
    BY <2>1, NextMoves, ServiceStep DEF SizesInv
<1> QED
  BY <1>1, <1>2, TypeInit, TypeNext, BackedInit, BackedNext, SizesInit, SizesNext, NextMoves, PTL
     DEF Spec, Refines

-----------------------------------------------------------------------------
(* What the service is worth: LfsService by itself keeps its promises      *)

\* Stored content has its real size on record.
Sound == \A o \in Oids : stored[o] => meta[o] = TrueSize[o]

\* Nothing on record is replaced, and nothing stored is lost.
Lasting == \A o \in Oids :
    /\ meta[o] # None => meta'[o] = meta[o]
    /\ stored[o] => stored'[o]

LEMMA SoundNext ==
  ASSUME Sound, DOMAIN meta = Oids, DOMAIN stored = Oids, [LS!Next]_(LS!vars)
  PROVE  Sound' /\ Lasting /\ DOMAIN meta' = Oids /\ DOMAIN stored' = Oids
<1> DEFINE Goal == Sound' /\ Lasting /\ DOMAIN meta' = Oids /\ DOMAIN stored' = Oids
<1>1. \A o \in Oids : TrueSize[o] # None
  BY SizesAssumption, NoneAssumption
<1>2. ASSUME NEW o \in Oids, LS!Store(o) PROVE Goal
  BY <1>1, <1>2 DEF LS!Store, Sound, Lasting
<1>3. ASSUME NEW o \in Oids, NEW n, LS!Announce(o, n) PROVE Goal
  BY <1>1, <1>3 DEF LS!Announce, Sound, Lasting
<1>4. ASSUME UNCHANGED <<meta, stored>> PROVE Goal
  BY <1>4 DEF Sound, Lasting
<1>5. CASE LS!Next
  BY <1>2, <1>3, <1>4, <1>5 DEF LS!Next, LS!Effect
<1>6. CASE UNCHANGED LS!vars
  BY <1>4, <1>6 DEF LS!vars
<1> QED
  BY <1>5, <1>6

\* A service of which only the contract is known never replaces a size, never
\* loses content, and has the real size of what it has stored.
THEOREM Service == LS!Spec => []Sound /\ [][Lasting]_(LS!vars)
<1> DEFINE Inv == Sound /\ DOMAIN meta = Oids /\ DOMAIN stored = Oids
<1>1. LS!Init => Inv
  BY DEF LS!Init, Sound
<1>2. Inv /\ [LS!Next]_(LS!vars) => Inv' /\ [Lasting]_(LS!vars)
  BY SoundNext
<1> QED
  BY <1>1, <1>2, PTL DEF LS!Spec

=============================================================================
