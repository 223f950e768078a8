---------------------------- MODULE LfsOverStore ----------------------------
(***************************************************************************)
(* The handlers of server.go calling a content store of which they know    *)
(* no more than VerifiedStore says: an upload is a call that takes its     *)
(* time, in which the store commits, sends off or refuses the content as   *)
(* it sees fit, and a download streams while other requests are served.    *)
(*                                                                         *)
(* The variables of LfsServer are those of the handlers, and the picture   *)
(* LfsServer has of the store: stored, late and the stage "sent" follow    *)
(* what the store does and do not restrict it.                             *)
(***************************************************************************)
EXTENDS LfsServer

CONSTANTS
    Contents,     \* what clients send as the content of an object
    Sha256(_),
    Absent        \* no content

\* TrueSize is the size of the content that has the object id as its hash.
ASSUME ContentsAssumption ==
    /\ Absent \notin Contents
    /\ \A b \in Contents : Sha256(b) \in Oids => Len(b) = TrueSize[Sha256(b)]

VARIABLES
    blob,      \* blob[o]: the stored content of o, or Absent
    state,     \* state[c]: how far the upload of c is in the store
    oid, size, \* the metadata that Put was called with
    verdict,   \* what Put returned
    stream,    \* stream[c]: the content that c is being sent, or Absent
    pending    \* pending[c]: a write of c that is still under way, or Absent

store == <<blob, state, oid, size, verdict, stream, pending>>
wvars == <<vars, store>>

V == INSTANCE VerifiedStore WITH
        Uploads <- Clients, Downloads <- Clients, Sizes <- Sizes \cup {0},
        reply <- verdict, late <- pending

WholeInit == Init /\ V!Init

\* What LfsServer sees of the store.
Stored == [o \in Oids |-> blob[o] # Absent]
Late   == {pending[c].oid : c \in {d \in Clients : pending[d] # Absent}}
Shown  == stored' = Stored' /\ late' = Late'

-----------------------------------------------------------------------------
(* Steps of the handlers                                                   *)

\* The client sends its next request when it has got the content it asked for.
Ask(c) == stream[c] = Absent /\ Request(c) /\ UNCHANGED store

\* Store calls of the handlers that leave the contents alone.
Look(c) ==
    /\ \/ GetContentHandler(c) \/ GetSearchHandler(c) \/ GetMetaHandler(c)
       \/ BatchGet(c) \/ BatchDone(c) \/ PutBegin(c) \/ PutLookup(c) \/ PutWrite(c)
       \/ PutFails(c) \/ PutUnrecorded(c) \/ PostAnswer(c)
    /\ UNCHANGED store

\* Mutant: Put is given the size of the content, not the one on record.
CallPutAnySize(c) ==
    /\ PutHandler(c)
    /\ IF stage'[c] = "content"
       THEN V!Begin(c, Object(c).oid, TrueSize[Object(c).oid])
       ELSE UNCHANGED store

\* PutHandler calls contentStore.Put with the metadata it has found.
CallPut(c) ==
    /\ PutHandler(c)
    /\ IF stage'[c] = "content" THEN V!Begin(c, Object(c).oid, snap'[c]) ELSE UNCHANGED store

\* Put returns.  Content that does not match is no fault of the store.
Return(c) ==
    /\ V!End(c)
    /\ \/ verdict'[c] = "ok" /\ Answer(c, 200, << >>) /\ UNCHANGED limits
       \/ /\ verdict'[c] = "error"
          /\ Answer(c, 500, << >>)
          /\ (~Matches(c) /\ UNCHANGED limits) \/ Fault
    /\ UNCHANGED <<stores, access>>

\* Mutant: the handler goes on to io.Copy where Get has failed.
OpenAnyway(c) ==
    /\ SendContent(c)
    /\ IF blob[Object(c).oid] # Absent THEN V!Fetch(c, Object(c).oid) ELSE UNCHANGED store

\* GetContentHandler: contentStore.Get opens the content, io.Copy sends it.
Open(c) ==
    /\ SendContent(c)
    /\ IF reply'[c].status = 200 THEN V!Fetch(c, Object(c).oid) ELSE UNCHANGED store

Copied(c) == V!Fetched(c) /\ UNCHANGED vars

-----------------------------------------------------------------------------
(* Steps of the store                                                      *)

\* The body of the request is the content of the object, or something else.
Sends(c, b) == req[c].good = (Sha256(b) = Object(c).oid)

\* The upload takes effect, while PutHandler waits.
Commit(c) ==
    /\ state[c] = "busy"
    /\ \E b \in Contents : Sends(c, b) /\ blob' = [blob EXCEPT ![oid[c]] = b]
    /\ V!Commit(c)
    /\ stage' = [stage EXCEPT ![c] = "sent"]
    /\ Shown
    /\ UNCHANGED <<meta, access, handler, req, todo, snap, done, reply, limits>>

SendOff(c) ==
    /\ state[c] = "busy"
    /\ \E b \in Contents :
         Sends(c, b) /\ pending' = [pending EXCEPT ![c] = [oid |-> oid[c], body |-> b]]
    /\ V!Postpone(c)
    /\ Shown
    /\ UNCHANGED <<meta, access, locals, reply, limits>>

Arrives(c) ==
    /\ V!Land(c)
    /\ Shown
    /\ UNCHANGED <<meta, access, locals, reply, limits>>

WholeStep ==
    \/ \E c \in Clients :
        \/ Ask(c) \/ Look(c) \/ CallPut(c) \/ Return(c) \/ Open(c)
        \/ Commit(c) \/ SendOff(c) \/ Arrives(c)
        \/ Lapse(c) /\ UNCHANGED store
    \/ Crash /\ V!Restart

WholeNext ==
    \/ WholeStep /\ calm' = (calm /\ Calm)
    \/ \E c \in Clients : Copied(c)

WholeSpec == WholeInit /\ [][WholeNext]_wvars

-----------------------------------------------------------------------------
(* Properties                                                              *)

\* A handler has called Put, and it has not returned.
Waits(c) == At(c, "put", "content") \/ At(c, "put", "sent")

\* The handlers call Put only where no call of theirs is in the store, and
\* wait there until it returns: the store is never asked out of turn.
InTurn ==
    \A c \in Clients :
        /\ Waits(c) <=> state[c] # "idle"
        /\ stream[c] # Absent => stage[c] = "idle"

\* A download sends content whose hash is the id the client asked for.
Delivered ==
    \A c \in Clients : stream[c] # Absent =>
        /\ reply[c].to = "content" /\ reply[c].status = 200
        /\ Sha256(stream[c]) = reply[c].oid

\* 200 to an upload or to a POST: content with the hash the client named is
\* in the store now, unless POST asked a local store that could not look.
Vouched ==
    \A c \in Clients : Claimed(c) =>
        /\ blob[reply[c].oid] # Absent
        /\ Sha256(blob[reply[c].oid]) = reply[c].oid

\* As long as all steps are calm, the size on record of an object is that of
\* its content.
Measured == calm => \A o \in Oids : blob[o] # Absent => meta[o] = Len(blob[o])

=============================================================================
