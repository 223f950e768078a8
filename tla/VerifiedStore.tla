--------------------------- MODULE VerifiedStore ----------------------------
(***************************************************************************)
(* What a content store promises the handlers of server.go, whatever it    *)
(* keeps the contents in: an upload takes effect in one step or not at     *)
(* all, only content that matches its metadata is ever visible, success is *)
(* reported only for an upload that took effect, and a download streams    *)
(* what was stored when it was opened.                                     *)
(*                                                                         *)
(* A store on the local disk also says so when an upload has taken effect. *)
(* A remote one is Lossy: an upload it reports as failed may have taken     *)
(* effect, or may take effect later.                                       *)
(***************************************************************************)
EXTENDS Sequences

CONSTANTS
    Uploads, Downloads, Oids, Sizes,
    Sha256(_),
    Absent,       \* no content
    Lossy         \* TRUE for a store behind a network

VARIABLES
    blob,      \* blob[o]: the stored content of o, or Absent
    state,     \* state[u]: "idle", "busy" or "stored"
    oid, size, \* what upload u is about
    reply,     \* what the client of u was last told
    stream,    \* stream[r]: the content download r is sending, or Absent
    late       \* late[u]: a write of u that is still under way, or Absent

vars == <<blob, state, oid, size, reply, stream, late>>

Init ==
    /\ blob   = [o \in Oids |-> Absent]
    /\ state  = [u \in Uploads |-> "idle"]
    /\ oid    \in [Uploads -> Oids]
    /\ size   = [u \in Uploads |-> 0]
    /\ reply  = [u \in Uploads |-> "none"]
    /\ stream = [r \in Downloads |-> Absent]
    /\ late   = [u \in Uploads |-> Absent]

Begin(u, o, s) ==
    /\ state[u] = "idle"
    /\ state' = [state EXCEPT ![u] = "busy"]
    /\ oid'   = [oid EXCEPT ![u] = o]
    /\ size'  = [size EXCEPT ![u] = s]
    /\ reply' = [reply EXCEPT ![u] = "none"]
    /\ UNCHANGED <<blob, stream, late>>

\* The upload takes effect: some content with the right size and hash.
Commit(u) ==
    /\ state[u] = "busy"
    /\ blob'[oid[u]] # Absent
    /\ Len(blob'[oid[u]]) = size[u]
    /\ Sha256(blob'[oid[u]]) = oid[u]
    /\ blob'  = [blob EXCEPT ![oid[u]] = blob'[oid[u]]]
    /\ state' = [state EXCEPT ![u] = "stored"]
    /\ UNCHANGED <<oid, size, reply, stream, late>>

\* Success only for an upload that took effect; failure for the others, and
\* if the store is Lossy possibly for that one too.
End(u) ==
    /\ state[u] # "idle"
    /\ \E r \in {"ok", "error"} :
        /\ r = "ok" => state[u] = "stored"
        /\ r = "error" => Lossy \/ state[u] = "busy"
        /\ reply' = [reply EXCEPT ![u] = r]
    /\ state' = [state EXCEPT ![u] = "idle"]
    /\ size'  = [size EXCEPT ![u] = 0]
    /\ UNCHANGED <<blob, oid, stream, late>>

\* The store has the content, valid as for Commit, and will act on it later.
Postpone(u) ==
    /\ Lossy
    /\ state[u] = "busy"
    /\ late'[u] # Absent /\ late'[u].body # Absent
    /\ late'[u].oid = oid[u]
    /\ Len(late'[u].body) = size[u]
    /\ Sha256(late'[u].body) = oid[u]
    /\ late' = [late EXCEPT ![u] = late'[u]]
    /\ UNCHANGED <<blob, state, oid, size, reply, stream>>

\* The write that was under way arrives, or is lost.
Land(u) ==
    /\ late[u] # Absent
    /\ late' = [late EXCEPT ![u] = Absent]
    /\ \/ blob' = [blob EXCEPT ![late[u].oid] = late[u].body]
       \/ UNCHANGED blob
    /\ UNCHANGED <<state, oid, size, reply, stream>>

Fetch(r, o) ==
    /\ stream[r] = Absent
    /\ blob[o] # Absent
    /\ stream' = [stream EXCEPT ![r] = blob[o]]
    /\ UNCHANGED <<blob, state, oid, size, reply, late>>

Fetched(r) ==
    /\ stream[r] # Absent
    /\ stream' = [stream EXCEPT ![r] = Absent]
    /\ UNCHANGED <<blob, state, oid, size, reply, late>>

\* A restart ends what is in progress; uploads that took effect stay.
Restart ==
    /\ state'  = [u \in Uploads |-> "idle"]
    /\ size'   = [u \in Uploads |-> 0]
    /\ stream' = [r \in Downloads |-> Absent]
    /\ UNCHANGED <<blob, oid, reply, late>>

Next ==
    \/ \E u \in Uploads :
        \/ \E o \in Oids, s \in Sizes : Begin(u, o, s)
        \/ Commit(u)
        \/ End(u)
        \/ Postpone(u)
        \/ Land(u)
    \/ \E r \in Downloads : Fetched(r) \/ \E o \in Oids : Fetch(r, o)
    \/ Restart

Spec == Init /\ [][Next]_vars

=============================================================================
