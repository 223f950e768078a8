----------------------------- MODULE LfsService ------------------------------
(***************************************************************************)
(* What the server promises its clients while no two requests write the    *)
(* metadata of one object at a time, and none overlooks an object that is  *)
(* on record: a size per object that is recorded once, content that is     *)
(* stored only where its size is the one on record, and answers that agree *)
(* with both at the moment they are given.                                 *)
(*                                                                         *)
(* Nothing is said of how a request is served or of how long it takes: only *)
(* of what takes effect and of what clients are told.                      *)
(***************************************************************************)
EXTENDS Naturals, Sequences

CONSTANTS
    Clients,
    Oids,
    TrueSize,     \* the size of the content of an object
    Sizes,        \* sizes that clients declare
    None,         \* nothing on record
    Lossy         \* TRUE if the content store is behind a network

VARIABLES
    record,    \* record[o]: the size on record for o, or None
    stored,    \* stored[o]: whether the content of o is stored
    reply,     \* what each client was last told
    faults     \* how many calls of the stores have failed

vars == <<record, stored, reply, faults>>

Init ==
    /\ record = [o \in Oids |-> None]
    /\ stored = [o \in Oids |-> FALSE]
    /\ \A c \in Clients : reply[c].status = 0 /\ reply[c].objects = << >>
    /\ faults = 0

\* An object is announced: never one that is on record.
Announce(o, s) ==
    /\ record[o] = None
    /\ record' = [record EXCEPT ![o] = s]
    /\ UNCHANGED stored

\* Content is stored, only of the size on record.
Store(o) ==
    /\ record[o] = TrueSize[o]
    /\ stored' = [stored EXCEPT ![o] = TRUE]
    /\ UNCHANGED record

\* Every size in an answer is the one on record.
Sized(r) ==
    \A k \in DOMAIN r.objects :
        r.objects[k].oid \in Oids /\ record'[r.objects[k].oid] = r.objects[k].size

\* 200 to an upload or to a download: the content is stored.  200 to a POST:
\* so it is, unless this is a local store that could not look.  202 and 404:
\* it is not, and 404 to anything but a download: the object is not even on
\* record, unless a call of a store has failed in this step.
Exact(r) ==
    /\ r.status = 200 /\ r.to \in {"put", "content"} => r.oid \in Oids /\ stored'[r.oid]
    /\ r.status = 200 /\ r.to = "post" /\ (Lossy \/ UNCHANGED faults) =>
         r.oid \in Oids /\ stored'[r.oid]
    /\ r.status \in {202, 404} /\ r.oid \in Oids /\ UNCHANGED faults => ~stored'[r.oid]
    /\ r.status = 404 /\ r.oid \in Oids /\ r.to # "content" /\ UNCHANGED faults =>
         record'[r.oid] = None

\* A client is told something, which is right.
Tell(c) ==
    /\ reply' = [reply EXCEPT ![c] = reply'[c]]
    /\ Sized(reply'[c]) /\ Exact(reply'[c])

Effect ==
    \/ \E o \in Oids : Store(o) \/ \E s \in Sizes \cup {0} : Announce(o, s)
    \/ UNCHANGED <<record, stored>>

Next ==
    /\ Effect
    /\ UNCHANGED reply \/ \E c \in Clients : Tell(c)
    /\ faults' \in {faults, faults + 1}

Spec == Init /\ [][Next]_vars

=============================================================================
