---------------------------- MODULE WriteOnceMeta ----------------------------
(***************************************************************************)
(* What a meta store promises the handlers of server.go about the metadata  *)
(* of objects, whatever database it is kept in: GenericMetaStore is a       *)
(* write-once register per object.  Put records the metadata of an object   *)
(* that has none, in one step, or returns what is on record; Get returns    *)
(* what is on record.  A call may also fail, before or after it has         *)
(* recorded something.                                                     *)
(***************************************************************************)
EXTENDS Naturals

CONSTANTS
    Calls,      \* goroutines that call Get or Put
    Oids,       \* the objects that can be recorded
    Keys,       \* the names that callers ask for
    Metas,      \* metadata
    Failures,   \* how a call can fail
    None        \* nothing on record, nothing returned

VARIABLES
    record,     \* record[o]: the metadata of o, or None
    state,      \* state[c]: "idle", "busy", or "recorded" if Put has still to
                \* tell its caller
    op, key, meta,  \* what call c is about
    got,        \* what it returned
    out         \* how it ended

vars == <<record, state, op, key, meta, got, out>>

Init ==
    /\ record = [o \in Oids |-> None]
    /\ state = [c \in Calls |-> "idle"]
    /\ op \in [Calls -> {"get", "put"}]
    /\ key \in [Calls -> Keys]
    /\ meta \in [Calls -> Metas]
    /\ got = [c \in Calls |-> None]
    /\ out = [c \in Calls |-> "none"]

Recorded(o) == o \in Oids /\ record[o] # None

Call(c, f, o, m) ==
    /\ state[c] = "idle"
    /\ state' = [state EXCEPT ![c] = "busy"]
    /\ op'    = [op EXCEPT ![c] = f]
    /\ key'   = [key EXCEPT ![c] = o]
    /\ meta'  = [meta EXCEPT ![c] = m]
    /\ got'   = [got EXCEPT ![c] = None]
    /\ out'   = [out EXCEPT ![c] = "none"]
    /\ UNCHANGED record

Return(c, r, m) ==
    /\ state' = [state EXCEPT ![c] = "idle"]
    /\ out'   = [out EXCEPT ![c] = r]
    /\ got'   = [got EXCEPT ![c] = m]
    /\ UNCHANGED <<op, key, meta>>

\* Both return what is on record.
Found(c) ==
    /\ state[c] = "busy"
    /\ Recorded(key[c])
    /\ Return(c, IF op[c] = "put" THEN "existing" ELSE "found", record[key[c]])
    /\ UNCHANGED record

Missing(c) ==
    /\ state[c] = "busy"
    /\ op[c] = "get"
    /\ ~Recorded(key[c])
    /\ Return(c, "missing", None)
    /\ UNCHANGED record

\* Put takes effect: never for an object that has metadata.
Record(c) ==
    /\ state[c] = "busy"
    /\ op[c] = "put"
    /\ key[c] \in Oids /\ ~Recorded(key[c])
    /\ record' = [record EXCEPT ![key[c]] = meta[c]]
    /\ \/ Return(c, "new", meta[c])
       \/ state' = [state EXCEPT ![c] = "recorded"] /\ UNCHANGED <<op, key, meta, got, out>>

Confirm(c) ==
    /\ state[c] = "recorded"
    /\ Return(c, "new", meta[c])
    /\ UNCHANGED record

Fail(c) ==
    /\ state[c] # "idle"
    /\ \E r \in Failures : Return(c, r, None)
    /\ UNCHANGED record

\* A restart ends the calls in progress; what is on record stays.
Restart ==
    /\ state' = [c \in Calls |-> "idle"]
    /\ out'   = [c \in Calls |-> IF state[c] = "idle" THEN out[c] ELSE "none"]
    /\ UNCHANGED <<record, op, key, meta, got>>

Next ==
    \/ \E c \in Calls :
        \/ \E f \in {"get", "put"}, o \in Keys, m \in Metas : Call(c, f, o, m)
        \/ Found(c) \/ Missing(c) \/ Record(c) \/ Confirm(c) \/ Fail(c)
    \/ Restart

Spec == Init /\ [][Next]_vars

=============================================================================
