------------------------------ MODULE Handover ------------------------------
(***************************************************************************)
(* The lock on the BoltDB file (NewMetaStore in meta_store.go), between a   *)
(* server process that shuts down, the process started to replace it, and  *)
(* the search page (searchOidHandler in mgmt.go).                          *)
(*                                                                         *)
(* bolt.Open waits a second for the lock.  The server holds the lock from  *)
(* its start to its exit.  The search page opens the database again, so it *)
(* waits for a lock that its own process holds; the process, when it shuts *)
(* down, waits for the connection of the search.                           *)
(***************************************************************************)
EXTENDS TrackingListener

VARIABLES
    lock,       \* who has the database file: "server", "next" or "free"
    searching,  \* searching[c]: connection c waits in searchOidHandler
    next        \* the process that is to replace the server: "none",
                \* "opening" (it has the socket), "failed" or "serving"

hvars == <<vars, lock, searching, next>>

HInit ==
    /\ Init
    /\ lock = "server"
    /\ searching = [c \in Conns |-> FALSE]
    /\ next = "none"

-----------------------------------------------------------------------------
(* The server, with what its steps do to the lock and to searches          *)

\* The process exits; the kernel drops its lock and its goroutines are gone.
Exit ==
    /\ WaitForChildren
    /\ lock' = "free"
    /\ searching' = [c \in Conns |-> FALSE]
    /\ UNCHANGED next

Serve ==
    /\ \/ AcceptCall \/ AcceptRetry \/ AcceptClosed \/ Hangup \/ HandleHup
       \/ \E c \in Conns :
            AcceptConn(c) \/ Connect(c) \/ (~searching[c] /\ Close(c))
    /\ UNCHANGED <<lock, searching, next>>

\* A request for the search page.
SearchBegin(c) ==
    /\ Running
    /\ conn[c] = "active" /\ ~searching[c]
    /\ searching' = [searching EXCEPT ![c] = TRUE]
    /\ UNCHANGED <<vars, lock, next>>

\* Mutant: bolt.Open without Options waits for the lock as long as it takes.
SearchEndUntimed(c) ==
    /\ searching[c]
    /\ lock = "free"
    /\ Close(c)
    /\ searching' = [searching EXCEPT ![c] = FALSE]
    /\ UNCHANGED <<lock, next>>

\* The second is over.  The handler goes on with a nil store, and net/http
\* closes the connection of a handler that panics.
SearchEnd(c) ==
    /\ searching[c]
    /\ lock # "free"
    /\ Close(c)
    /\ searching' = [searching EXCEPT ![c] = FALSE]
    /\ UNCHANGED <<lock, next>>

-----------------------------------------------------------------------------
(* The next process: the first steps of main                               *)

\* NewTrackingListener gets the address once the server has closed its socket.
NextListen ==
    /\ socket = "closed"
    /\ next \in {"none", "failed"}
    /\ next' = "opening"
    /\ UNCHANGED <<vars, lock, searching>>

\* Mutant: the process goes on without the lock.
NextOpenUnlocked ==
    /\ next = "opening"
    /\ lock' = "next"
    /\ next' = "serving"
    /\ UNCHANGED <<vars, searching>>

\* FindMetaStore gets the lock.
NextOpen ==
    /\ next = "opening"
    /\ lock = "free"
    /\ lock' = "next"
    /\ next' = "serving"
    /\ UNCHANGED <<vars, searching>>

\* FindMetaStore does not get it in time: logger.Fatal.
NextGiveUp ==
    /\ next = "opening"
    /\ lock # "free"
    /\ next' = "failed"
    /\ UNCHANGED <<vars, lock, searching>>

HNext ==
    \/ Exit \/ Serve
    \/ \E c \in Conns : SearchBegin(c) \/ SearchEnd(c)
    \/ NextListen \/ NextOpen \/ NextGiveUp

HSpec == HInit /\ [][HNext]_hvars

\* As FairSpec, and the second of a search comes to its end.  Nobody has to
\* start the next process.
HFairSpec ==
    /\ HSpec
    /\ WF_hvars(Serve /\ AcceptCall) /\ WF_hvars(Serve /\ AcceptClosed)
    /\ WF_hvars(Exit) /\ WF_hvars(Serve /\ HandleHup)
    /\ \A c \in Conns : WF_hvars(SearchEnd(c))
    /\ WF_hvars(NextOpen \/ NextGiveUp)

-----------------------------------------------------------------------------
(* Properties                                                              *)

\* Type correctness of the listener, the lock, searches and the next process.
HTypeOK ==
    /\ TypeOK
    /\ lock \in {"server", "next", "free"}
    /\ searching \in [Conns -> BOOLEAN]
    /\ next \in {"none", "opening", "failed", "serving"}

\* The next process serves from the database only after the server has
\* finished every request it had accepted.
OneServer == next = "serving" => main = "exited" /\ Active = {}

\* A search that waits for the lock of its own process does not keep a server
\* that shuts down from exiting, although the exit waits for the search.
ExitDespiteSearch ==
    (socket = "closed" /\ \A c \in Active : searching[c]) ~> main = "exited"

=============================================================================
