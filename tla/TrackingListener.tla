-------------------------- MODULE TrackingListener --------------------------
(***************************************************************************)
(* Serving and graceful shutdown: TrackingListener (tracking_listener.go)   *)
(* and the three goroutines that main.go builds around it.                 *)
(*                                                                         *)
(* The main goroutine runs the accept loop of http.Serve and, when Accept  *)
(* fails for good, WaitForChildren; a goroutine per connection serves its  *)
(* requests and closes it; the signal goroutine closes the listener on     *)
(* SIGHUP.  With TLS configured, wrapHttps serves from the listener inside *)
(* the TrackingListener, whose Accept is then never called.                *)
(***************************************************************************)
EXTENDS Integers, FiniteSets

CONSTANTS
    Conns,        \* client connections
    TLS           \* TRUE if Config.IsHTTPS() and Config.UseTLS()

ASSUME ConnsAssumption == IsFiniteSet(Conns)
ASSUME TLSAssumption   == TLS \in BOOLEAN

VARIABLES
    main,      \* main goroutine: "serve", "accept", "wait" or "exited"
    wg,        \* counter of the WaitGroup
    socket,    \* the listening socket: "open" or "closed"
    hups,      \* signals in the channel of main, which holds one
    conn       \* conn[c]: "none", "queued", "active" or "closed"

vars == <<main, wg, socket, hups, conn>>

Init ==
    /\ main = "serve"
    /\ wg = 0
    /\ socket = "open"
    /\ hups = 0
    /\ conn = [c \in Conns |-> "none"]

Running == main # "exited"

\* wg.Add and wg.Done are reached only through the TrackingListener.
Track(n) == wg' = IF TLS THEN wg ELSE wg + n

-----------------------------------------------------------------------------
(* The main goroutine                                                      *)

\* http.Serve calls Accept, which counts before it blocks.
AcceptCall ==
    /\ main = "serve"
    /\ main' = "accept"
    /\ Track(1)
    /\ UNCHANGED <<socket, hups, conn>>

\* The inner Accept returns a connection; http.Serve starts its goroutine.
AcceptConn(c) ==
    /\ main = "accept"
    /\ socket = "open"
    /\ conn[c] = "queued"
    /\ conn' = [conn EXCEPT ![c] = "active"]
    /\ main' = "serve"
    /\ UNCHANGED <<wg, socket, hups>>

\* Accept fails for a while (no file descriptors): http.Serve tries again.
AcceptRetry ==
    /\ main = "accept"
    /\ socket = "open"
    /\ main' = "serve"
    /\ Track(-1)
    /\ UNCHANGED <<socket, hups, conn>>

\* Mutant: Accept counts up and does not count down when it fails.
AcceptClosedCounted ==
    /\ main = "accept"
    /\ socket = "closed"
    /\ main' = "wait"
    /\ UNCHANGED <<wg, socket, hups, conn>>

\* Accept fails because the socket is closed: http.Serve returns.
AcceptClosed ==
    /\ main = "accept"
    /\ socket = "closed"
    /\ main' = "wait"
    /\ Track(-1)
    /\ UNCHANGED <<socket, hups, conn>>

\* WaitForChildren returns, and main with it: the process exits.
WaitForChildren ==
    /\ main = "wait"
    /\ wg = 0
    /\ main' = "exited"
    /\ UNCHANGED <<wg, socket, hups, conn>>

-----------------------------------------------------------------------------
(* The other goroutines and the clients                                    *)

\* Mutant: Close counts down every time.
CloseTwice(c) ==
    /\ Running
    /\ conn[c] \in {"active", "closed"}
    /\ Track(-1)
    /\ conn' = [conn EXCEPT ![c] = "closed"]
    /\ UNCHANGED <<main, socket, hups>>

\* trackedConn.Close: counts down on the first call, whoever makes it; a
\* second Close of the same connection finds its once already done.
Close(c) ==
    /\ Running
    /\ conn[c] \in {"active", "closed"}
    /\ IF conn[c] = "active" THEN Track(-1) ELSE UNCHANGED wg
    /\ conn' = [conn EXCEPT ![c] = "closed"]
    /\ UNCHANGED <<main, socket, hups>>

\* A client connects: the kernel queues it until Accept.
Connect(c) ==
    /\ Running
    /\ socket = "open"
    /\ conn[c] = "none"
    /\ conn' = [conn EXCEPT ![c] = "queued"]
    /\ UNCHANGED <<main, wg, socket, hups>>

\* SIGHUP arrives; signal.Notify drops it if the channel is full.
Hangup ==
    /\ Running
    /\ hups' = 1
    /\ UNCHANGED <<main, wg, socket, conn>>

\* The signal goroutine: tl.Close(), which also resets queued connections.
\* Closing again changes nothing.
HandleHup ==
    /\ Running
    /\ hups = 1
    /\ hups' = 0
    /\ socket' = "closed"
    /\ conn' = [c \in Conns |-> IF conn[c] = "queued" THEN "closed" ELSE conn[c]]
    /\ UNCHANGED <<main, wg>>

Next ==
    \/ AcceptCall \/ AcceptRetry \/ AcceptClosed \/ WaitForChildren
    \/ \E c \in Conns : AcceptConn(c) \/ Close(c) \/ Connect(c)
    \/ Hangup \/ HandleHup

Spec == Init /\ [][Next]_vars

\* The scheduler runs every goroutine that can run.  Nothing is assumed of
\* clients and of the kernel: Connect, Close, AcceptConn, AcceptRetry and
\* Hangup are not fair.
FairSpec ==
    /\ Spec
    /\ WF_vars(AcceptCall) /\ WF_vars(AcceptClosed) /\ WF_vars(WaitForChildren)
    /\ WF_vars(HandleHup)

-----------------------------------------------------------------------------
(* Properties                                                              *)

\* Type correctness of the listener, its connections and main.
TypeOK ==
    /\ main \in {"serve", "accept", "wait", "exited"}
    /\ wg \in Int
    /\ socket \in {"open", "closed"}
    /\ hups \in 0 .. 1
    /\ conn \in [Conns -> {"none", "queued", "active", "closed"}]

Active == {c \in Conns : conn[c] = "active"}

\* The WaitGroup counts the open connections, and the Accept in progress.
Balance ==
    ~TLS => wg = Cardinality(Active) + IF main = "accept" THEN 1 ELSE 0

\* The process exits only when every connection it accepted has finished.
GracefulExit == main = "exited" => Active = {}

\* A hangup closes the socket, and once the socket is closed and the clients
\* are gone the process does exit: no count is left over.
ShutdownCompletes ==
    /\ hups = 1 ~> socket = "closed"
    /\ (socket = "closed" /\ Active = {}) ~> main = "exited"

=============================================================================
