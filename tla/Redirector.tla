----------------------------- MODULE Redirector -----------------------------
(***************************************************************************)
(* The lifecycle of a Redirector (redirector.py): a thread that makes an   *)
(* asyncio loop, sets the listeners up, serves, and shuts them down when   *)
(* the loop is told to stop.  start() and stop() run on the GTK thread and *)
(* are steps of the caller, in Routing.                                    *)
(***************************************************************************)
EXTENDS Naturals, Sequences

VARIABLES
    thread,     \* where _run is
    loop,       \* the attribute loop is not None
    loopOpen,   \* the asyncio loop exists and is not closed
    stopping,   \* loop.stop is scheduled
    listeners   \* those of its listeners that are open

redirVars == <<thread, loop, loopOpen, stopping, listeners>>

\* "starting" has not made its loop yet; in "failed" the exception of _setup is in
\* _error; _ready is set from "serving" and "failed" on.
ThreadStates ==
    {"none", "starting", "setup", "serving", "shutdown", "failed", "ended"}

\* For the redirected connections, and for lookups by TCP and by UDP.
Listeners == {"tcp", "dns", "udp"}

RedirTypeOK ==
    /\ thread \in ThreadStates
    /\ {loop, loopOpen, stopping} \subseteq BOOLEAN
    /\ listeners \subseteq Listeners

RedirInit ==
    /\ thread = "none"
    /\ loop = FALSE /\ loopOpen = FALSE /\ stopping = FALSE /\ listeners = {}

Ready == thread \in {"serving", "shutdown", "failed", "ended"}

\* Thread.is_alive
AliveThread == thread \notin {"none", "failed", "ended"}

-----------------------------------------------------------------------------
(* _run, on its own thread *)

MakeLoop ==
    /\ thread = "starting"
    /\ thread' = "setup"
    /\ loop' = TRUE
    /\ loopOpen' = TRUE
    /\ UNCHANGED <<stopping, listeners>>

\* _setup opens one listener after the other.  When one cannot be opened _run
\* returns: nobody closes those that are, nor the loop.
SetUp ==
    /\ thread = "setup"
    /\ \/ /\ listeners' = CASE "tcp" \notin listeners -> {"tcp"}
                             [] listeners = {"tcp"}    -> {"tcp", "dns"}
                             [] OTHER                  -> Listeners
          /\ thread' = IF listeners' = Listeners THEN "serving" ELSE "setup"
       \/ thread' = "failed" /\ UNCHANGED listeners
    /\ UNCHANGED <<loop, loopOpen, stopping>>

LeaveLoop ==
    /\ thread = "serving"
    /\ stopping
    /\ thread' = "shutdown"
    /\ UNCHANGED <<loop, loopOpen, stopping, listeners>>

\* Mutant: only the loop is closed.
ShutdownLoopOnly ==
    /\ thread = "shutdown"
    /\ thread' = "ended"
    /\ loopOpen' = ~loop
    /\ UNCHANGED <<loop, stopping, listeners>>

\* The TCP listeners first.  close() of the UDP transport only schedules the
\* closing, and the loop does not run again: the socket goes when the garbage
\* collector takes it.  Then self.loop.close(), which raises when stop() has set the
\* attribute to None already.
Shutdown ==
    /\ thread = "shutdown"
    /\ thread' = "ended"
    /\ listeners' = listeners \cap {"udp"}
    /\ loopOpen' = ~loop
    /\ UNCHANGED <<loop, stopping>>

ThreadStep == MakeLoop \/ SetUp \/ LeaveLoop \/ Shutdown

-----------------------------------------------------------------------------
(* Steps of the caller *)

StartThread ==
    /\ thread' = "starting"
    /\ UNCHANGED <<loop, loopOpen, stopping, listeners>>

\* stop(), up to the join.
AskToStop ==
    /\ stopping' = loop
    /\ UNCHANGED <<thread, loop, loopOpen, listeners>>

\* stop(), after the join or when that took too long.
ForgetLoop ==
    /\ loop' = FALSE
    /\ UNCHANGED <<thread, loopOpen, stopping, listeners>>

\* The process is gone, and its threads and sockets with it.
ThreadLost ==
    /\ thread' = IF thread = "none" THEN "none" ELSE "ended"
    /\ loop' = FALSE /\ loopOpen' = FALSE /\ stopping' = FALSE /\ listeners' = {}
=============================================================================
