------------------------------ MODULE OkxFeed ------------------------------
(***************************************************************************)
(* OkxOrdersFeed (exchange/okx/okx_ws_client.cpp): the supervisor          *)
(* connects, logs in, subscribes to the orders channel, announces the      *)
(* connection to its handler (which reconciles) and reads, session after   *)
(* session; a pinger per session closes a connection that has gone silent; *)
(* stop() closes the session through a callback and joins the supervisor.  *)
(*                                                                         *)
(* The client lives on the supervisor's stack, and the pinger and the      *)
(* callback hold references to it.  close() of the library marks the       *)
(* client, sends a close frame and reads for itself; it does not wake a    *)
(* read of another thread, which ends when the venue answers the frame,    *)
(* the connection ends, or its own timeout has passed.                     *)
(*                                                                         *)
(* Time passes in ping intervals; what a thread can do at once it does     *)
(* within the interval.  The content of frames is left out.                *)
(***************************************************************************)
EXTENDS Naturals

CONSTANTS
    Patience,     \* max_missed_pongs + 1
    ReadTimeout,  \* the library's limit of a read, which run_session leaves as it is
    MaxInbox      \* bound: frames on their way

ASSUME FeedAssumption == Patience \in Nat /\ ReadTimeout \in Nat \ {0} /\ MaxInbox \in Nat \ {0}

VARIABLES
    sup,      \* where the supervisor is
    client,   \* "none", "new" until it is connected, "open", "closed"
    closer,   \* close_active_session_ is set
    pinger,   \* "none", "asleep", "awake" after an interval, or "ended"
    quiet,    \* intervals since last_inbound_ms, as the pinger sees them
    waited,   \* intervals that the read has been blocked
    link,     \* "good", "mute": the venue sends no messages but answers a close,
              \* "dead": half-open, nothing comes in any more, or "lost"
    asked,    \* the venue has a ping to answer
    inbox,    \* frames on their way
    told,     \* the event the handler was told last
    stopper   \* where stop() is

supervisor == <<sup, client, closer, told>>
keepalive == <<pinger, quiet, waited>>
wire == <<link, asked, inbox>>
vars == <<supervisor, keepalive, wire, stopper>>

\* Types of every variable; the pinger's patience and a read are limited.
TypeOK ==
    /\ sup \in {"idle", "connect", "login", "subscribe", "announce", "loop", "read",
                "close", "join", "over", "return", "sleep", "exited"}
    /\ client \in {"none", "new", "open", "closed"}
    /\ closer \in BOOLEAN
    /\ pinger \in {"none", "asleep", "awake", "ended"}
    /\ quiet \in 0..(Patience + 1) /\ waited \in 0..ReadTimeout
    /\ link \in {"good", "mute", "dead", "lost"} /\ asked \in BOOLEAN /\ inbox \in 0..MaxInbox
    /\ told \in {"Connected", "Disconnected", "Stopped"}
    /\ stopper \in {"running", "close", "join", "stopped"}

Init ==
    /\ sup = "idle" /\ client = "none" /\ closer = FALSE /\ told = "Disconnected"
    /\ pinger = "none" /\ quiet = 0 /\ waited = 0
    /\ link = "good" /\ asked = FALSE /\ inbox = 0
    /\ stopper = "running"

stop_requested == stopper # "running"

-----------------------------------------------------------------------------
(* The supervisor: reconnect_loop, run_session *)

Opens ==
    /\ sup \in {"idle", "sleep"} /\ ~stop_requested
    /\ sup' = "connect" /\ client' = "new" /\ closer' = TRUE
    /\ link' = "good" /\ asked' = FALSE /\ inbox' = 0
    /\ UNCHANGED <<told, keepalive, stopper>>

Connects ==
    /\ sup = "connect"
    /\ \/ client' = "open" /\ sup' = "login"
       \/ sup' = "over" /\ UNCHANGED client
    /\ UNCHANGED <<closer, told, keepalive, wire, stopper>>

\* Each request of the handshake is answered as it should be, or else
\* refused, or not answered before the read times out.
HandshakeGoesOn ==
    /\ client = "open" /\ link = "good"
    /\ \/ sup = "login" /\ sup' = "subscribe"
       \/ sup = "subscribe" /\ sup' = "announce"
    /\ UNCHANGED <<client, closer, told, keepalive, wire, stopper>>

HandshakeFails ==
    /\ sup \in {"login", "subscribe"}
    /\ sup' = "over"
    /\ UNCHANGED <<client, closer, told, keepalive, wire, stopper>>

\* The handler has reconciled, on this thread; the pinger starts.
Announces ==
    /\ sup = "announce"
    /\ sup' = "loop" /\ told' = "Connected"
    /\ pinger' = "asleep" /\ quiet' = 0 /\ waited' = 0
    /\ UNCHANGED <<client, closer, wire, stopper>>

\* Faulty variant: the loop only ends with the connection.
ReadsOn ==
    /\ sup = "loop" /\ client = "open"
    /\ sup' = "read" /\ waited' = 0
    /\ UNCHANGED <<client, closer, told, pinger, quiet, wire, stopper>>

\* The read loop: the stop token is looked at, then the read blocks.
Reads ==
    /\ sup = "loop" /\ ~stop_requested /\ client = "open"
    /\ sup' = "read" /\ waited' = 0
    /\ UNCHANGED <<client, closer, told, pinger, quiet, wire, stopper>>

\* A pong, a ping or a push of order data, which goes to the report handler.
FrameRead ==
    /\ sup = "read" /\ inbox > 0
    /\ sup' = "loop" /\ inbox' = inbox - 1 /\ quiet' = 0
    /\ UNCHANGED <<client, closer, told, pinger, waited, link, asked, stopper>>

\* A blocked read returns: the connection has ended, the venue has answered the
\* close frame that close() has sent, or the timeout has passed.
ReadFails ==
    /\ sup = "read"
    /\ \/ link = "lost"
       \/ client = "closed" /\ link # "dead"
       \/ waited = ReadTimeout

\* A read of a closed client fails at once.
ReadEnds ==
    /\ \/ sup = "loop" /\ (stop_requested \/ client = "closed")
       \/ ReadFails
    /\ sup' = "close"
    /\ UNCHANGED <<client, closer, told, keepalive, wire, stopper>>

\* Faulty variant: the pinger is not waited for.
ClosesWithoutJoin ==
    /\ sup = "close"
    /\ sup' = "over" /\ client' = "closed"
    /\ UNCHANGED <<closer, told, keepalive, wire, stopper>>

\* The pinger is told to stop, the client is closed and the pinger joined.
Closes ==
    /\ sup = "close"
    /\ sup' = "join" /\ client' = "closed"
    /\ UNCHANGED <<closer, told, keepalive, wire, stopper>>

JoinsPinger ==
    /\ sup = "join" /\ pinger = "ended"
    /\ sup' = "over" /\ pinger' = "none" /\ quiet' = 0 /\ waited' = 0
    /\ UNCHANGED <<client, closer, told, wire, stopper>>

\* Under session_mutex_ the callback goes, then the client with the stack.
CallbackReset ==
    /\ sup = "over"
    /\ sup' = "return" /\ closer' = FALSE
    /\ UNCHANGED <<client, told, keepalive, wire, stopper>>

SessionOver ==
    /\ sup = "return"
    /\ client' = "none"
    /\ IF stop_requested THEN sup' = "exited" /\ told' = "Stopped"
                         ELSE sup' = "sleep"  /\ told' = "Disconnected"
    /\ UNCHANGED <<closer, keepalive, wire, stopper>>

Exits ==
    /\ sup \in {"idle", "sleep"} /\ stop_requested
    /\ sup' = "exited" /\ told' = "Stopped"
    /\ UNCHANGED <<client, closer, keepalive, wire, stopper>>

Supervisor ==
    \/ Opens \/ Connects \/ HandshakeGoesOn \/ HandshakeFails \/ Announces
    \/ Reads \/ FrameRead \/ ReadEnds
    \/ Closes \/ JoinsPinger \/ CallbackReset \/ SessionOver \/ Exits

-----------------------------------------------------------------------------
(* run_pinger, woken after an interval or by the end of the session *)

PingerStops ==
    /\ pinger \in {"asleep", "awake"} /\ sup = "join"
    /\ pinger' = "ended"
    /\ UNCHANGED <<supervisor, quiet, waited, wire, stopper>>

\* Faulty variant: the watchdog leaves the connection as it is.
WatchdogGivesUp ==
    /\ pinger = "awake" /\ sup # "join" /\ quiet > Patience
    /\ pinger' = "ended"
    /\ UNCHANGED <<supervisor, quiet, waited, wire, stopper>>

\* The watchdog.
WatchdogFires ==
    /\ pinger = "awake" /\ sup # "join" /\ quiet > Patience
    /\ pinger' = "ended"
    /\ client' = "closed"
    /\ UNCHANGED <<sup, closer, told, quiet, waited, wire, stopper>>

\* Faulty variant: patience has no end.
PingsForever ==
    /\ pinger = "awake" /\ sup # "join"
    /\ \/ client = "open" /\ pinger' = "asleep" /\ asked' = (link = "good")
       \/ (client = "closed" \/ link = "lost") /\ pinger' = "ended" /\ UNCHANGED asked
    /\ UNCHANGED <<supervisor, quiet, waited, link, inbox, stopper>>

\* The ping is sent, or sending fails.
Pings ==
    /\ pinger = "awake" /\ sup # "join" /\ quiet <= Patience
    /\ \/ client = "open" /\ pinger' = "asleep" /\ asked' = (link = "good")
       \/ (client = "closed" \/ link = "lost") /\ pinger' = "ended" /\ UNCHANGED asked
    /\ UNCHANGED <<supervisor, quiet, waited, link, inbox, stopper>>

Pinger == PingerStops \/ WatchdogFires \/ Pings

\* An interval passes, in a read or while a frame is being handled.  The
\* pinger has acted on the last one, and no read is about to fail.
IntervalPasses ==
    /\ sup \in {"loop", "read"} /\ pinger # "awake" /\ ~ReadFails
    /\ pinger # "ended" \/ sup = "read"
    /\ IF pinger = "asleep" THEN pinger' = "awake" /\ quiet' = quiet + 1
                            ELSE UNCHANGED <<pinger, quiet>>
    /\ waited' = IF sup = "read" THEN waited + 1 ELSE waited
    /\ UNCHANGED <<supervisor, wire, stopper>>

-----------------------------------------------------------------------------
(* The venue and the network (external) *)

VenuePongs ==
    /\ link = "good" /\ asked /\ inbox < MaxInbox
    /\ asked' = FALSE /\ inbox' = inbox + 1
    /\ UNCHANGED <<supervisor, keepalive, link, stopper>>

VenuePushes ==
    /\ client = "open" /\ link = "good" /\ sup \in {"announce", "loop", "read"}
    /\ inbox < MaxInbox
    /\ inbox' = inbox + 1
    /\ UNCHANGED <<supervisor, keepalive, link, asked, stopper>>

\* The venue sends nothing any more, or nothing of it arrives.
GoesSilent ==
    /\ client = "open"
    /\ \/ link = "good" /\ link' = "mute"
       \/ link \in {"good", "mute"} /\ link' = "dead"
    /\ asked' = FALSE
    /\ UNCHANGED <<supervisor, keepalive, inbox, stopper>>

ConnectionLost ==
    /\ client \in {"open", "closed"} /\ link # "lost"
    /\ link' = "lost" /\ asked' = FALSE
    /\ UNCHANGED <<supervisor, keepalive, inbox, stopper>>

-----------------------------------------------------------------------------
(* stop() *)

StopRequested ==
    /\ stopper = "running"
    /\ stopper' = "close"
    /\ UNCHANGED <<supervisor, keepalive, wire>>

\* Under session_mutex_; a client that is not connected yet is not affected.
StopCloses ==
    /\ stopper = "close"
    /\ stopper' = "join"
    /\ client' = IF closer /\ client = "open" THEN "closed" ELSE client
    /\ UNCHANGED <<sup, closer, told, keepalive, wire>>

StopJoins ==
    /\ stopper = "join" /\ sup = "exited"
    /\ stopper' = "stopped"
    /\ UNCHANGED <<supervisor, keepalive, wire>>

-----------------------------------------------------------------------------
Next ==
    \/ Supervisor
    \/ Pinger
    \/ IntervalPasses
    \/ VenuePongs \/ VenuePushes \/ GoesSilent \/ ConnectionLost
    \/ StopRequested \/ StopCloses \/ StopJoins

Spec == Init /\ [][Next]_vars

\* The threads run and time passes; every read has the library's timeout.
\* Nothing is assumed of the venue, and nobody has to call stop().
FairSpec ==
    /\ Spec
    /\ WF_vars(Supervisor)
    /\ WF_vars(Pinger)
    /\ WF_vars(IntervalPasses)
    /\ WF_vars(StopCloses \/ StopJoins)

-----------------------------------------------------------------------------
(* Properties *)

\* Nobody is left with a reference to a client that is gone: not stop(),
\* through the callback, and not the pinger.
ClientOutlivesUsers == closer \/ pinger \in {"asleep", "awake"} => client # "none"

\* On a connection that works, no read outlasts the pinger's patience,
\* (max_missed_pongs + 1) * ping_interval and the interval in which that is
\* noticed: a venue that sends nothing is given up, whatever was on its way
\* before and however long the handler took (run_pinger).
SilenceNoticed == sup = "read" /\ link \in {"good", "mute"} => waited <= Patience + 1

\* The same of every connection, which is what okx_ws_client.cpp:35-38 and
\* okx_ws_client.hpp:49 say.  It fails on a half-open one: close() does not end
\* the read, whose timeout run_session does not set.
DeadLinkNoticed == sup = "read" => waited <= Patience + 1

\* The feed is idle: its threads have ended, the client is gone and the
\* handler has been told.
StopIsClean == sup = "exited" /\ pinger = "none" /\ client = "none" /\ ~closer /\ told = "Stopped"

\* stop() returns, at whatever moment of a session it is called, and leaves the
\* feed idle for good.
StopEnds == stopper = "close" ~> [](stopper = "stopped" /\ StopIsClean)

=============================================================================
