--------------------------- MODULE OkxFeedProofs ---------------------------
(***************************************************************************)
(* The client of a session outlives everybody who holds a reference to it, *)
(* stop() leaves nothing behind and a venue that goes silent is given up,  *)
(* for any patience of the watchdog and any timeout of the library.        *)
(***************************************************************************)
EXTENDS OkxFeed, TLAPS

\* Between sessions there is no client, no callback and no pinger.
Between == {"idle", "sleep", "exited"}

\* Where the client is connected or has been.
Connected == {"login", "subscribe", "announce", "loop", "read", "close", "join"}

\* What a place of the supervisor says of the client and of its users.  The
\* pinger lives from the announcement to its join, the callback from the
\* publication of the client to its reset, and the client longer than both.
References ==
    /\ sup \in Between => client = "none"
    /\ sup \notin Between => client # "none"
    /\ sup = "connect" => client = "new"
    /\ sup \in Connected => client \in {"open", "closed"}
    /\ closer => sup \notin Between \cup {"return"}
    /\ pinger # "none" => sup \in {"loop", "read", "close", "join"}

\* The handler is told of the end before the supervisor has ended, and stop()
\* waits for that.
Ending ==
    /\ sup = "exited" => told = "Stopped" /\ stop_requested
    /\ stopper = "stopped" => sup = "exited"

\* While the loop runs, a pinger that has not ended sees at least the silence
\* that the read has seen, and acts on it before the next interval; one that
\* has ended leaves a connection that is closed or lost.
Watched ==
    /\ pinger = "asleep" => quiet <= Patience
    /\ sup \in {"loop", "read"} => pinger # "none"
    /\ sup \in {"loop", "read"} /\ pinger = "ended" => client = "closed" \/ link = "lost"
    /\ sup = "read" /\ pinger \in {"asleep", "awake"} => waited <= quiet

Inv == TypeOK /\ References /\ Ending /\ Watched /\ SilenceNoticed

\* When stop() has returned, the feed is idle.
StoppedClean == stopper = "stopped" => StopIsClean

-----------------------------------------------------------------------------

LEMMA InitInv == Init => Inv
<1> SUFFICES ASSUME Init PROVE Inv
  OBVIOUS
<1>1. closer \in BOOLEAN /\ asked \in BOOLEAN
  BY DEF Init
<1>2. quiet \in 0..(Patience + 1) /\ waited \in 0..ReadTimeout /\ inbox \in 0..MaxInbox
  BY FeedAssumption DEF Init
<1> QED
  BY <1>1, <1>2 DEF Init, Inv, TypeOK, References, Ending, Watched, SilenceNoticed,
            Between, Connected, stop_requested

\* A session from its first step to the announcement.
LEMMA HandshakeKeeps ==
    ASSUME Inv, Opens \/ Connects \/ HandshakeGoesOn \/ HandshakeFails \/ Announces
    PROVE  Inv'
<1> USE FeedAssumption
        DEF Inv, TypeOK, References, Ending, Watched, SilenceNoticed,
            Between, Connected, stop_requested, supervisor,
            keepalive, wire
<1>1. CASE Opens
  <2>1. closer' \in BOOLEAN /\ asked' \in BOOLEAN
    BY <1>1, Zenon DEF Opens
  <2>2. quiet' \in 0..(Patience + 1) /\ waited' \in 0..ReadTimeout /\ inbox' \in 0..MaxInbox
    BY <1>1 DEF Opens
  <2> QED
    BY <1>1, <2>1, <2>2 DEF Opens
<1>2. CASE Connects
  BY <1>2 DEF Connects
<1>3. CASE HandshakeGoesOn
  BY <1>3 DEF HandshakeGoesOn
<1>4. CASE HandshakeFails
  BY <1>4 DEF HandshakeFails
<1>5. CASE Announces
  BY <1>5 DEF Announces
<1> QED
  BY <1>1, <1>2, <1>3, <1>4, <1>5

\* The read loop and the end of a session.
LEMMA SessionKeeps ==
    ASSUME Inv,
           \/ Reads \/ FrameRead \/ ReadEnds \/ Closes \/ JoinsPinger
           \/ CallbackReset \/ SessionOver \/ Exits
    PROVE  Inv'
<1> USE FeedAssumption
        DEF Inv, TypeOK, References, Ending, Watched, SilenceNoticed,
            Between, Connected, stop_requested, supervisor,
            keepalive, wire
<1>1. CASE Reads
  BY <1>1 DEF Reads
<1>2. CASE FrameRead
  BY <1>2 DEF FrameRead
<1>3. CASE ReadEnds
  BY <1>3 DEF ReadEnds, ReadFails
<1>4. CASE Closes
  BY <1>4 DEF Closes
<1>5. CASE JoinsPinger
  BY <1>5 DEF JoinsPinger
<1>6. CASE CallbackReset
  BY <1>6 DEF CallbackReset
<1>7. CASE SessionOver
  BY <1>7 DEF SessionOver
<1>8. CASE Exits
  BY <1>8 DEF Exits
<1> QED
  BY <1>1, <1>2, <1>3, <1>4, <1>5, <1>6, <1>7, <1>8

LEMMA PingerKeeps ==
    ASSUME Inv, Pinger
    PROVE  Inv'
<1> USE FeedAssumption
        DEF Inv, TypeOK, References, Ending, Watched, SilenceNoticed,
            Between, Connected, stop_requested, supervisor,
            keepalive, wire
<1>1. CASE PingerStops
  BY <1>1 DEF PingerStops
<1>2. CASE WatchdogFires
  BY <1>2 DEF WatchdogFires
<1>3. CASE Pings
  <2>1. closer' \in BOOLEAN /\ asked' \in BOOLEAN
    BY <1>3, Zenon DEF Pings
  <2>2. quiet' \in 0..(Patience + 1) /\ waited' \in 0..ReadTimeout /\ inbox' \in 0..MaxInbox
    BY <1>3 DEF Pings
  <2> QED
    BY <1>3, <2>1, <2>2 DEF Pings
<1> QED
  BY <1>1, <1>2, <1>3 DEF Pinger

LEMMA TimeKeeps ==
    ASSUME Inv, IntervalPasses
    PROVE  Inv'
<1> USE FeedAssumption
        DEF Inv, TypeOK, References, Ending, Watched, SilenceNoticed,
            Between, Connected, stop_requested, supervisor, keepalive, wire
<1>1. CASE pinger = "asleep"
  BY <1>1 DEF IntervalPasses, ReadFails
<1>2. CASE pinger # "asleep"
  BY <1>2 DEF IntervalPasses, ReadFails
<1> QED
  BY <1>1, <1>2

\* The venue, the network and stop().
LEMMA OthersKeep ==
    ASSUME Inv,
           \/ VenuePongs \/ VenuePushes \/ GoesSilent \/ ConnectionLost
           \/ StopRequested \/ StopCloses \/ StopJoins
    PROVE  Inv'
<1> USE FeedAssumption
        DEF Inv, TypeOK, References, Ending, Watched, SilenceNoticed,
            Between, Connected, stop_requested, supervisor,
            keepalive, wire
<1>1. CASE VenuePongs
  <2>1. closer' \in BOOLEAN /\ asked' \in BOOLEAN
    BY <1>1, Zenon DEF VenuePongs
  <2>2. quiet' \in 0..(Patience + 1) /\ waited' \in 0..ReadTimeout /\ inbox' \in 0..MaxInbox
    BY <1>1 DEF VenuePongs
  <2> QED
    BY <1>1, <2>1, <2>2 DEF VenuePongs
<1>2. CASE VenuePushes
  BY <1>2 DEF VenuePushes
<1>3. CASE GoesSilent
  <2>1. asked' \in BOOLEAN /\ link' \in {"good", "mute", "dead", "lost"}
    BY <1>3, Zenon DEF GoesSilent
  <2>2. (link' \in {"good", "mute"} => link \in {"good", "mute"}) /\ (link = "lost" => link' = "lost")
    BY <1>3 DEF GoesSilent
  <2>3. UNCHANGED <<supervisor, keepalive, inbox, stopper>>
    BY <1>3 DEF GoesSilent
  <2> QED
    BY <2>1, <2>2, <2>3
<1>4. CASE ConnectionLost
  <2>1. asked' \in BOOLEAN /\ link' \in {"good", "mute", "dead", "lost"}
    BY <1>4, Zenon DEF ConnectionLost
  <2>2. (link' \in {"good", "mute"} => link \in {"good", "mute"}) /\ (link = "lost" => link' = "lost")
    BY <1>4 DEF ConnectionLost
  <2>3. UNCHANGED <<supervisor, keepalive, inbox, stopper>>
    BY <1>4 DEF ConnectionLost
  <2> QED
    BY <2>1, <2>2, <2>3
<1>5. CASE StopRequested
  BY <1>5 DEF StopRequested
<1>6. CASE StopCloses
  BY <1>6 DEF StopCloses
<1>7. CASE StopJoins
  BY <1>7 DEF StopJoins
<1> QED
  BY <1>1, <1>2, <1>3, <1>4, <1>5, <1>6, <1>7

LEMMA NextInv == Inv /\ [Next]_vars => Inv'
<1> SUFFICES ASSUME Inv, [Next]_vars
             PROVE  Inv'
  OBVIOUS
<1>1. CASE UNCHANGED vars
  BY <1>1 DEF vars, supervisor, keepalive, wire, Inv, TypeOK, References, Ending,
            Watched, SilenceNoticed, stop_requested
<1>2. CASE Next
  BY <1>2, HandshakeKeeps, SessionKeeps, PingerKeeps, TimeKeeps, OthersKeep DEF Next, Supervisor
<1> QED
  BY <1>1, <1>2

LEMMA Invariance == Spec => []Inv
BY InitInv, NextInv, PTL DEF Spec

-----------------------------------------------------------------------------

\* The types are kept: the watchdog's counter of quiet intervals never passes
\* its limit by more than one.
THEOREM TypeCorrect == Spec => []TypeOK
BY Invariance, PTL DEF Inv

\* Neither stop(), through the callback, nor the pinger ever uses a client
\* that has gone with the stack of run_session, whatever fails and whenever
\* stop() is called (okx_ws_client.cpp, run_session).
THEOREM NoDanglingClient == Spec => []ClientOutlivesUsers
<1>1. Inv => ClientOutlivesUsers
  BY DEF Inv, References, Between, ClientOutlivesUsers
<1> QED
  BY <1>1, Invariance, PTL

\* On a connection that works, no read outlasts the pinger's patience by more
\* than the interval in which that is noticed (run_pinger): the watchdog has
\* closed the client by then, whatever came in before and however often.
THEOREM SilenceBounded == Spec => []SilenceNoticed
BY Invariance, PTL DEF Inv

\* When stop() returns, no thread, client, callback or pinger is left, and the
\* handler has been told (OkxOrdersFeed::stop): the safety half of StopEnds.
THEOREM StopLeavesNothing == Spec => []StoppedClean
<1>1. Inv => StoppedClean
  BY DEF Inv, TypeOK, References, Ending, Between, StoppedClean, StopIsClean
<1> QED
  BY <1>1, Invariance, PTL

=============================================================================
