----------------------------- MODULE BinanceWs -----------------------------
(***************************************************************************)
(* BinanceWsClient (exchange/binance/binance_ws_client.cpp): requests,     *)
(* their responses and the user data stream share one connection.  Any     *)
(* thread may call; the supervisor connects, subscribes, reads and         *)
(* dispatches, session after session; the notifier delivers feed events to *)
(* a handler that may itself call (a reconnect reconciles); stop() joins   *)
(* both.                                                                   *)
(*                                                                         *)
(* A critical section is one action.  Backoff delays, signatures and the   *)
(* content of execution reports are left out.                              *)
(***************************************************************************)
EXTENDS Naturals, Sequences

CONSTANTS
    Callers,      \* threads that call, the notifier's handler among them
    Handler,      \* the notifier, as a caller
    MaxCalls,     \* bound: calls
    MaxSessions   \* bound: sessions

ASSUME HandlerAssumption == Handler \in Callers
ASSUME BoundsAssumption == MaxCalls \in Nat /\ MaxSessions \in Nat

VARIABLES
    sup,         \* where the supervisor is
    client,      \* client_: "none", "new" until it is connected, "open", "closed"
    session,     \* sessions begun
    subscribed,  \* the session's user data stream is subscribed
    inHand,      \* requests the supervisor has taken out of pending_
    nextId,      \* next_id_
    pending,     \* pending_: ids of requests without an outcome
    call,        \* the callers; outcome is what the Pending of the call holds
    venue,       \* requests the venue has received in this session
    inbox,       \* frames the venue has sent in this session
    events,      \* event_queue_
    notifier,    \* where the notifier is
    told,        \* the events the handler has been told last
    stopper      \* where stop() is

supervisor == <<sup, client, session, subscribed, inHand>>
requests == <<nextId, pending, call>>
wire == <<venue, inbox>>
delivery == <<events, notifier, told>>
vars == <<supervisor, requests, wire, delivery, stopper>>

\* The ids of calls, and of the two requests of the session thread.
Time == MaxCalls + 1
Subscribe == MaxCalls + 2
Ids == 1..(MaxCalls + 2)

\* An answer to a request, or the end of the stream.
Frame == [type : {"answer", "refusal"}, id : Ids] \cup [type : {"shutdown"}]

Events == {"Connected", "Disconnected", "Stopped"}
IdleCall == [pc |-> "idle", id |-> 0, session |-> 0, outcome |-> {}]

\* Types of every variable.  A Pending holds a response, a failure or, while
\* its caller waits, neither.
TypeOK ==
    /\ sup \in {"idle", "connect", "sync", "syncread", "subscribe", "loop", "read",
                "deliver", "close", "fail", "failed", "sleep", "exited"}
    /\ client \in {"none", "new", "open", "closed"}
    /\ session \in 0..MaxSessions
    /\ subscribed \in BOOLEAN
    /\ inHand \subseteq Ids
    /\ nextId \in 1..(MaxCalls + 1)
    /\ pending \subseteq Ids
    /\ call \in [Callers -> [pc : {"idle", "send", "wait"}, id : 0..MaxCalls,
                             session : 0..MaxSessions,
                             outcome : SUBSET {"response", "failed"}]]
    /\ venue \subseteq Ids
    /\ inbox \in Seq(Frame)
    /\ events \in Seq(Events)
    /\ notifier \in {"wait", "call", "exited"}
    /\ told \in Events
    /\ stopper \in {"running", "close", "supervisor", "notifier", "stopped"}

Start(first) ==
    /\ sup = "idle" /\ client = "none" /\ session = 0
    /\ subscribed = FALSE /\ inHand = {}
    /\ nextId = first /\ pending = {} /\ call = [c \in Callers |-> IdleCall]
    /\ venue = {} /\ inbox = <<>>
    /\ events = <<>> /\ notifier = "wait" /\ told = "Disconnected"
    /\ stopper = "running"

\* Faulty variant: the first id is the one of no call.
InitFromZero == Start(0)
Init == Start(1)

stop_requested == stopper # "running"

-----------------------------------------------------------------------------
(* call() *)

\* An id is drawn and the Pending is registered before the frame is sent.
Register(c) ==
    /\ call[c].pc = "idle" /\ nextId <= MaxCalls
    /\ c = Handler => notifier = "call"
    /\ nextId' = nextId + 1
    /\ call' = [call EXCEPT ![c].pc = "send", ![c].id = nextId]
    /\ pending' = pending \cup {nextId}
    /\ UNCHANGED <<supervisor, wire, delivery, stopper>>

Done(c) ==
    /\ call' = [call EXCEPT ![c] = IdleCall]
    /\ pending' = pending \ {call[c].id}

\* Faulty variant: an error leaves the request registered.
SendFailsRegistered(c) ==
    /\ call[c].pc = "send" /\ client # "open"
    /\ call' = [call EXCEPT ![c] = IdleCall]
    /\ UNCHANGED <<supervisor, nextId, pending, wire, delivery, stopper>>

\* send_frame, under client_mutex_: without a connection the call is over ...
SendFails(c) ==
    /\ call[c].pc = "send" /\ client # "open"
    /\ Done(c)
    /\ UNCHANGED <<supervisor, nextId, wire, delivery, stopper>>

\* ... and otherwise it waits.
SendFrame(c) ==
    /\ call[c].pc = "send" /\ client = "open"
    /\ call' = [call EXCEPT ![c].pc = "wait", ![c].session = session]
    /\ venue' = venue \cup {call[c].id}
    /\ UNCHANGED <<supervisor, nextId, pending, inbox, delivery, stopper>>

\* The caller wakes up with a response or a failure, or its deadline passes.
Wakes(c) ==
    /\ call[c].pc = "wait" /\ call[c].outcome # {}
    /\ Done(c)
    /\ UNCHANGED <<supervisor, nextId, wire, delivery, stopper>>

TimesOut(c) ==
    /\ call[c].pc = "wait" /\ call[c].outcome = {}
    /\ Done(c)
    /\ UNCHANGED <<supervisor, nextId, wire, delivery, stopper>>

\* What becomes of a Pending is of no interest once its caller has gone.
Settled(ids, outcome) ==
    [c \in Callers |-> IF call[c].pc # "idle" /\ call[c].id \in ids
                       THEN [call[c] EXCEPT !.outcome = @ \cup {outcome}] ELSE call[c]]

-----------------------------------------------------------------------------
(* The venue (external) *)

VenueAnswers(id, type) ==
    /\ id \in venue /\ client \in {"open", "closed"}
    /\ type = "refusal" => id = Subscribe
    /\ venue' = venue \ {id}
    /\ inbox' = Append(inbox, [type |-> type, id |-> id])
    /\ UNCHANGED <<supervisor, requests, delivery, stopper>>

\* The stream is ended, or the connection is lost.
VenueShutsDown ==
    /\ client = "open"
    /\ \A i \in DOMAIN inbox : inbox[i].type # "shutdown"
    /\ inbox' = Append(inbox, [type |-> "shutdown"])
    /\ UNCHANGED <<supervisor, requests, venue, delivery, stopper>>

ConnectionLost ==
    /\ client = "open"
    /\ client' = "closed" /\ venue' = {} /\ inbox' = <<>>
    /\ UNCHANGED <<sup, session, subscribed, inHand, requests, delivery, stopper>>

-----------------------------------------------------------------------------
(* The supervisor: run, reconnect_loop, run_session *)

\* A session begins: the new client is published.
Opens ==
    /\ sup \in {"idle", "sleep"} /\ ~stop_requested
    /\ session < MaxSessions
    /\ sup' = "connect" /\ client' = "new" /\ session' = session + 1
    /\ subscribed' = FALSE /\ venue' = {} /\ inbox' = <<>>
    /\ UNCHANGED <<inHand, requests, delivery, stopper>>

Connects ==
    /\ sup = "connect"
    /\ \/ client' = "open" /\ sup' = "sync"
       \/ sup' = "close" /\ UNCHANGED client
    /\ UNCHANGED <<session, subscribed, inHand, requests, wire, delivery, stopper>>

\* inline_time_sync: the time is asked for and the next frame is read, be it
\* the answer or the response to a caller's request.
SyncSent ==
    /\ sup = "sync"
    /\ IF client = "open" THEN sup' = "syncread" /\ venue' = venue \cup {Time}
                          ELSE sup' = "subscribe" /\ UNCHANGED venue
    /\ UNCHANGED <<client, session, subscribed, inHand, requests, inbox, delivery, stopper>>

SyncRead ==
    /\ sup = "syncread"
    /\ sup' = "subscribe"
    /\ \/ inbox # <<>> /\ inbox' = Tail(inbox)
       \/ client # "open" /\ UNCHANGED inbox
    /\ UNCHANGED <<client, session, subscribed, inHand, requests, venue, delivery, stopper>>

Subscribes ==
    /\ sup = "subscribe"
    /\ IF client = "open"
       THEN sup' = "loop" /\ pending' = pending \cup {Subscribe}
                          /\ venue' = venue \cup {Subscribe}
       ELSE sup' = "close" /\ UNCHANGED <<pending, venue>>
    /\ UNCHANGED <<client, session, subscribed, inHand, nextId, call, inbox, delivery, stopper>>

\* The head of the read loop looks at the stop token; the read then blocks,
\* whatever becomes of the token.
Reads ==
    /\ sup = "loop" /\ ~stop_requested
    /\ sup' = "read"
    /\ UNCHANGED <<client, session, subscribed, inHand, requests, wire, delivery, stopper>>

\* The read loop ends: stop is requested, the read fails, or the venue has
\* announced the end.
ReadEnds ==
    /\ \/ sup = "loop" /\ stop_requested
       \/ sup = "read" /\ client # "open"
       \/ sup = "read" /\ inbox # <<>> /\ Head(inbox).type = "shutdown"
    /\ sup' = "close"
    /\ pending' = pending \ {Subscribe}
    /\ UNCHANGED <<client, session, subscribed, inHand, nextId, call, wire, delivery, stopper>>

\* dispatch_message: the answer to the subscription ...
SubscribeAnswered ==
    /\ sup = "read"
    /\ inbox # <<>> /\ Head(inbox).type \in {"answer", "refusal"} /\ Head(inbox).id = Subscribe
    /\ inbox' = Tail(inbox)
    /\ pending' = pending \ {Subscribe}
    /\ IF Head(inbox).type = "answer"
       THEN sup' = "loop" /\ subscribed' = TRUE /\ events' = Append(events, "Connected")
       ELSE sup' = "close" /\ UNCHANGED <<subscribed, events>>
    /\ UNCHANGED <<client, session, inHand, nextId, call, venue, notifier, told, stopper>>

\* Faulty variant: the request stays registered.
DispatchRegistered ==
    /\ sup = "read"
    /\ inbox # <<>> /\ Head(inbox).type = "answer" /\ Head(inbox).id # Subscribe
    /\ inbox' = Tail(inbox)
    /\ IF Head(inbox).id \in pending THEN inHand' = {Head(inbox).id} /\ sup' = "deliver"
                                     ELSE sup' = "loop" /\ UNCHANGED inHand
    /\ UNCHANGED <<client, session, subscribed, requests, venue, delivery, stopper>>

\* ... and a response, which is taken out of pending_ under one mutex and
\* given to its caller under another; one nobody waits for is dropped.
Dispatch ==
    /\ sup = "read"
    /\ inbox # <<>> /\ Head(inbox).type = "answer" /\ Head(inbox).id # Subscribe
    /\ inbox' = Tail(inbox)
    /\ IF Head(inbox).id \in pending
       THEN /\ inHand' = {Head(inbox).id} /\ pending' = pending \ inHand'
            /\ sup' = "deliver"
       ELSE sup' = "loop" /\ UNCHANGED <<inHand, pending>>
    /\ UNCHANGED <<client, session, subscribed, nextId, call, venue, delivery, stopper>>

Deliver ==
    /\ sup = "deliver"
    /\ call' = Settled(inHand, "response")
    /\ sup' = "loop" /\ inHand' = {}
    /\ UNCHANGED <<client, session, subscribed, nextId, pending, wire, delivery, stopper>>

\* Faulty variant: the waiters are failed before the client is taken away.
ClosesLate ==
    /\ sup = "close"
    /\ sup' = "failed" /\ inHand' = pending /\ pending' = {}
    /\ UNCHANGED <<client, session, subscribed, nextId, call, wire, delivery, stopper>>

\* The client is taken away first, so that no request can follow ...
Closes ==
    /\ sup = "close"
    /\ sup' = "fail" /\ client' = "none" /\ venue' = {} /\ inbox' = <<>>
    /\ UNCHANGED <<session, subscribed, inHand, requests, delivery, stopper>>

\* ... then fail_all_pending takes the waiters under one mutex and fails each
\* under its own.
FailTakes ==
    /\ sup = "fail"
    /\ sup' = "failed" /\ inHand' = pending /\ pending' = {}
    /\ UNCHANGED <<client, session, subscribed, nextId, call, wire, delivery, stopper>>

\* Faulty variant: the loss is not announced.
SessionOverSilent ==
    /\ sup = "failed"
    /\ call' = Settled(inHand, "failed")
    /\ inHand' = {} /\ subscribed' = FALSE
    /\ IF stop_requested THEN sup' = "exited" /\ events' = Append(events, "Stopped")
                         ELSE sup' = "sleep"  /\ UNCHANGED events
    /\ UNCHANGED <<client, session, nextId, pending, wire, notifier, told, stopper>>

\* reconnect_loop: the loss is announced and the next session waited for,
\* unless stop is requested; then run announces the end.
SessionOver ==
    /\ sup = "failed"
    /\ call' = Settled(inHand, "failed")
    /\ inHand' = {} /\ subscribed' = FALSE
    /\ IF stop_requested THEN sup' = "exited" /\ events' = Append(events, "Stopped")
                         ELSE sup' = "sleep"  /\ events' = Append(events, "Disconnected")
    /\ UNCHANGED <<client, session, nextId, pending, wire, notifier, told, stopper>>

Exits ==
    /\ sup \in {"idle", "sleep"} /\ stop_requested
    /\ sup' = "exited" /\ events' = Append(events, "Stopped")
    /\ UNCHANGED <<client, session, subscribed, inHand, requests, wire, notifier, told, stopper>>

Supervisor ==
    \/ Opens \/ Connects \/ SyncSent \/ SyncRead \/ Subscribes
    \/ Reads \/ SubscribeAnswered \/ Dispatch \/ Deliver \/ ReadEnds
    \/ Closes \/ FailTakes \/ SessionOver \/ Exits

-----------------------------------------------------------------------------
(* The notifier: pump_events *)

\* The handler of Connected reconciles, which calls the venue.
Delivers ==
    /\ notifier = "wait" /\ events # <<>>
    /\ events' = Tail(events) /\ told' = Head(events)
    /\ notifier' = IF Head(events) = "Connected" THEN "call" ELSE "wait"
    /\ UNCHANGED <<supervisor, requests, wire, stopper>>

HandlerReturns ==
    /\ notifier = "call" /\ call[Handler].pc = "idle"
    /\ notifier' = "wait"
    /\ UNCHANGED <<supervisor, requests, wire, events, told, stopper>>

\* Faulty variant: the queue is not drained.
NotifierExitsAtOnce ==
    /\ notifier = "wait" /\ stopper = "notifier"
    /\ notifier' = "exited"
    /\ UNCHANGED <<supervisor, requests, wire, events, told, stopper>>

NotifierExits ==
    /\ notifier = "wait" /\ stopper = "notifier" /\ events = <<>>
    /\ notifier' = "exited"
    /\ UNCHANGED <<supervisor, requests, wire, events, told, stopper>>

-----------------------------------------------------------------------------
(* stop() *)

StopRequested ==
    /\ stopper = "running"
    /\ stopper' = "close"
    /\ UNCHANGED <<supervisor, requests, wire, delivery>>

\* Faulty variant: the client is left open.
StopLeavesClient ==
    /\ stopper = "close"
    /\ stopper' = "supervisor"
    /\ UNCHANGED <<supervisor, requests, wire, delivery>>

\* Under client_mutex_: a connected client is closed, which ends a blocked
\* read; on one that is still connecting the close has no effect.
StopCloses ==
    /\ stopper = "close"
    /\ stopper' = "supervisor"
    /\ client' = IF client = "open" THEN "closed" ELSE client
    /\ UNCHANGED <<sup, session, subscribed, inHand, requests, wire, delivery>>

StopJoinsSupervisor ==
    /\ stopper = "supervisor" /\ sup = "exited"
    /\ stopper' = "notifier"
    /\ UNCHANGED <<supervisor, requests, wire, delivery>>

StopJoinsNotifier ==
    /\ stopper = "notifier" /\ notifier = "exited"
    /\ stopper' = "stopped"
    /\ call' = Settled(pending, "failed") /\ pending' = {}
    /\ UNCHANGED <<supervisor, nextId, wire, delivery>>

Stopper == StopRequested \/ StopCloses \/ StopJoinsSupervisor \/ StopJoinsNotifier

-----------------------------------------------------------------------------
CallerStep(c) == SendFails(c) \/ SendFrame(c) \/ Wakes(c) \/ TimesOut(c)
Notifier == Delivers \/ HandlerReturns \/ NotifierExits

Next ==
    \/ \E c \in Callers : Register(c) \/ CallerStep(c)
    \/ \E id \in venue, type \in {"answer", "refusal"} : VenueAnswers(id, type)
    \/ VenueShutsDown \/ ConnectionLost
    \/ Supervisor
    \/ Notifier
    \/ Stopper

Spec == Init /\ [][Next]_vars

\* The threads run and every wait of call() has a deadline.  A read has none
\* while pongs come in: the read loop may wait for ever, and inline_time_sync
\* relies on the venue, which answers the public time request.  Nothing else is
\* assumed of the venue, and nobody has to call stop().
FairSpec ==
    /\ Spec
    /\ \A c \in Callers : WF_vars(CallerStep(c))
    /\ WF_vars(Supervisor)
    /\ WF_vars(Notifier)
    /\ WF_vars(VenueAnswers(Time, "answer"))
    /\ WF_vars(StopCloses \/ StopJoinsSupervisor \/ StopJoinsNotifier)

-----------------------------------------------------------------------------
(* Properties *)

\* No caller is left waiting for a connection that is gone: when the session
\* in which it sent its request is over, it has its response or its failure.
\* It would otherwise sit out the whole request timeout.
NobodyStranded ==
    \A c \in Callers :
        call[c].pc = "wait" /\ (call[c].session # session \/ sup \in {"sleep", "exited"})
            => call[c].outcome # {}

\* A request is answered or failed, never both: dispatch_message and
\* fail_all_pending take it out of pending_ under one mutex.
OneOutcome == \A c \in Callers : call[c].outcome # {"response", "failed"}

\* pending_ holds the requests of open calls and of the session, and no other.
NoLeak ==
    /\ \A id \in pending \ {Subscribe} : \E c \in Callers : call[c].id = id
    /\ Subscribe \in pending => sup \in {"loop", "read", "deliver"}

\* Once all events are delivered the handler knows how the session stands:
\* the gateway reconciles after every connect, and only then.
HandlerUpToDate ==
    notifier # "call" /\ events = <<>> =>
        /\ sup \in {"loop", "read", "deliver"} => (told = "Connected") = subscribed
        /\ sup = "sleep" => told = "Disconnected"

\* When stop() returns, both threads have ended, every event including the
\* last has been delivered and no caller waits without an outcome.
StopIsClean ==
    stopper = "stopped" =>
        /\ sup = "exited" /\ notifier = "exited" /\ events = <<>> /\ told = "Stopped"
        /\ \A c \in Callers : call[c].pc = "wait" => call[c].outcome # {}

\* stop() returns, even while the handler is calling the venue.
StopEnds == stopper = "close" ~> stopper = "stopped"

=============================================================================
