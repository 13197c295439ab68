-------------------------- MODULE BinanceWsProofs --------------------------
(***************************************************************************)
(* Every request has one outcome, nobody waits for a dead session, the     *)
(* handler ends up with the current state of the stream and stop() leaves  *)
(* nothing behind, for any number of callers, calls and sessions.          *)
(***************************************************************************)
EXTENDS BinanceWs, SequenceTheorems, TLAPS

Open(c) == call[c].pc # "idle"
Waiting(c) == call[c].pc = "wait" /\ call[c].outcome = {}

\* Open calls have ids of their own, drawn before and never again.
Numbered ==
    /\ \A c \in Callers : IF Open(c) THEN call[c].id \in 1..(nextId - 1) ELSE call[c] = IdleCall
    /\ \A c, d \in Callers : Open(c) /\ Open(d) /\ call[c].id = call[d].id => c = d
    /\ inHand \subseteq 1..(nextId - 1)

\* A request is registered, or in the hands of the supervisor, or it has its
\* one outcome; nothing else is registered but the session's subscription.
Accounted ==
    /\ pending \cap inHand = {}
    /\ \A c \in Callers : Open(c) =>
          IF call[c].id \in pending \cup inHand THEN call[c].outcome = {}
          ELSE call[c].outcome \in {{"response"}, {"failed"}}
    /\ \A id \in pending \ {Subscribe} : \E c \in Callers : Open(c) /\ call[c].id = id
    /\ Subscribe \in pending => sup \in {"loop", "read", "deliver"}
    /\ inHand # {} => sup \in {"deliver", "failed"}

\* Where a session may have a connection.
InSession == {"sync", "syncread", "subscribe", "loop", "read", "deliver", "close"}

\* Who waits does so for the session that runs, until its end takes the
\* request out of pending_.
InTime ==
    /\ client = "open" => sup \in InSession
    /\ \A c \in Callers : Waiting(c) =>
          /\ call[c].session = session
          /\ sup \in InSession \cup {"fail", "failed"}
          /\ sup = "failed" => call[c].id \in inHand

\* The last event that was queued, delivered or not.
Latest == IF events = <<>> THEN told ELSE events[Len(events)]

\* The latest event says how the session stands.
Announced ==
    /\ sup \in {"idle", "sleep", "connect", "sync", "syncread", "subscribe"} =>
          Latest = "Disconnected"
    /\ sup \in {"connect", "sync", "syncread", "subscribe"} => ~subscribed
    /\ sup \in {"loop", "read", "deliver"} => (Latest = "Connected" <=> subscribed)
    /\ sup = "exited" => Latest = "Stopped"

\* stop() joins the supervisor before it lets the notifier end, and the
\* notifier ends with an empty queue.
Ending ==
    /\ stopper \in {"notifier", "stopped"} => sup = "exited"
    /\ notifier = "exited" => events = <<>> /\ stopper \in {"notifier", "stopped"}
    /\ stopper = "stopped" => notifier = "exited"

Requests == Numbered /\ Accounted /\ InTime
Inv == TypeOK /\ Requests /\ Announced /\ Ending

-----------------------------------------------------------------------------
(* Types *)

CallType == [pc : {"idle", "send", "wait"}, id : 0..MaxCalls, session : 0..MaxSessions,
             outcome : SUBSET {"response", "failed"}]

LEMMA SettledTyped ==
    ASSUME call \in [Callers -> CallType], NEW ids, NEW o \in {"response", "failed"}
    PROVE  Settled(ids, o) \in [Callers -> CallType]
<1> SUFFICES ASSUME NEW c \in Callers
             PROVE  Settled(ids, o)[c] \in CallType
  BY DEF Settled
<1>1. call[c] \in CallType /\ call[c].outcome \cup {o} \in SUBSET {"response", "failed"}
  BY DEF CallType
<1>2. [call[c] EXCEPT !.outcome = @ \cup {o}] \in CallType
  BY <1>1 DEF CallType
<1> QED
  BY <1>1, <1>2 DEF Settled

LEMMA DoneTyped ==
    ASSUME call \in [Callers -> CallType], pending \subseteq Ids, NEW c \in Callers, Done(c)
    PROVE  call' \in [Callers -> CallType] /\ pending' \subseteq Ids
<1>1. IdleCall \in CallType
  BY BoundsAssumption DEF IdleCall, CallType
<1> QED
  BY <1>1 DEF Done

LEMMA CallerTyped ==
    ASSUME TypeOK, Numbered, NEW c \in Callers, Register(c) \/ CallerStep(c)
    PROVE  TypeOK'
<1> USE BoundsAssumption DEF supervisor, requests, wire, delivery
<1>0. call \in [Callers -> CallType] /\ pending \subseteq Ids /\ venue \subseteq Ids
  BY DEF TypeOK, CallType
<1>1. CASE Register(c)
  <2>1. nextId \in 1..MaxCalls /\ nextId \in Ids /\ nextId' \in 1..(MaxCalls + 1)
    BY <1>1 DEF Register, TypeOK, Ids
  <2>a. call[c] \in CallType /\ nextId \in 0..MaxCalls
    BY <1>0, <2>1
  <2>2. [call[c] EXCEPT !.pc = "send", !.id = nextId] \in CallType
    BY <2>a DEF CallType
  <2>3. call' = [call EXCEPT ![c] = [call[c] EXCEPT !.pc = "send", !.id = nextId]]
    BY <1>0, <1>1 DEF Register
  <2>4. call' \in [Callers -> CallType]
    BY <1>0, <2>2, <2>3
  <2>5. pending' \subseteq Ids
    BY <1>0, <1>1, <2>1 DEF Register
  <2> QED
    BY <1>1, <2>1, <2>4, <2>5 DEF Register, TypeOK, CallType
<1>2. CASE SendFrame(c)
  <2>1. call' \in [Callers -> CallType]
    BY <1>0, <1>2, ZenonT(60) DEF SendFrame, CallType, TypeOK
  <2>2. call[c].id \in Ids
    BY <1>2 DEF SendFrame, Numbered, Open, TypeOK, Ids
  <2>3. venue' \subseteq Ids
    BY <1>0, <1>2, <2>2 DEF SendFrame
  <2> QED
    BY <1>2, <2>1, <2>3 DEF SendFrame, TypeOK, CallType
<1>3. ASSUME SendFails(c) \/ Wakes(c) \/ TimesOut(c)
      PROVE  TypeOK'
  <2>1. call' \in [Callers -> CallType] /\ pending' \subseteq Ids
    BY <1>0, <1>3, DoneTyped DEF SendFails, Wakes, TimesOut
  <2> QED
    BY <1>3, <2>1 DEF SendFails, Wakes, TimesOut, TypeOK, CallType
<1> QED
  BY <1>1, <1>2, <1>3 DEF CallerStep

LEMMA AppendTyped ==
    ASSUME events \in Seq(Events)
    PROVE  /\ Append(events, "Connected") \in Seq(Events)
           /\ Append(events, "Disconnected") \in Seq(Events)
           /\ Append(events, "Stopped") \in Seq(Events)
<1>1. \A e \in Events : Append(events, e) \in Seq(Events)
  OBVIOUS
<1> QED
  BY <1>1 DEF Events

\* The steps of the supervisor that leave the calls and pending_ alone.
LEMMA SessionTyped ==
    ASSUME TypeOK,
           Opens \/ Connects \/ SyncSent \/ SyncRead \/ Reads \/ Closes \/ Exits
    PROVE  TypeOK'
<1> USE BoundsAssumption DEF supervisor, requests, wire, delivery
<1>1. CASE Opens
  <2>1. session' \in 0..MaxSessions /\ inbox' \in Seq(Frame)
    BY <1>1 DEF Opens, TypeOK
  <2>2. subscribed' \in BOOLEAN
    BY <1>1, Zenon DEF Opens
  <2> QED
    BY <1>1, <2>1, <2>2 DEF Opens, TypeOK
<1>2. CASE Connects
  BY <1>2 DEF Connects, TypeOK
<1>3. CASE SyncSent
  <2>0. Time \in Ids /\ venue \subseteq Ids
    BY DEF TypeOK, Ids, Time
  <2>1. venue' \subseteq Ids
    BY <1>3, <2>0 DEF SyncSent
  <2> QED
    BY <1>3, <2>1 DEF SyncSent, TypeOK
<1>4. CASE SyncRead
  <2>1. inbox' \in Seq(Frame)
    <3>0. inbox \in Seq(Frame)
      BY DEF TypeOK
    <3>1. CASE inbox # <<>> /\ inbox' = Tail(inbox)
      BY <3>0, <3>1
    <3>2. CASE UNCHANGED inbox
      BY <3>0, <3>2
    <3> QED
      BY <1>4, <3>1, <3>2 DEF SyncRead
  <2> QED
    BY <1>4, <2>1 DEF SyncRead, TypeOK
<1>5. CASE Reads
  BY <1>5 DEF Reads, TypeOK
<1>6. CASE Closes
  BY <1>6 DEF Closes, TypeOK
<1>7. CASE Exits
  <2>1. events' \in Seq(Events)
    BY <1>7, AppendTyped DEF Exits, TypeOK
  <2> QED
    BY <1>7, <2>1 DEF Exits, TypeOK
<1> QED
  BY <1>1, <1>2, <1>3, <1>4, <1>5, <1>6, <1>7

\* Those that register, take or settle requests.
LEMMA DispatchTyped ==
    ASSUME TypeOK,
           \/ Subscribes \/ SubscribeAnswered \/ Dispatch \/ Deliver \/ ReadEnds
           \/ FailTakes \/ SessionOver
    PROVE  TypeOK'
<1> USE BoundsAssumption DEF supervisor, requests, wire, delivery
<1>0. call \in [Callers -> CallType]
  BY DEF TypeOK, CallType
<1>1. CASE Subscribes
  <2>0. Subscribe \in Ids /\ venue \subseteq Ids /\ pending \subseteq Ids
    BY DEF TypeOK, Ids, Subscribe
  <2>1. venue' \subseteq Ids /\ pending' \subseteq Ids
    BY <1>1, <2>0 DEF Subscribes
  <2> QED
    BY <1>1, <2>1 DEF Subscribes, TypeOK
<1>2. CASE SubscribeAnswered
  <2>1. inbox' \in Seq(Frame)
    BY <1>2 DEF SubscribeAnswered, TypeOK
  <2>2. events' \in Seq(Events)
    BY <1>2, AppendTyped DEF SubscribeAnswered, TypeOK
  <2>3. subscribed' \in BOOLEAN
    BY <1>2, Zenon DEF SubscribeAnswered, TypeOK
  <2> QED
    BY <1>2, <2>1, <2>2, <2>3 DEF SubscribeAnswered, TypeOK
<1>3. CASE Dispatch
  <2>1. inbox' \in Seq(Frame)
    BY <1>3 DEF Dispatch, TypeOK
  <2>2. inHand' \subseteq Ids /\ pending' \subseteq Ids
    BY <1>3 DEF Dispatch, TypeOK
  <2> QED
    BY <1>3, <2>1, <2>2 DEF Dispatch, TypeOK
<1>4. CASE Deliver
  <2>1. call' \in [Callers -> CallType]
    BY <1>0, <1>4, SettledTyped DEF Deliver
  <2> QED
    BY <1>4, <2>1 DEF Deliver, TypeOK, CallType
<1>5. CASE ReadEnds
  BY <1>5 DEF ReadEnds, TypeOK
<1>6. CASE FailTakes
  BY <1>6 DEF FailTakes, TypeOK
<1>7. CASE SessionOver
  <2>1. call' \in [Callers -> CallType]
    BY <1>0, <1>7, SettledTyped DEF SessionOver
  <2>2. events' \in Seq(Events)
    BY <1>7, AppendTyped DEF SessionOver, TypeOK
  <2>3. subscribed' \in BOOLEAN
    BY <1>7, Zenon DEF SessionOver
  <2> QED
    BY <1>7, <2>1, <2>2, <2>3 DEF SessionOver, TypeOK, CallType
<1> QED
  BY <1>1, <1>2, <1>3, <1>4, <1>5, <1>6, <1>7

\* The venue, the network, the notifier and stop().
LEMMA OthersTyped ==
    ASSUME TypeOK,
           \/ \E id \in venue, type \in {"answer", "refusal"} : VenueAnswers(id, type)
           \/ VenueShutsDown \/ ConnectionLost
           \/ Notifier \/ Stopper
    PROVE  TypeOK'
<1> USE BoundsAssumption DEF supervisor, requests, wire, delivery
<1>1. ASSUME NEW id \in venue, NEW type \in {"answer", "refusal"}, VenueAnswers(id, type)
      PROVE  TypeOK'
  <2>1. [type |-> type, id |-> id] \in Frame
    BY DEF TypeOK, Frame
  <2>2. inbox' \in Seq(Frame) /\ venue' \subseteq Ids
    BY <1>1, <2>1 DEF VenueAnswers, TypeOK
  <2> QED
    BY <1>1, <2>2 DEF VenueAnswers, TypeOK
<1>2. CASE VenueShutsDown
  <2>1. [type |-> "shutdown"] \in Frame
    BY DEF Frame
  <2>2. inbox' \in Seq(Frame)
    BY <1>2, <2>1 DEF VenueShutsDown, TypeOK
  <2> QED
    BY <1>2, <2>2 DEF VenueShutsDown, TypeOK
<1>3. CASE ConnectionLost
  BY <1>3 DEF ConnectionLost, TypeOK
<1>4. CASE Delivers
  <2>1. events' \in Seq(Events) /\ told' \in Events
    BY <1>4 DEF Delivers, TypeOK
  <2> QED
    BY <1>4, <2>1 DEF Delivers, TypeOK
<1>5. CASE HandlerReturns
  BY <1>5 DEF HandlerReturns, TypeOK
<1>6. CASE NotifierExits
  BY <1>6 DEF NotifierExits, TypeOK
<1>7. ASSUME StopRequested \/ StopCloses \/ StopJoinsSupervisor
      PROVE  TypeOK'
  BY <1>7 DEF StopRequested, StopCloses, StopJoinsSupervisor, TypeOK
<1>8. CASE StopJoinsNotifier
  <2>1. call' \in [Callers -> CallType]
    BY <1>8, SettledTyped DEF StopJoinsNotifier, TypeOK, CallType
  <2> QED
    BY <1>8, <2>1 DEF StopJoinsNotifier, TypeOK, CallType
<1> QED
  BY <1>1, <1>2, <1>3, <1>4, <1>5, <1>6, <1>7, <1>8 DEF Notifier, Stopper

-----------------------------------------------------------------------------
(* Announcements *)

LEMMA AppendLatest ==
    ASSUME events \in Seq(Events), NEW e \in Events, events' = Append(events, e)
    PROVE  Latest' = e
BY DEF Latest

LEMMA DeliverLatest ==
    ASSUME events \in Seq(Events), events # <<>>, events' = Tail(events), told' = Head(events)
    PROVE  Latest' = Latest
<1> DEFINE n == Len(events)
<1>0. n \in Nat /\ n >= 1 /\ Head(events) = events[1]
  BY EmptySeq
<1>1. Tail(events) \in Seq(Events) /\ Len(Tail(events)) = n - 1
  BY HeadTailProperties
<1>2. CASE n = 1
  <2>1. Tail(events) = <<>>
    BY <1>1, <1>2, EmptySeq
  <2> QED
    BY <1>0, <1>2, <2>1 DEF Latest
<1>3. CASE n > 1
  <2>0. n - 1 # 0
    BY <1>0, <1>3
  <2>1. Tail(events) # <<>>
    BY <1>1, <2>0, EmptySeq
  <2>2. Tail(events)[n - 1] = events[n]
    BY <1>0, <1>3
  <2> QED
    BY <1>1, <2>1, <2>2 DEF Latest
<1>4. \A k \in Nat : k >= 1 => k = 1 \/ k > 1
  OBVIOUS
<1> QED
  BY <1>0, <1>2, <1>3, <1>4, Zenon

LEMMA SupervisorAnnounces ==
    ASSUME TypeOK, Announced, Ending, Supervisor
    PROVE  (Announced /\ Ending)'
<1> USE DEF supervisor, requests, wire, delivery, stop_requested, Announced, Ending
<1>0. events \in Seq(Events) /\ stopper \in {"running", "close", "supervisor", "notifier", "stopped"}
  BY DEF TypeOK
<1>1. ASSUME events' = events, told' = told
      PROVE  Latest' = Latest
  BY <1>1 DEF Latest
<1>2. CASE Opens \/ Connects \/ SyncSent \/ SyncRead \/ Subscribes
  BY <1>1, <1>2 DEF Opens, Connects, SyncSent, SyncRead, Subscribes
<1>3. CASE Reads \/ Dispatch \/ Deliver \/ ReadEnds
  BY <1>1, <1>3 DEF Reads, Dispatch, Deliver, ReadEnds
<1>4. CASE SubscribeAnswered
  <2>1. CASE Head(inbox).type = "answer"
    <3>1. Latest' = "Connected"
      BY <1>0, <1>4, <2>1, AppendLatest DEF SubscribeAnswered, Events
    <3> QED
      BY <1>4, <2>1, <3>1 DEF SubscribeAnswered
  <2>2. CASE Head(inbox).type # "answer"
    BY <1>1, <1>4, <2>2 DEF SubscribeAnswered
  <2> QED
    BY <2>1, <2>2
<1>5. CASE Closes \/ FailTakes
  BY <1>1, <1>5 DEF Closes, FailTakes
<1>6. CASE SessionOver
  <2>1. Latest' = IF stop_requested THEN "Stopped" ELSE "Disconnected"
    BY <1>0, <1>6, AppendLatest DEF SessionOver, Events
  <2> QED
    BY <1>6, <2>1 DEF SessionOver
<1>7. CASE Exits
  <2>1. Latest' = "Stopped"
    BY <1>0, <1>7, AppendLatest DEF Exits, Events
  <2> QED
    BY <1>7, <2>1 DEF Exits
<1> QED
  BY <1>2, <1>3, <1>4, <1>5, <1>6, <1>7 DEF Supervisor

LEMMA OthersAnnounce ==
    ASSUME TypeOK, Announced, Ending,
           \/ \E c \in Callers : Register(c) \/ CallerStep(c)
           \/ \E id \in venue, type \in {"answer", "refusal"} : VenueAnswers(id, type)
           \/ VenueShutsDown \/ ConnectionLost
           \/ Notifier \/ Stopper
    PROVE  (Announced /\ Ending)'
<1> USE DEF supervisor, requests, wire, delivery, Announced, Ending
<1>1. ASSUME UNCHANGED <<sup, subscribed, events, told, notifier, stopper>>
      PROVE  (Announced /\ Ending)'
  BY <1>1 DEF Latest
<1>2. ASSUME NEW c \in Callers, Register(c) \/ CallerStep(c)
      PROVE  (Announced /\ Ending)'
  BY <1>1, <1>2 DEF Register, CallerStep, SendFails, SendFrame, Wakes, TimesOut
<1>3. ASSUME NEW id \in venue, NEW type \in {"answer", "refusal"}, VenueAnswers(id, type)
      PROVE  (Announced /\ Ending)'
  BY <1>1, <1>3 DEF VenueAnswers
<1>4. CASE VenueShutsDown \/ ConnectionLost
  BY <1>1, <1>4 DEF VenueShutsDown, ConnectionLost
<1>5. CASE Delivers
  <2>1. Latest' = Latest
    BY <1>5, DeliverLatest DEF Delivers, TypeOK
  <2> QED
    BY <1>5, <2>1 DEF Delivers
<1>6. CASE HandlerReturns \/ NotifierExits
  BY <1>6 DEF HandlerReturns, NotifierExits, Latest
<1>7. CASE Stopper
  BY <1>7 DEF Stopper, StopRequested, StopCloses, StopJoinsSupervisor, StopJoinsNotifier, Latest
<1> QED
  BY <1>2, <1>3, <1>4, <1>5, <1>6, <1>7 DEF Notifier

-----------------------------------------------------------------------------
(* Requests *)

\* The ids drawn so far are none of the session's.
LEMMA Drawn ==
    ASSUME TypeOK
    PROVE  Subscribe \notin 1..(nextId - 1) /\ nextId \notin 1..(nextId - 1)
BY BoundsAssumption DEF TypeOK, Subscribe

\* What a step that leaves the requests alone has to respect.
LEMMA RequestsKept ==
    ASSUME Requests, UNCHANGED <<nextId, pending, call, inHand>>,
           client' = "open" => sup' \in InSession,
           Subscribe \in pending => sup' \in {"loop", "read", "deliver"},
           inHand # {} => sup' \in {"deliver", "failed"},
           (\E c \in Callers : Waiting(c)) =>
               (session' = session /\ sup' \in InSession \cup {"fail"}) \/ UNCHANGED <<session, sup>>
    PROVE  Requests'
<1>1. Numbered'
  BY DEF Requests, Numbered, Open
<1>2. Accounted'
  BY DEF Requests, Accounted, Open
<1>3. InTime'
  BY DEF Requests, InTime, Waiting, InSession
<1> QED
  BY <1>1, <1>2, <1>3 DEF Requests

LEMMA SessionRequests ==
    ASSUME TypeOK, Requests,
           Opens \/ Connects \/ SyncSent \/ SyncRead \/ Reads \/ Closes \/ Exits
    PROVE  Requests'
<1> USE DEF supervisor, requests, wire, delivery
<1>1. UNCHANGED <<nextId, pending, call, inHand>>
  BY DEF Opens, Connects, SyncSent, SyncRead, Reads, Closes, Exits
<1>2. client' = "open" => sup' \in InSession
  BY DEF Opens, Connects, SyncSent, SyncRead, Reads, Closes, Exits, InSession, Requests, InTime
<1>3. Subscribe \in pending => sup' \in {"loop", "read", "deliver"}
  BY DEF Opens, Connects, SyncSent, SyncRead, Reads, Closes, Exits, Requests, Accounted
<1>4. inHand # {} => sup' \in {"deliver", "failed"}
  BY DEF Opens, Connects, SyncSent, SyncRead, Reads, Closes, Exits, Requests, Accounted
<1>5. (\E c \in Callers : Waiting(c)) =>
               (session' = session /\ sup' \in InSession \cup {"fail"}) \/ UNCHANGED <<session, sup>>
  BY DEF Opens, Connects, SyncSent, SyncRead, Reads, Closes, Exits, InSession, Requests, InTime
<1> QED
  BY <1>1, <1>2, <1>3, <1>4, <1>5, RequestsKept

LEMMA OthersRequests ==
    ASSUME TypeOK, Requests,
           \/ \E id \in venue, type \in {"answer", "refusal"} : VenueAnswers(id, type)
           \/ VenueShutsDown \/ ConnectionLost
           \/ Notifier
           \/ StopRequested \/ StopCloses \/ StopJoinsSupervisor
    PROVE  Requests'
<1> USE DEF supervisor, requests, wire, delivery
<1>1. UNCHANGED <<nextId, pending, call, inHand, session, sup>> /\ (client' = "open" => client = "open")
  BY DEF VenueAnswers, VenueShutsDown, ConnectionLost, Notifier, Delivers, HandlerReturns,
         NotifierExits, StopRequested, StopCloses, StopJoinsSupervisor
<1>2. client' = "open" => sup' \in InSession
  BY <1>1 DEF Requests, InTime
<1>3. /\ Subscribe \in pending => sup' \in {"loop", "read", "deliver"}
      /\ inHand # {} => sup' \in {"deliver", "failed"}
  BY <1>1 DEF Requests, Accounted
<1> QED
  BY <1>1, <1>2, <1>3, RequestsKept

\* The session's own request.
LEMMA SubscriptionRequests ==
    ASSUME TypeOK, Requests, Subscribes \/ SubscribeAnswered \/ ReadEnds
    PROVE  Requests'
<1> USE DEF supervisor, requests, wire, delivery
<1>0. /\ UNCHANGED <<nextId, call, inHand, session, client>>
      /\ \/ sup = "subscribe" /\ sup' = "loop" /\ pending' = pending \cup {Subscribe}
         \/ sup = "subscribe" /\ sup' = "close" /\ pending' = pending
         \/ sup \in {"loop", "read"} /\ sup' \in {"loop", "close"} /\ pending' = pending \ {Subscribe}
  BY DEF Subscribes, SubscribeAnswered, ReadEnds
<1>1. Numbered'
  BY <1>0 DEF Requests, Numbered, Open
<1>2. \A c \in Callers : Open(c) => call[c].id # Subscribe
  BY Drawn DEF Requests, Numbered
<1>3. Subscribe \notin inHand /\ inHand = {}
  BY <1>0 DEF Requests, Accounted
<1>4. \A c \in Callers : Open(c)' = Open(c) /\ Waiting(c)' = Waiting(c)
  BY <1>0 DEF Open, Waiting
<1>5. Accounted'
  <2>1. (pending \cap inHand = {})'
    BY <1>0, <1>3
  <2>2. \A c \in Callers : Open(c) => (call[c].id \in pending' <=> call[c].id \in pending)
    BY <1>0, <1>2
  <2>3. pending' \ {Subscribe} = pending \ {Subscribe}
    BY <1>0
  <2>4. Subscribe \in pending' => sup' \in {"loop", "read", "deliver"}
    BY <1>0 DEF Requests, Accounted
  <2> QED
    BY <1>0, <1>3, <1>4, <2>1, <2>2, <2>3, <2>4 DEF Requests, Accounted
<1>6. InTime'
  BY <1>0, <1>4 DEF Requests, InTime, InSession
<1> QED
  BY <1>1, <1>5, <1>6 DEF Requests

\* A new call: its id is fresh and its Pending registered.
LEMMA RegisterRequests ==
    ASSUME TypeOK, Requests, NEW c \in Callers, Register(c)
    PROVE  Requests'
<1> USE DEF supervisor, requests, wire, delivery
<1>0. /\ call[c].pc = "idle" /\ call \in [Callers -> CallType]
      /\ UNCHANGED <<sup, client, session, inHand>>
      /\ nextId' = nextId + 1 /\ pending' = pending \cup {nextId}
      /\ nextId \in 1..MaxCalls
      /\ call' = [call EXCEPT ![c].pc = "send", ![c].id = nextId]
  BY BoundsAssumption DEF Register, TypeOK, CallType
<1>1. call[c] = IdleCall
  BY <1>0 DEF Requests, Numbered, Open
<1>2. call'[c] = [call[c] EXCEPT !.pc = "send", !.id = nextId]
  BY <1>0
<1>3. call'[c].pc = "send" /\ call'[c].id = nextId /\ call'[c].outcome = {}
  BY <1>1, <1>2 DEF IdleCall
<1>4. \A d \in Callers \ {c} : call'[d] = call[d]
  BY <1>0
<1>5. nextId \in 1..(nextId' - 1) /\ 1..(nextId - 1) \subseteq 1..(nextId' - 1)
  BY <1>0, BoundsAssumption
<1>6. \A d \in Callers \ {c} : Open(d)' = Open(d) /\ Waiting(d)' = Waiting(d)
  BY <1>4 DEF Open, Waiting
<1>7. Open(c)' /\ ~Waiting(c)' /\ ~Open(c)
  BY <1>0, <1>3 DEF Open, Waiting
<1>8. \A d \in Callers : Open(d) => call[d].id # nextId
  BY Drawn DEF Requests, Numbered
<1>9. nextId \notin inHand /\ nextId # Subscribe
  BY <1>0, Drawn, BoundsAssumption DEF Requests, Numbered, Subscribe
<1>10. Numbered'
  <2>1. \A d \in Callers : IF Open(d)' THEN call'[d].id \in 1..(nextId' - 1) ELSE call'[d] = IdleCall
    BY <1>3, <1>4, <1>5, <1>6, <1>7 DEF Requests, Numbered
  <2>2. \A d, e \in Callers : Open(d)' /\ Open(e)' /\ call'[d].id = call'[e].id => d = e
    BY <1>3, <1>4, <1>6, <1>7, <1>8 DEF Requests, Numbered
  <2>3. inHand' \subseteq 1..(nextId' - 1)
    BY <1>0, <1>5 DEF Requests, Numbered
  <2> QED
    BY <2>1, <2>2, <2>3 DEF Numbered
<1>11. Accounted'
  <2>1. (pending \cap inHand = {})'
    BY <1>0, <1>9 DEF Requests, Accounted
  <2>2. \A d \in Callers : Open(d)' =>
            IF call'[d].id \in pending' \cup inHand' THEN call'[d].outcome = {}
            ELSE call'[d].outcome \in {{"response"}, {"failed"}}
    <3> TAKE d \in Callers
    <3>1. CASE d = c
      BY <1>0, <1>3, <3>1
    <3>2. CASE d # c
      BY <1>0, <1>4, <1>6, <1>8, <3>2 DEF Requests, Accounted
    <3> QED
      BY <3>1, <3>2
  <2>3. \A id \in pending' \ {Subscribe} : \E d \in Callers : Open(d)' /\ call'[d].id = id
    <3> TAKE id \in pending' \ {Subscribe}
    <3>1. CASE id = nextId
      BY <1>3, <1>7, <3>1
    <3>2. CASE id # nextId
      <4>1. PICK d \in Callers : Open(d) /\ call[d].id = id
        BY <1>0, <3>2 DEF Requests, Accounted
      <4> QED
        BY <1>4, <1>6, <1>7, <4>1
    <3> QED
      BY <3>1, <3>2
  <2>4. Subscribe \in pending' => sup' \in {"loop", "read", "deliver"}
    BY <1>0, <1>9 DEF Requests, Accounted
  <2>5. inHand' # {} => sup' \in {"deliver", "failed"}
    BY <1>0 DEF Requests, Accounted
  <2> QED
    BY <2>1, <2>2, <2>3, <2>4, <2>5 DEF Accounted
<1>12. InTime'
  BY <1>0, <1>4, <1>6, <1>7 DEF Requests, InTime
<1> QED
  BY <1>10, <1>11, <1>12 DEF Requests

\* A call whose request is on its way waits for the session that runs.
LEMMA SendRequests ==
    ASSUME TypeOK, Requests, NEW c \in Callers, SendFrame(c)
    PROVE  Requests'
<1> USE DEF supervisor, requests, wire, delivery
<1>0. /\ call[c].pc = "send" /\ client = "open" /\ call \in [Callers -> CallType]
      /\ UNCHANGED <<sup, client, session, inHand, nextId, pending>>
      /\ call' = [call EXCEPT ![c].pc = "wait", ![c].session = session]
  BY DEF SendFrame, TypeOK, CallType
<1>1. call[c] \in CallType /\ call'[c] = [call[c] EXCEPT !.pc = "wait", !.session = session]
  BY <1>0
<1>2. /\ call'[c].pc = "wait" /\ call'[c].session = session
      /\ call'[c].id = call[c].id /\ call'[c].outcome = call[c].outcome
  BY <1>1 DEF CallType
<1>3. \A d \in Callers \ {c} : call'[d] = call[d]
  BY <1>0
<1>4. \A d \in Callers : /\ Open(d)' = Open(d)
                         /\ call'[d].id = call[d].id /\ call'[d].outcome = call[d].outcome
                         /\ (~Open(d) => call'[d] = call[d])
  BY <1>0, <1>2, <1>3 DEF Open
<1>5. Numbered'
  BY <1>0, <1>4 DEF Requests, Numbered
<1>6. Accounted'
  BY <1>0, <1>4 DEF Requests, Accounted
<1>7. InTime'
  <2>1. sup \in InSession
    BY <1>0 DEF Requests, InTime
  <2>2. \A d \in Callers : Waiting(d)' => call'[d].session = session
    BY <1>2, <1>3 DEF Requests, InTime, Waiting
  <2> QED
    BY <1>0, <2>1, <2>2 DEF InTime, InSession
<1> QED
  BY <1>5, <1>6, <1>7 DEF Requests

\* A call ends, and its request is registered no longer.
LEMMA DoneRequests ==
    ASSUME TypeOK, Requests, NEW c \in Callers, SendFails(c) \/ Wakes(c) \/ TimesOut(c)
    PROVE  Requests'
<1> USE DEF supervisor, requests, wire, delivery
<1>0. /\ Open(c) /\ call \in [Callers -> CallType]
      /\ UNCHANGED <<sup, client, session, inHand, nextId>>
      /\ call' = [call EXCEPT ![c] = IdleCall] /\ pending' = pending \ {call[c].id}
  BY DEF SendFails, Wakes, TimesOut, Done, TypeOK, CallType, Open
<1>1. call'[c] = IdleCall /\ ~Open(c)' /\ ~Waiting(c)'
  BY <1>0 DEF Open, Waiting, IdleCall
<1>2. \A d \in Callers \ {c} : call'[d] = call[d] /\ Open(d)' = Open(d) /\ Waiting(d)' = Waiting(d)
  BY <1>0 DEF Open, Waiting
<1>3. \A d \in Callers \ {c} : Open(d) => call[d].id # call[c].id
  BY <1>0 DEF Requests, Numbered
<1>4. Numbered'
  BY <1>0, <1>1, <1>2 DEF Requests, Numbered
<1>5. Accounted'
  <2>1. (pending \cap inHand = {})'
    BY <1>0 DEF Requests, Accounted
  <2>2. \A d \in Callers : Open(d)' =>
            IF call'[d].id \in pending' \cup inHand' THEN call'[d].outcome = {}
            ELSE call'[d].outcome \in {{"response"}, {"failed"}}
    BY <1>0, <1>1, <1>2, <1>3 DEF Requests, Accounted
  <2>3. \A id \in pending' \ {Subscribe} : \E d \in Callers : Open(d)' /\ call'[d].id = id
    <3> TAKE id \in pending' \ {Subscribe}
    <3>1. PICK d \in Callers : Open(d) /\ call[d].id = id
      BY <1>0 DEF Requests, Accounted
    <3> QED
      BY <1>0, <1>2, <3>1
  <2> QED
    BY <1>0, <2>1, <2>2, <2>3 DEF Requests, Accounted
<1>6. InTime'
  BY <1>0, <1>1, <1>2 DEF Requests, InTime
<1> QED
  BY <1>4, <1>5, <1>6 DEF Requests

\* Requests that are taken out and settled: what holds of the calls then.
LEMMA SettledRequests ==
    ASSUME TypeOK, Requests, NEW ids, ids \subseteq pending \cup inHand,
           NEW o \in {"response", "failed"}, call' = Settled(ids, o), nextId' = nextId,
           pending' = pending \ ids, inHand' = inHand \ ids
    PROVE  /\ Numbered'
           /\ (pending \cap inHand = {})'
           /\ \A c \in Callers : Open(c)' =>
                 IF call'[c].id \in pending' \cup inHand' THEN call'[c].outcome = {}
                 ELSE call'[c].outcome \in {{"response"}, {"failed"}}
           /\ \A id \in pending' \ {Subscribe} : \E c \in Callers : Open(c)' /\ call'[c].id = id
           /\ \A c \in Callers : Waiting(c)' => Waiting(c) /\ call[c].id \notin ids /\ call'[c] = call[c]
<1>0. call \in [Callers -> CallType]
  BY DEF TypeOK, CallType
<1>1. ASSUME NEW c \in Callers
      PROVE  /\ call'[c].pc = call[c].pc /\ call'[c].id = call[c].id
             /\ call'[c].session = call[c].session
             /\ Open(c)' = Open(c)
             /\ (~Open(c) \/ call[c].id \notin ids => call'[c] = call[c])
             /\ (Open(c) /\ call[c].id \in ids => call'[c].outcome = call[c].outcome \cup {o})
  <2>1. call[c] \in CallType
    BY <1>0
  <2>2. CASE Open(c) /\ call[c].id \in ids
    <3>1. call'[c] = [call[c] EXCEPT !.outcome = @ \cup {o}]
      BY <2>2 DEF Settled, Open
    <3> QED
      BY <2>1, <2>2, <3>1 DEF Open, CallType
  <2>3. CASE ~(Open(c) /\ call[c].id \in ids)
    <3>1. call'[c] = call[c]
      BY <2>3 DEF Settled, Open
    <3> QED
      BY <2>3, <3>1 DEF Open
  <2> QED
    BY <2>2, <2>3
<1>2. Numbered'
  <2>1. \A c \in Callers : IF Open(c)' THEN call'[c].id \in 1..(nextId' - 1) ELSE call'[c] = IdleCall
    BY <1>1 DEF Requests, Numbered
  <2>2. \A c, d \in Callers : Open(c)' /\ Open(d)' /\ call'[c].id = call'[d].id => c = d
    BY <1>1 DEF Requests, Numbered
  <2>3. inHand' \subseteq 1..(nextId' - 1)
    BY DEF Requests, Numbered
  <2> QED
    BY <2>1, <2>2, <2>3 DEF Numbered
<1>3. (pending \cap inHand = {})'
  BY DEF Requests, Accounted
<1>4. ASSUME NEW c \in Callers, Open(c)'
      PROVE  IF call'[c].id \in pending' \cup inHand' THEN call'[c].outcome = {}
             ELSE call'[c].outcome \in {{"response"}, {"failed"}}
  <2>1. CASE call[c].id \in ids
    <3>1. call[c].outcome = {}
      BY <1>1, <1>4, <2>1 DEF Requests, Accounted
    <3>2. call'[c].outcome = {o}
      BY <1>1, <1>4, <2>1, <3>1
    <3> QED
      BY <1>1, <2>1, <3>2
  <2>2. CASE call[c].id \notin ids
    BY <1>1, <1>4, <2>2 DEF Requests, Accounted
  <2> QED
    BY <2>1, <2>2
<1>5. ASSUME NEW id \in pending' \ {Subscribe}
      PROVE  \E c \in Callers : Open(c)' /\ call'[c].id = id
  BY <1>1 DEF Requests, Accounted
<1>6. ASSUME NEW c \in Callers, Waiting(c)'
      PROVE  Waiting(c) /\ call[c].id \notin ids /\ call'[c] = call[c]
  <2>1. Open(c)
    BY <1>1, <1>6 DEF Waiting, Open
  <2>2. call[c].id \notin ids
    BY <1>1, <1>6, <2>1 DEF Waiting
  <2> QED
    BY <1>1, <1>6, <2>2 DEF Waiting
<1> QED
  BY <1>2, <1>3, <1>4, <1>5, <1>6

\* The response that was taken out of pending_ reaches its caller.
LEMMA DeliverRequests ==
    ASSUME TypeOK, Requests, Deliver
    PROVE  Requests'
<1> USE DEF supervisor, requests, wire, delivery
<1>1. /\ inHand \subseteq pending \cup inHand
      /\ call' = Settled(inHand, "response") /\ nextId' = nextId
      /\ pending' = pending \ inHand /\ inHand' = inHand \ inHand
  BY DEF Deliver, Requests, Accounted
<1>2. /\ sup = "deliver" /\ sup' = "loop" /\ inHand' = {}
      /\ UNCHANGED <<client, session, pending>>
  BY DEF Deliver
<1>3. Numbered' /\ Accounted'
  BY <1>1, <1>2, SettledRequests DEF Requests, Accounted
<1>4. \A c \in Callers : Waiting(c)' => Waiting(c) /\ call'[c] = call[c]
  BY <1>1, SettledRequests
<1>5. InTime'
  BY <1>2, <1>4 DEF Requests, InTime, InSession
<1> QED
  BY <1>3, <1>5 DEF Requests

\* The last step of a session leaves nobody waiting.
LEMMA OverRequests ==
    ASSUME TypeOK, Requests, SessionOver
    PROVE  Requests'
<1> USE DEF supervisor, requests, wire, delivery
<1>1. /\ inHand \subseteq pending \cup inHand
      /\ call' = Settled(inHand, "failed") /\ nextId' = nextId
      /\ pending' = pending \ inHand /\ inHand' = inHand \ inHand
  BY DEF SessionOver, Requests, Accounted
<1>2. /\ sup = "failed" /\ sup' \in {"exited", "sleep"} /\ inHand' = {}
      /\ UNCHANGED <<client, session, pending>>
  BY DEF SessionOver
<1>3. Numbered' /\ Accounted'
  BY <1>1, <1>2, SettledRequests DEF Requests, Accounted
<1>4. \A c \in Callers : Waiting(c)' => Waiting(c) /\ call[c].id \notin inHand
  BY <1>1, SettledRequests
<1>5. \A c \in Callers : ~Waiting(c)'
  BY <1>2, <1>4 DEF Requests, InTime
<1>6. InTime'
  BY <1>2, <1>5 DEF Requests, InTime, InSession
<1> QED
  BY <1>3, <1>6 DEF Requests

\* stop() fails what is registered after the supervisor has ended.
LEMMA StopRequests ==
    ASSUME TypeOK, Requests, Ending, StopJoinsNotifier
    PROVE  Requests'
<1> USE DEF supervisor, requests, wire, delivery
<1>0. sup = "exited" /\ inHand = {}
  BY DEF StopJoinsNotifier, Ending, Requests, Accounted
<1>1. /\ pending \subseteq pending \cup inHand
      /\ call' = Settled(pending, "failed") /\ nextId' = nextId
      /\ pending' = pending \ pending /\ inHand' = inHand \ pending
  BY <1>0 DEF StopJoinsNotifier
<1>2. pending' = {} /\ inHand' = {} /\ UNCHANGED <<sup, client, session>>
  BY <1>0 DEF StopJoinsNotifier
<1>3. Numbered' /\ Accounted'
  BY <1>1, <1>2, SettledRequests DEF Requests, Accounted
<1>4. \A c \in Callers : Waiting(c)' => Waiting(c) /\ call'[c] = call[c]
  BY <1>1, SettledRequests
<1>5. InTime'
  BY <1>0, <1>2, <1>4 DEF Requests, InTime, InSession
<1> QED
  BY <1>3, <1>5 DEF Requests

\* Requests leave pending_ for the hands of the supervisor: one that is
\* answered, or all of them at the end of the session.
LEMMA TakenRequests ==
    ASSUME TypeOK, Requests, Dispatch \/ FailTakes
    PROVE  Requests'
<1> USE DEF supervisor, requests, wire, delivery
<1>0. UNCHANGED <<nextId, call, session, client>> /\ inHand = {}
  BY DEF Dispatch, FailTakes, Requests, Accounted
<1>1. \A c \in Callers : Open(c)' = Open(c) /\ Waiting(c)' = Waiting(c)
  BY <1>0 DEF Open, Waiting
<1>2. /\ pending' \cup inHand' = pending /\ pending' \cap inHand' = {}
      /\ Subscribe \notin inHand'
      /\ \/ sup = "read" /\ sup' = "deliver" /\ inHand' # {}
         \/ sup = "read" /\ sup' = "loop" /\ inHand' = {}
         \/ sup = "fail" /\ sup' = "failed" /\ pending' = {}
  BY <1>0 DEF Dispatch, FailTakes, Requests, Accounted
<1>3. inHand' \subseteq 1..(nextId - 1)
  BY <1>2 DEF Requests, Accounted, Numbered
<1>4. Numbered'
  BY <1>0, <1>1, <1>3 DEF Requests, Numbered
<1>5. Accounted'
  BY <1>0, <1>1, <1>2 DEF Requests, Accounted
<1>6. InTime'
  <2>1. \A c \in Callers : Waiting(c) => call[c].session = session /\ call[c].id \in pending
    BY <1>0 DEF Requests, InTime, Accounted, Waiting, Open
  <2> QED
    BY <1>0, <1>1, <1>2, <2>1 DEF Requests, InTime, InSession
<1> QED
  BY <1>4, <1>5, <1>6 DEF Requests

-----------------------------------------------------------------------------
(* The invariant *)

LEMMA InitInv == Init => Inv
<1> SUFFICES ASSUME Init
             PROVE  Inv
  OBVIOUS
<1> USE BoundsAssumption DEF Init, Start
<1>1. IdleCall \in CallType
  BY DEF IdleCall, CallType
<1>2. call \in [Callers -> CallType] /\ \A c \in Callers : call[c] = IdleCall
  BY <1>1
<1>3. subscribed \in BOOLEAN
  BY Zenon
<1>4. 1 \in 1..(MaxCalls + 1) /\ 0 \in 0..MaxSessions
  OBVIOUS
<1>5. inbox \in Seq(Frame) /\ events \in Seq(Events) /\ told \in Events
  BY DEF Events
<1>6. TypeOK
  BY <1>2, <1>3, <1>4, <1>5 DEF TypeOK, CallType
<1>7. Numbered /\ Accounted /\ InTime
  BY <1>2 DEF Numbered, Accounted, InTime, Open, Waiting, IdleCall
<1>8. Announced /\ Ending
  BY DEF Announced, Ending, Latest
<1> QED
  BY <1>6, <1>7, <1>8 DEF Inv, Requests

LEMMA NextInv == Inv /\ [Next]_vars => Inv'
<1> SUFFICES ASSUME Inv, [Next]_vars
             PROVE  Inv'
  OBVIOUS
<1>0. TypeOK /\ Requests /\ Numbered /\ Announced /\ Ending
  BY DEF Inv, Requests
<1>1. ASSUME NEW c \in Callers, Register(c) \/ CallerStep(c)
      PROVE  Inv'
  <2>1. TypeOK'
    BY <1>0, <1>1, CallerTyped
  <2>2. Requests'
    BY <1>0, <1>1, RegisterRequests, SendRequests, DoneRequests DEF CallerStep
  <2>3. (Announced /\ Ending)'
    BY <1>0, <1>1, OthersAnnounce
  <2> QED
    BY <2>1, <2>2, <2>3 DEF Inv
<1>2. CASE Supervisor
  <2>1. TypeOK'
    BY <1>0, <1>2, SessionTyped, DispatchTyped DEF Supervisor
  <2>2. Requests'
    BY <1>0, <1>2, SessionRequests, SubscriptionRequests, DeliverRequests, OverRequests,
       TakenRequests DEF Supervisor
  <2>3. (Announced /\ Ending)'
    BY <1>0, <1>2, SupervisorAnnounces
  <2> QED
    BY <2>1, <2>2, <2>3 DEF Inv
<1>3. CASE \/ \E id \in venue, type \in {"answer", "refusal"} : VenueAnswers(id, type)
           \/ VenueShutsDown \/ ConnectionLost
           \/ Notifier \/ Stopper
  <2>1. TypeOK'
    BY <1>0, <1>3, OthersTyped
  <2>2. Requests'
    BY <1>0, <1>3, OthersRequests, StopRequests DEF Stopper
  <2>3. (Announced /\ Ending)'
    BY <1>0, <1>3, OthersAnnounce
  <2> QED
    BY <2>1, <2>2, <2>3 DEF Inv
<1>4. CASE UNCHANGED vars
  BY <1>0, <1>4, SMTT(30) DEF vars, supervisor, requests, wire, delivery, Inv, TypeOK, Requests, Numbered,
     Accounted, InTime, Announced, Ending, Open, Waiting, Latest
<1> QED
  BY <1>1, <1>2, <1>3, <1>4 DEF Next

LEMMA Invariance == Spec => []Inv
BY InitInv, NextInv, PTL DEF Spec

-----------------------------------------------------------------------------
(* Theorems *)

\* The type invariant.
THEOREM TypeCorrect == Spec => []TypeOK
<1>1. Inv => TypeOK
  BY DEF Inv
<1> QED
  BY <1>1, Invariance, PTL

\* No caller of call() waits for a session that is over: fail_all_pending
\* reaches every request that was sent before the client was taken away.
THEOREM Awaited == Spec => []NobodyStranded
<1>1. Inv => NobodyStranded
  BY DEF Inv, Requests, InTime, InSession, Waiting, NobodyStranded
<1> QED
  BY <1>1, Invariance, PTL

\* dispatch_message and fail_all_pending never settle the same request.
THEOREM SettledOnce == Spec => []OneOutcome
<1>1. ASSUME Inv, NEW c \in Callers
      PROVE  call[c].outcome \in {{}, {"response"}, {"failed"}}
  <2>1. CASE Open(c)
    BY <1>1, <2>1 DEF Inv, Requests, Accounted
  <2>2. CASE ~Open(c)
    BY <1>1, <2>2 DEF Inv, Requests, Numbered, IdleCall
  <2> QED
    BY <2>1, <2>2
<1>2. {"response", "failed"} \notin {{}, {"response"}, {"failed"}}
  OBVIOUS
<1>3. Inv => OneOutcome
  BY <1>1, <1>2 DEF OneOutcome
<1> QED
  BY <1>3, Invariance, PTL

\* pending_ holds no request whose call is over, and no subscription of a
\* session that is over.
THEOREM PendingIsOpen == Spec => []NoLeak
<1>1. Inv => NoLeak
  BY DEF Inv, Requests, Accounted, NoLeak
<1> QED
  BY <1>1, Invariance, PTL

\* pump_events delivers in order, so that the handler, once it has caught up,
\* knows how the stream stands.
THEOREM ToldTheTruth == Spec => []HandlerUpToDate
<1>1. ASSUME Inv, events = <<>>
      PROVE  /\ sup \in {"loop", "read", "deliver"} => (told = "Connected" <=> subscribed)
             /\ sup = "sleep" => told = "Disconnected"
  BY <1>1 DEF Inv, Announced, Latest
<1>2. Inv => subscribed \in BOOLEAN
  BY DEF Inv, TypeOK
<1>3. Inv => HandlerUpToDate
  BY <1>1, <1>2, Zenon DEF HandlerUpToDate
<1> QED
  BY <1>3, Invariance, PTL

\* stop() returns with both threads ended, the last event delivered and nobody
\* waiting.
THEOREM CleanStop == Spec => []StopIsClean
<1>1. Inv => StopIsClean
  BY DEF Inv, Requests, InTime, InSession, Waiting, Announced, Latest, Ending, StopIsClean
<1> QED
  BY <1>1, Invariance, PTL

=============================================================================
