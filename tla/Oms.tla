-------------------------------- MODULE Oms --------------------------------
(***************************************************************************)
(* The order management system with everything that runs around its        *)
(* registry: REST caller threads in place, cancel and amend, the venue's   *)
(* feed thread in on_execution_report, the threads that reconcile (main at *)
(* startup, a feed thread on reconnect), the event log, and a process      *)
(* crash followed by a restart from the log.                               *)
(*                                                                         *)
(* mutex_ is the variable lock.  A critical section that the code leaves   *)
(* without looping is one step; one that loops (draining raced reports,    *)
(* applying a listing) or appends twice is one step per iteration or       *)
(* append with the lock held, so that a crash can fall between two         *)
(* appends.  Venue calls happen between steps, without the lock.           *)
(*                                                                         *)
(* Replay is a left fold over the log, entry by entry, so the log is       *)
(* represented by what load_from_log would rebuild from it: disk.          *)
(***************************************************************************)
EXTENDS OrderRecord

CONSTANTS
    Ids,            \* client order ids
    Clients,        \* threads that call place, cancel and amend
    Recons,         \* threads that call reconcile
    Main,           \* the one of Recons that runs the startup reconcile
    None,           \* no thread, no id
    Quantities,     \* quantities that a place or an amend asks for
    MaxPosition,    \* the risk limit on the projected position
    InPlace,        \* TRUE: amends keep the order (OKX); FALSE: cancelReplace (Binance)
    Foreign,        \* ids that may be live on the venue before the gateway starts
    Faults,         \* the misfortunes a run allows
    MaxAmends,      \* bound: amends sent to the venue
    MaxAppendFails, \* bound: failing appends
    MaxCrashes      \* bound: crashes

Threads == Clients \cup Recons

ASSUME OmsAssumption ==
    /\ Main \in Recons
    /\ Clients \cap Recons = {}
    /\ None \notin Threads \cup Ids
    /\ Quantities \subseteq Nat \ {0}
    /\ MaxPosition \in Nat
    /\ InPlace \in BOOLEAN
    /\ Foreign \subseteq Ids
    /\ Faults \subseteq {"lost_ack", "late_request", "feed_loss", "venue_cancel"}
    /\ MaxAmends \in Nat /\ MaxAppendFails \in Nat /\ MaxCrashes \in Nat

VARIABLES
    orders,   \* orders_: the registry
    flying,   \* the keys of raced_reports_: ids with an open place or amend
    raced,    \* the values of raced_reports_
    disk,     \* the registry that replaying the log would rebuild
    unlogged, \* history: ids with a failed append since the last start
    lock,     \* the holder of mutex_, or None
    call,     \* the local state of each caller thread
    recon,    \* the local state of each reconciling thread
    up,       \* the REST server is serving
    venue,    \* the venue's own order per client order id
    feed,     \* execution reports on their way to the gateway
    late,     \* requests whose call has timed out but may still be delivered
    sent,     \* history: place requests sent to the venue per id
    amendsLeft, failsLeft, crashesLeft  \* what is left of the bounds

log      == <<disk, unlogged, failsLeft>>
registry == <<orders, flying, raced>>
market   == <<venue, feed, late>>
others   == <<sent, amendsLeft, crashesLeft>>
vars     == <<registry, log, lock, call, recon, up, market, others>>

-----------------------------------------------------------------------------
(* Types *)

Ops == {"place", "cancel", "amend"}

FeedReport == [id : Ids, report : Report]

Request == [op : Ops, id : Ids, qty : Nat]

IdleCall == [pc |-> "idle", op |-> "place", id |-> None, qty |-> 0, ack |-> 0,
             raced |-> <<>>]

\* pc "call": the venue call is open; "drain": applying raced reports with
\* the lock held.  ack is 0 until the venue has executed the request, then
\* the exchange order id that the response carries.
Call == [pc : {"idle", "call", "drain"}, op : Ops, id : Ids \cup {None}, qty : Nat,
         ack : Nat, raced : Seq(Report)]

ListingEntry == [id : Ids, snap : Snapshot]

IdleRecon == [pc |-> "idle", listing |-> {}, work |-> {}, item |-> None, found |-> {}]

\* pc "listed": a listing is at hand; "lookup": working off the worklist;
\* "apply": the lookup of item has answered, found being empty for absence;
\* "absent": between the two appends of a conclusive absence.
Recon == [pc : {"idle", "listed", "lookup", "apply", "absent"},
          listing : SUBSET ListingEntry, work : SUBSET Ids, item : Ids \cup {None},
          found : SUBSET Snapshot]

\* prior: what the replaced legs of an order executed.
VenueOrder == [state : VenueStates \cup {"none"}, filled : Nat, qty : Nat,
               xid : Nat, prior : Nat]

NoVenueOrder == [state |-> "none", filled |-> 0, qty |-> 0, xid |-> 0, prior |-> 0]

NewVenueOrder(qty) == [NoVenueOrder EXCEPT !.state = "Live", !.qty = qty, !.xid = 1]

\* Types of the registry, the log, the threads and the venue.
TypeOK ==
    /\ orders \in [Ids -> Record]
    /\ flying \subseteq Ids
    /\ raced \in [Ids -> Seq(Report)]
    /\ disk \in [Ids -> Record]
    /\ unlogged \subseteq Ids
    /\ lock \in Threads \cup {None}
    /\ call \in [Clients -> Call]
    /\ \A c \in Clients : call[c].pc # "idle" => call[c].id \in Ids
    /\ recon \in [Recons -> Recon]
    /\ \A t \in Recons : recon[t].pc \in {"apply", "absent"} => recon[t].item \in Ids
    /\ up \in BOOLEAN
    /\ venue \in [Ids -> VenueOrder]
    /\ feed \in Seq(FeedReport)
    /\ late \subseteq Request
    /\ sent \in [Ids -> Nat]
    /\ amendsLeft \in Nat /\ failsLeft \in Nat /\ crashesLeft \in Nat

Init ==
    /\ orders = [id \in Ids |-> NoRecord]
    /\ flying = {}
    /\ raced = [id \in Ids |-> <<>>]
    /\ disk = [id \in Ids |-> NoRecord]
    /\ unlogged = {}
    /\ lock = None
    /\ call = [c \in Clients |-> IdleCall]
    /\ recon = [r \in Recons |-> IdleRecon]
    /\ up = FALSE
    /\ \E F \in SUBSET Foreign, qty \in [Foreign -> Quantities] :
          venue = [id \in Ids |-> IF id \in F THEN NewVenueOrder(qty[id])
                                              ELSE NoVenueOrder]
    /\ feed = <<>>
    /\ late = {}
    /\ sent = [id \in Ids |-> 0]
    /\ amendsLeft = MaxAmends /\ failsLeft = MaxAppendFails /\ crashesLeft = MaxCrashes

-----------------------------------------------------------------------------
(* The log *)

Logged(id, type, r) ==
    /\ disk' = [disk EXCEPT ![id] = replay(@, type, r)]
    /\ UNCHANGED <<unlogged, failsLeft>>

LogFails(id) ==
    /\ failsLeft > 0
    /\ failsLeft' = failsLeft - 1
    /\ unlogged' = unlogged \cup {id}
    /\ UNCHANGED disk

\* append_event: a failure is only counted.
append_event(id, type, r) == Logged(id, type, r) \/ LogFails(id)

-----------------------------------------------------------------------------
(* The venue (external): it executes a request at most once, refuses a     *)
(* duplicate client order id, and reports every change on the feed.        *)

ReportOf(id, v) ==
    [id |-> id, report |-> [state |-> v.state, filled |-> v.filled, xid |-> v.xid]]

VenueMoves(id, v) ==
    /\ venue' = [venue EXCEPT ![id] = v]
    /\ feed' = Append(feed, ReportOf(id, v))

\* cancelReplace: the old leg is canceled, the replacement starts unfilled
\* under a new exchange order id.
VenueReplaces(id, qty) ==
    LET old == [venue[id] EXCEPT !.state = "Canceled"]
        new == [NewVenueOrder(qty) EXCEPT !.xid = old.xid + 1,
                                          !.prior = old.prior + old.filled]
    IN  /\ venue' = [venue EXCEPT ![id] = new]
        /\ feed' = feed \o <<ReportOf(id, old), ReportOf(id, new)>>

VenueExecutes(op, id, qty) ==
    \/ op = "place"  /\ venue[id].state = "none" /\ VenueMoves(id, NewVenueOrder(qty))
    \/ op = "cancel" /\ Working(venue[id].state)
                     /\ VenueMoves(id, [venue[id] EXCEPT !.state = "Canceled"])
    \/ op = "amend"  /\ Working(venue[id].state) /\ InPlace /\ qty > venue[id].filled
                     /\ VenueMoves(id, [venue[id] EXCEPT !.qty = qty])
    \/ op = "amend"  /\ Working(venue[id].state) /\ ~InPlace /\ VenueReplaces(id, qty)

\* The request of an open call reaches the venue and is executed.
VenueAnswers(c) ==
    /\ call[c].pc = "call" /\ call[c].ack = 0
    /\ VenueExecutes(call[c].op, call[c].id, call[c].qty)
    /\ call' = [call EXCEPT ![c].ack = venue'[call[c].id].xid]
    /\ UNCHANGED <<registry, log, lock, recon, up, late, others>>

\* A request reaches the venue after its call has timed out.
LateArrival(q) ==
    /\ VenueExecutes(q.op, q.id, q.qty)
    /\ late' = late \ {q}
    /\ UNCHANGED <<registry, log, lock, call, recon, up, others>>

VenueFill(id) ==
    LET v == [venue[id] EXCEPT !.filled = @ + 1] IN
    /\ Working(venue[id].state)
    /\ VenueMoves(id, [v EXCEPT !.state = IF v.filled = v.qty THEN "Filled"
                                                              ELSE "PartiallyFilled"])
    /\ UNCHANGED <<registry, log, lock, call, recon, up, late, others>>

\* An order ends without a request of the gateway: an IOC or FOK remainder
\* expires, or it is canceled from another session.
VenueCancel(id) ==
    /\ "venue_cancel" \in Faults
    /\ Working(venue[id].state)
    /\ VenueMoves(id, [venue[id] EXCEPT !.state = "Canceled"])
    /\ UNCHANGED <<registry, log, lock, call, recon, up, late, others>>

\* The connection drops with reports undelivered; the venue never resends.
FeedLoss ==
    /\ "feed_loss" \in Faults
    /\ feed # <<>>
    /\ feed' = <<>>
    /\ UNCHANGED <<registry, log, lock, call, recon, up, venue, late, others>>

-----------------------------------------------------------------------------
(* Caller threads: place *)

\* Every order of the model is a buy of one symbol.  The outstanding part of
\* the candidate itself is replaced by that of the new quantity.
Outstanding(qty, filled) == IF qty > filled THEN qty - filled ELSE 0

projected_position(id, qty) ==
    LET Contribution(i) ==
            orders[i].filled
              + (IF i = id THEN Outstanding(qty, orders[i].filled)
                 ELSE IF is_terminal(orders[i].state) THEN 0
                 ELSE Outstanding(orders[i].qty, orders[i].filled))
    IN  MapThenSumSet(Contribution, Ids)

check_risk(id, qty) == projected_position(id, qty) <= MaxPosition

\* A caller enters the OMS: the server is up and mutex_ is free.
Enters(c) == up /\ lock = None /\ call[c].pc = "idle"

OpenCall(c, op, id, qty) ==
    call' = [call EXCEPT ![c] = [IdleCall EXCEPT !.pc = "call", !.op = op,
                                                 !.id = id, !.qty = qty]]

\* raced_reports_.try_emplace
OpenRaced(id) ==
    /\ flying' = flying \cup {id}
    /\ raced' = [raced EXCEPT ![id] = <<>>]

\* Faulty variant: the entry is not erased.
LeaveRaced(id) == UNCHANGED <<flying, raced>>

\* drain_raced_reports: the entry goes; its reports are the caller's.
CloseRaced(id) ==
    /\ flying' = flying \ {id}
    /\ raced' = [raced EXCEPT ![id] = <<>>]

\* place of a known id replays the recorded outcome and changes nothing; so
\* does a place for an unknown venue.
PlaceRiskRejected(c, id, qty) ==
    LET r == [NewRecord(qty) EXCEPT !.state = "Rejected", !.rejection = "risk"] IN
    /\ Enters(c) /\ ~known(orders[id])
    /\ ~check_risk(id, qty)
    /\ orders' = [orders EXCEPT ![id] = r]
    /\ append_event(id, "rejected", r)
    /\ UNCHANGED <<flying, raced, lock, call, recon, up, market, others>>

\* Faulty variant: a still-Pending entry is sent again.
PlaceStagedAgain(c, id, qty) ==
    /\ Enters(c) /\ orders[id].state \in {"none", "Pending"} /\ id \notin flying
    /\ check_risk(id, qty)
    /\ orders' = [orders EXCEPT ![id] = NewRecord(qty)]
    /\ Logged(id, "place_submitted", NewRecord(qty))
    /\ OpenRaced(id)
    /\ OpenCall(c, "place", id, qty)
    /\ sent' = [sent EXCEPT ![id] = @ + 1]
    /\ UNCHANGED <<lock, recon, up, market, amendsLeft, crashesLeft>>

\* Faulty variant: a failing place_submitted does not stop the send.
PlaceStagedUnlogged(c, id, qty) ==
    /\ Enters(c) /\ ~known(orders[id])
    /\ check_risk(id, qty)
    /\ orders' = [orders EXCEPT ![id] = NewRecord(qty)]
    /\ append_event(id, "place_submitted", NewRecord(qty))
    /\ OpenRaced(id)
    /\ OpenCall(c, "place", id, qty)
    /\ sent' = [sent EXCEPT ![id] = @ + 1]
    /\ UNCHANGED <<lock, recon, up, market, amendsLeft, crashesLeft>>

\* The intent is on disk before the record exists and before the venue call.
PlaceStaged(c, id, qty) ==
    /\ Enters(c) /\ ~known(orders[id])
    /\ check_risk(id, qty)
    /\ orders' = [orders EXCEPT ![id] = NewRecord(qty)]
    /\ Logged(id, "place_submitted", NewRecord(qty))
    /\ OpenRaced(id)
    /\ OpenCall(c, "place", id, qty)
    /\ sent' = [sent EXCEPT ![id] = @ + 1]
    /\ UNCHANGED <<lock, recon, up, market, amendsLeft, crashesLeft>>

\* A lost place_submitted aborts: nothing is recorded, nothing is sent.
PlaceNotPersisted(c, id, qty) ==
    /\ Enters(c) /\ ~known(orders[id])
    /\ check_risk(id, qty)
    /\ failsLeft > 0 /\ failsLeft' = failsLeft - 1
    /\ UNCHANGED <<registry, disk, unlogged, lock, call, recon, up, market, others>>

-----------------------------------------------------------------------------
(* Caller threads: the second critical section *)

Returns(c, op) == call[c].pc = "call" /\ call[c].op = op /\ lock = None

\* The caller applies the reports q one by one under the lock, then returns.
Settle(c, q) ==
    /\ call' = [call EXCEPT ![c] = IF q = <<>> THEN IdleCall
                                   ELSE [@ EXCEPT !.pc = "drain", !.raced = q]]
    /\ lock' = IF q = <<>> THEN None ELSE c

Finish(c) == Settle(c, <<>>)

\* A call ends in a transport error: the request was lost, or the answer
\* was, or the request is still under way.
TransportError(c) ==
    \/ /\ call[c].ack = 0 \/ "lost_ack" \in Faults
       /\ UNCHANGED late
    \/ /\ "late_request" \in Faults /\ call[c].ack = 0
       /\ late' = late \cup {[op |-> call[c].op, id |-> call[c].id, qty |-> call[c].qty]}

\* Faulty variant: the reports that raced the ack are always dropped.
PlaceAcceptedDropping(c) ==
    LET id == call[c].id
        r  == [note_exchange_id(orders[id], call[c].ack)
                  EXCEPT !.state = apply_transition(@, "Live")]
    IN  /\ Returns(c, "place") /\ call[c].ack # 0
        /\ orders' = [orders EXCEPT ![id] = r]
        /\ CloseRaced(id)
        /\ append_event(id, "place_accepted", r) /\ Finish(c)
        /\ UNCHANGED <<recon, up, market, others>>

PlaceAccepted(c) ==
    LET id == call[c].id
        r  == [note_exchange_id(orders[id], call[c].ack)
                  EXCEPT !.state = apply_transition(@, "Live")]
    IN  /\ Returns(c, "place") /\ call[c].ack # 0
        /\ orders' = [orders EXCEPT ![id] = r]
        /\ CloseRaced(id)
        /\ \/ Logged(id, "place_accepted", r) /\ Settle(c, raced[id])
           \/ LogFails(id) /\ Finish(c)     \* the raced reports are dropped
        /\ UNCHANGED <<recon, up, market, others>>

\* A definitive rejection; the raced reports are dropped.
PlaceRefused(c) ==
    LET id == call[c].id
        r  == [orders[id] EXCEPT !.state = "Rejected", !.rejection = "venue"]
    IN  /\ Returns(c, "place") /\ call[c].ack = 0
        /\ CloseRaced(id)
        /\ IF can_transition(orders[id].state, "Rejected")
           THEN orders' = [orders EXCEPT ![id] = r] /\ append_event(id, "rejected", r)
           ELSE UNCHANGED <<orders, log>>
        /\ Finish(c)
        /\ UNCHANGED <<recon, up, market, others>>

\* A transport error: the record stays Pending.
PlaceUnresolved(c) ==
    LET id == call[c].id IN
    /\ Returns(c, "place")
    /\ CloseRaced(id)
    /\ Settle(c, raced[id])
    /\ TransportError(c)
    /\ UNCHANGED <<orders, log, recon, up, venue, feed, others>>

\* apply_arbitrated_report and the state event of what it changed.
ApplyReport(id, report) ==
    LET r == apply_arbitrated_report(orders[id], report) IN
    /\ orders' = [orders EXCEPT ![id] = r]
    /\ IF r # Arbitrated(orders[id], report) THEN append_event(id, "state", r)
                                             ELSE UNCHANGED log

Drain(c) ==
    /\ call[c].pc = "drain"
    /\ ApplyReport(call[c].id, Head(call[c].raced))
    /\ Settle(c, Tail(call[c].raced))
    /\ UNCHANGED <<flying, raced, recon, up, market, others>>

-----------------------------------------------------------------------------
(* Caller threads: cancel *)

\* Pending and terminal orders are answered without a venue call.
CancelSent(c, id) ==
    /\ Enters(c) /\ Working(orders[id].state)
    /\ OpenCall(c, "cancel", id, 0)
    /\ UNCHANGED <<registry, log, lock, recon, up, market, others>>

\* The order has been canceled: by this request, or before it, which the
\* connector finds out in a lookup and takes for a success.
CancelAccepted(c) ==
    LET id == call[c].id
        r  == note_exchange_id(orders[id], venue[id].xid)
        canceled == [r EXCEPT !.state = "Canceled"]
    IN  /\ Returns(c, "cancel") /\ venue[id].state = "Canceled"
        /\ IF can_transition(r.state, "Canceled")
           THEN orders' = [orders EXCEPT ![id] = canceled] /\ append_event(id, "state", canceled)
           ELSE orders' = [orders EXCEPT ![id] = r] /\ UNCHANGED log
        /\ Finish(c)
        /\ UNCHANGED <<flying, raced, recon, up, market, others>>

\* A venue or transport error is returned; the record is left alone.
CancelFailed(c) ==
    /\ Returns(c, "cancel")
    /\ Finish(c)
    /\ TransportError(c)
    /\ UNCHANGED <<registry, log, recon, up, venue, feed, others>>

-----------------------------------------------------------------------------
(* Caller threads: amend *)

\* Faulty variant: no order_busy.
AmendSentBusy(c, id, qty) ==
    /\ amendsLeft > 0 /\ amendsLeft' = amendsLeft - 1
    /\ Enters(c) /\ Working(orders[id].state)
    /\ check_risk(id, qty)
    /\ OpenRaced(id)
    /\ OpenCall(c, "amend", id, qty)
    /\ UNCHANGED <<orders, log, lock, recon, up, market, sent, crashesLeft>>

\* Pending and terminal orders, a risk rejection and order_busy (an open
\* place or amend of the same id) are answered without a venue call.
AmendSent(c, id, qty) ==
    /\ amendsLeft > 0 /\ amendsLeft' = amendsLeft - 1
    /\ Enters(c) /\ Working(orders[id].state)
    /\ check_risk(id, qty)
    /\ id \notin flying
    /\ OpenRaced(id)
    /\ OpenCall(c, "amend", id, qty)
    /\ UNCHANGED <<orders, log, lock, recon, up, market, sent, crashesLeft>>

\* Faulty variant: the reports that raced the amend are always dropped.
AmendAcceptedDropping(c) ==
    LET id == call[c].id
        r  == append_amend_leg([orders[id] EXCEPT !.qty = call[c].qty], call[c].ack)
    IN  /\ Returns(c, "amend") /\ call[c].ack # 0
        /\ orders' = [orders EXCEPT ![id] = r]
        /\ CloseRaced(id)
        /\ append_event(id, "amended", r) /\ Finish(c)
        /\ UNCHANGED <<recon, up, market, others>>

AmendAccepted(c) ==
    LET id == call[c].id
        r  == append_amend_leg([orders[id] EXCEPT !.qty = call[c].qty], call[c].ack)
    IN  /\ Returns(c, "amend") /\ call[c].ack # 0
        /\ orders' = [orders EXCEPT ![id] = r]
        /\ CloseRaced(id)
        /\ \/ Logged(id, "amended", r) /\ Settle(c, raced[id])
           \/ LogFails(id) /\ Finish(c)     \* the raced reports are dropped
        /\ UNCHANGED <<recon, up, market, others>>

\* The newest id among the raced reports q that the leg table does not know.
NewestUnknown(r, q) ==
    LET unknown == {i \in DOMAIN q : q[i].xid # 0 /\ leg_index_of(r, q[i].xid) = 0}
    IN  IF r.legs = <<>> \/ unknown = {} THEN 0 ELSE q[Max(unknown)].xid

\* A venue error (the request was not executed) or a transport error.
AmendFailed(c) ==
    LET id == call[c].id IN
    /\ Returns(c, "amend")
    /\ orders' = [orders EXCEPT ![id] = note_exchange_id(@, NewestUnknown(@, raced[id]))]
    /\ CloseRaced(id)
    /\ Settle(c, raced[id])
    /\ TransportError(c)
    /\ UNCHANGED <<log, recon, up, venue, feed, others>>

-----------------------------------------------------------------------------
(* The feed thread: on_execution_report *)

\* An open place or amend of the id: the report waits for its outcome.
ReportBuffered ==
    LET id == Head(feed).id IN
    /\ feed # <<>> /\ lock = None
    /\ id \in flying
    /\ raced' = [raced EXCEPT ![id] = Append(@, Head(feed).report)]
    /\ feed' = Tail(feed)
    /\ UNCHANGED <<orders, flying, log, lock, call, recon, up, venue, late, others>>

\* A report about an id the registry does not hold is only counted.
ReportUnknown ==
    LET id == Head(feed).id IN
    /\ feed # <<>> /\ lock = None
    /\ id \notin flying /\ ~known(orders[id])
    /\ feed' = Tail(feed)
    /\ UNCHANGED <<registry, log, lock, call, recon, up, venue, late, others>>

ReportArbitrated ==
    LET id == Head(feed).id IN
    /\ feed # <<>> /\ lock = None
    /\ id \notin flying /\ known(orders[id])
    /\ ApplyReport(id, Head(feed).report)
    /\ feed' = Tail(feed)
    /\ UNCHANGED <<flying, raced, lock, call, recon, up, venue, late, others>>

-----------------------------------------------------------------------------
(* Reconciling threads *)

SnapshotOf(id) ==
    [state |-> venue[id].state, filled |-> venue[id].filled,
     qty |-> venue[id].qty, xid |-> venue[id].xid]

OpenOrders == {[id |-> id, snap |-> SnapshotOf(id)] : id \in {i \in Ids : Working(venue[i].state)}}

\* get_open_orders answers or fails; a failed listing is skipped.  The main
\* thread reconciles once, before it serves; a feed thread on each connect.
ReconList(t) ==
    /\ recon[t].pc = "idle"
    /\ t = Main => ~up
    /\ \E listing \in {OpenOrders, {}} :
          recon' = [recon EXCEPT ![t] = [IdleRecon EXCEPT !.pc = "listed", !.listing = listing]]
    /\ UNCHANGED <<registry, log, lock, call, up, market, others>>

\* Faulty variant: the lock is not given back after the last entry.
ListedLocked(t, e) ==
    /\ recon[t].pc = "listed"
    /\ e \in recon[t].listing
    /\ lock \in {None, t}
    /\ recon' = [recon EXCEPT ![t].listing = @ \ {e}]
    /\ lock' = t
    /\ UNCHANGED <<flying, raced, call, up, market, others>>

\* Phase A, one listing entry under the lock, which is kept to the last one.
Listed(t, e) ==
    /\ recon[t].pc = "listed"
    /\ e \in recon[t].listing
    /\ lock \in {None, t}
    /\ recon' = [recon EXCEPT ![t].listing = @ \ {e}]
    /\ lock' = IF recon[t].listing = {e} THEN None ELSE t
    /\ UNCHANGED <<flying, raced, call, up, market, others>>

\* An open place or amend owns its id.
ListedSkipped(t, e) ==
    /\ Listed(t, e)
    /\ e.id \in flying
    /\ UNCHANGED <<orders, log>>

ListedAdopted(t, e) ==
    /\ Listed(t, e)
    /\ e.id \notin flying /\ ~known(orders[e.id])
    /\ orders' = [orders EXCEPT ![e.id] = record_from_snapshot(e.snap)]
    /\ append_event(e.id, "adopted", record_from_snapshot(e.snap))

\* Backfills an empty id, then applies the snapshot with its quantity.
Refreshed(r, s) ==
    apply_observation(IF r.xid = 0 THEN note_exchange_id(r, s.xid) ELSE r,
                      s.state, s.filled, s.qty, TRUE)

\* Faulty variant: a listing entry is applied although a call owns its id.
ListedRefreshedAnyway(t, e) ==
    LET r == Refreshed(orders[e.id], e.snap) IN
    /\ Listed(t, e)
    /\ known(orders[e.id])
    /\ orders' = [orders EXCEPT ![e.id] = r]
    /\ IF r # orders[e.id] THEN append_event(e.id, "state", r) ELSE UNCHANGED log

ListedRefreshed(t, e) ==
    LET r == Refreshed(orders[e.id], e.snap) IN
    /\ Listed(t, e)
    /\ e.id \notin flying /\ known(orders[e.id])
    /\ orders' = [orders EXCEPT ![e.id] = r]
    /\ IF r # orders[e.id] THEN append_event(e.id, "state", r) ELSE UNCHANGED log

\* Faulty variant: the worklist holds ids whose venue call is open.
ReconWorklistAll(t) ==
    /\ recon[t].pc = "listed" /\ recon[t].listing = {}
    /\ lock = None
    /\ recon' = [recon EXCEPT ![t].pc = "lookup",
                              ![t].work = {id \in Ids : known(orders[id])
                                              /\ ~is_terminal(orders[id].state)}]
    /\ UNCHANGED <<registry, log, lock, call, up, market, others>>

\* Phase B: the worklist is taken once, under the lock.
ReconWorklist(t) ==
    /\ recon[t].pc = "listed" /\ recon[t].listing = {}
    /\ lock = None
    /\ recon' = [recon EXCEPT ![t].pc = "lookup",
                              ![t].work = {id \in Ids \ flying :
                                              known(orders[id]) /\ ~is_terminal(orders[id].state)}]
    /\ UNCHANGED <<registry, log, lock, call, up, market, others>>

\* get_order without the lock: the venue's order or a conclusive absence...
ReconLookup(t, id) ==
    /\ recon[t].pc = "lookup" /\ id \in recon[t].work
    /\ recon' = [recon EXCEPT ![t].pc = "apply", ![t].work = @ \ {id}, ![t].item = id,
                              ![t].found = IF venue[id].state = "none" THEN {}
                                                                       ELSE {SnapshotOf(id)}]
    /\ UNCHANGED <<registry, log, lock, call, up, market, others>>

\* ... or an error, which leaves the entry unresolved.
ReconLookupFails(t, id) ==
    /\ recon[t].pc = "lookup" /\ id \in recon[t].work
    /\ recon' = [recon EXCEPT ![t].work = @ \ {id}]
    /\ UNCHANGED <<registry, log, lock, call, up, market, others>>

NextItem(t) ==
    recon' = [recon EXCEPT ![t] = [@ EXCEPT !.pc = "lookup", !.item = None, !.found = {}]]

\* Also adopts an id that the leg table does not know.  flying is not read
\* again: the worklist was taken earlier.
Looked(r, s) ==
    apply_observation(IF leg_index_of(r, s.xid) = 0 THEN note_exchange_id(r, s.xid) ELSE r,
                      s.state, s.filled, s.qty, TRUE)

ReconFound(t) ==
    LET id == recon[t].item IN
    /\ recon[t].pc = "apply" /\ lock = None
    /\ \E s \in recon[t].found :
          LET r == Looked(orders[id], s) IN
          /\ orders' = [orders EXCEPT ![id] = r]
          /\ IF r # orders[id] THEN append_event(id, "state", r) ELSE UNCHANGED log
    /\ NextItem(t)
    /\ UNCHANGED <<flying, raced, lock, call, up, market, others>>

\* Faulty variant: an absence is left unresolved.
ReconAbsentIgnored(t) ==
    /\ recon[t].pc = "apply" /\ recon[t].found = {} /\ lock = None
    /\ NextItem(t)
    /\ UNCHANGED <<registry, log, lock, call, up, market, others>>

\* The venue does not know the order: Rejected, in two appends.
ReconAbsent(t) ==
    LET id == recon[t].item
        r  == [orders[id] EXCEPT !.state = "Rejected", !.rejection = "venue_absent"]
    IN  /\ recon[t].pc = "apply" /\ recon[t].found = {} /\ lock = None
        /\ IF can_transition(orders[id].state, "Rejected")
           THEN /\ orders' = [orders EXCEPT ![id] = r]
                /\ append_event(id, "state", r)
                /\ recon' = [recon EXCEPT ![t].pc = "absent"]
                /\ lock' = t
           ELSE /\ NextItem(t)
                /\ UNCHANGED <<orders, log, lock>>
        /\ UNCHANGED <<flying, raced, call, up, market, others>>

ReconAbsentLogged(t) ==
    LET id == recon[t].item IN
    /\ recon[t].pc = "absent"
    /\ append_event(id, "rejected", orders[id])
    /\ NextItem(t)
    /\ lock' = None
    /\ UNCHANGED <<registry, call, up, market, others>>

\* The main thread starts serving when its reconcile is over.
ReconDone(t) ==
    /\ recon[t].pc = "lookup" /\ recon[t].work = {}
    /\ recon' = [recon EXCEPT ![t] = IdleRecon]
    /\ up' = (up \/ t = Main)
    /\ UNCHANGED <<registry, log, lock, call, market, others>>

-----------------------------------------------------------------------------
(* The process dies and restarts: load_from_log rebuilds the registry      *)
(* before any other thread exists.  The venue and requests under way stay. *)

UnderWay == {[op |-> call[c].op, id |-> call[c].id, qty |-> call[c].qty] :
                c \in {d \in Clients : call[d].pc = "call" /\ call[d].ack = 0}}

CrashRestart ==
    /\ crashesLeft > 0 /\ crashesLeft' = crashesLeft - 1
    /\ orders' = disk
    /\ flying' = {}
    /\ raced' = [id \in Ids |-> <<>>]
    /\ unlogged' = {}
    /\ lock' = None
    /\ call' = [c \in Clients |-> IdleCall]
    /\ recon' = [t \in Recons |-> IdleRecon]
    /\ up' = FALSE
    /\ feed' = <<>>
    /\ late' \in {late} \cup (IF "late_request" \in Faults THEN {late \cup UnderWay} ELSE {})
    /\ UNCHANGED <<disk, failsLeft, venue, sent, amendsLeft>>

-----------------------------------------------------------------------------

Caller(c) ==
    \/ \E id \in Ids, qty \in Quantities :
          \/ PlaceRiskRejected(c, id, qty)
          \/ PlaceStaged(c, id, qty)
          \/ PlaceNotPersisted(c, id, qty)
          \/ AmendSent(c, id, qty)
    \/ \E id \in Ids : CancelSent(c, id)
    \/ PlaceAccepted(c)
    \/ PlaceRefused(c)
    \/ PlaceUnresolved(c)
    \/ CancelAccepted(c)
    \/ CancelFailed(c)
    \/ AmendAccepted(c)
    \/ AmendFailed(c)
    \/ Drain(c)

Reader == ReportBuffered \/ ReportUnknown \/ ReportArbitrated

Reconciler(t) ==
    \/ ReconList(t)
    \/ \E e \in recon[t].listing :
          ListedSkipped(t, e) \/ ListedAdopted(t, e) \/ ListedRefreshed(t, e)
    \/ ReconWorklist(t)
    \/ \E id \in Ids : ReconLookup(t, id) \/ ReconLookupFails(t, id)
    \/ ReconFound(t)
    \/ ReconAbsent(t)
    \/ ReconAbsentLogged(t)
    \/ ReconDone(t)

Venue ==
    \/ \E c \in Clients : VenueAnswers(c)
    \/ \E q \in late : LateArrival(q)
    \/ \E id \in Ids : VenueFill(id) \/ VenueCancel(id)
    \/ FeedLoss

Next ==
    \/ \E c \in Clients : Caller(c)
    \/ Reader
    \/ \E t \in Recons : Reconciler(t)
    \/ Venue
    \/ CrashRestart

Spec == Init /\ [][Next]_vars

-----------------------------------------------------------------------------
(* Properties *)

OpenCalls(id) ==
    {c \in Clients : call[c].pc = "call" /\ call[c].op \in {"place", "amend"} /\ call[c].id = id}

\* "The record cannot have advanced meanwhile" (place, second critical
\* section): as long as a place call is open its record is the untouched
\* Pending one, whatever feed, reconcile, cancel and amend do.
PlaceOwnsRecord ==
    \A c \in Clients : call[c].pc = "call" /\ call[c].op = "place" =>
        /\ call[c].id \in flying
        /\ orders[call[c].id] = NewRecord(call[c].qty)

\* One mutating venue call per order: the raced-reports buffer of an id
\* exists exactly while one place or amend of it is open, and only that
\* call's reports are in it.
OneOpenCall ==
    /\ \A id \in flying : \E c \in Clients : OpenCalls(id) = {c}
    /\ \A id \in Ids \ flying : OpenCalls(id) = {} /\ raced[id] = <<>>

\* A client order id is sent to the venue as a new order at most once, over
\* retries, transport errors, failing appends and restarts.
AtMostOnePlace == \A id \in Ids : sent[id] <= 1

\* A crash can never make the gateway forget an order that it has sent:
\* place_submitted is on disk before the send, and replay keeps it.
NotForgotten ==
    \A id \in Ids : sent[id] > 0 => known(orders[id]) /\ known(disk[id])

\* At any moment replaying the log yields the lifecycle state and the fills
\* of the registry, for every id whose appends have not failed: the event
\* order place_submitted, place_accepted, state (and amended, state) is kept
\* whatever races the venue call.
DiskAgrees ==
    \A id \in Ids \ unlogged :
        disk[id].state = orders[id].state /\ disk[id].filled = orders[id].filled

\* No observation, race or restart regresses an order: its state only takes
\* legal transitions and its fills never shrink (restarts included, unless
\* an append of the order had failed).
NeverRegresses ==
    [][\A id \in Ids \ unlogged :
          known(orders[id]) =>
             /\ \/ orders'[id].state = orders[id].state
                \/ can_transition(orders[id].state, orders'[id].state)
             /\ orders'[id].filled >= orders[id].filled]_vars

\* Nothing is under way: no call, no undelivered report.
Quiet == feed = <<>> /\ lock = None /\ \A c \in Clients : call[c].pc = "idle"

Resolved(r) == r.state \in States \ {"Pending", "Rejected"}

\* Once every call has returned and every report is delivered, an order that
\* the venue has acknowledged is in the venue's state, both kinds of working
\* order taken together: no report was lost to, or misjudged after, a race
\* with a venue call, a listing or a lookup.  (When an append about the order
\* has failed, the reports buffered for that call are dropped with it.)
Converged ==
    Quiet => \A id \in Ids \ unlogged : Resolved(orders[id]) =>
        \/ orders[id].state = venue[id].state
        \/ Working(orders[id].state) /\ Working(venue[id].state)

\* At the same moment its filled quantity is what the venue has executed for
\* it over all legs.
FillsCounted ==
    Quiet => \A id \in Ids \ unlogged :
        Resolved(orders[id]) => orders[id].filled = venue[id].prior + venue[id].filled

\* What the venue can have executed for an id once its working order, and the
\* request under way for it, has filled.
WorstCase(id) ==
    LET v == venue[id]
        asked == {call[c].qty : c \in {d \in OpenCalls(id) : call[d].ack = 0}}
        open == IF Working(v.state) \/ (v.state = "none" /\ asked # {})
                THEN Max({v.qty} \cup asked) ELSE v.filled
    IN  v.prior + open

\* The projection that place and amend check before they send is a worst case:
\* whatever is working or under way fills, the position stays within
\* maxPosition.
PositionWithinLimit == MapThenSumSet(WorstCase, Ids) <= MaxPosition

-----------------------------------------------------------------------------
(* What comments and documents say and the code does not keep in every     *)
(* case; the README shows how each of them fails.                          *)

\* A terminal record has no live order behind it on the venue.
NoZombie ==
    \A id \in Ids : is_terminal(orders[id].state) => ~Working(venue[id].state)

\* The quantity of a working order is the current, post-amend one whenever
\* nothing is under way and no reconcile is running.
QuantityCurrent ==
    Quiet /\ (\A t \in Recons : recon[t].pc = "idle") =>
        \A id \in Ids : Working(orders[id].state) => orders[id].qty = venue[id].qty

\* A rejected order has a recorded rejection to replay to place retries.
RejectionRecorded ==
    \A id \in Ids : orders[id].state = "Rejected" => orders[id].rejection # "none"

\* An order rejected because the venue does not know it never fills.
AbsentNeverFills ==
    \A id \in Ids : orders[id].rejection = "venue_absent" => venue[id].filled = 0

-----------------------------------------------------------------------------
(* Liveness.  Every venue call returns (bounded retries under a deadline,  *)
(* timeouts on every transport), a thread that waits for mutex_ gets it    *)
(* in the end, a loop under the lock goes on, and the feed is read.  The   *)
(* venue owes nothing, and no client has to call.                          *)

CallReturns(c) ==
    \/ PlaceAccepted(c) \/ PlaceRefused(c) \/ PlaceUnresolved(c)
    \/ CancelAccepted(c) \/ CancelFailed(c)
    \/ AmendAccepted(c) \/ AmendFailed(c)

ListingApplied(t) ==
    \E e \in recon[t].listing :
        ListedSkipped(t, e) \/ ListedAdopted(t, e) \/ ListedRefreshed(t, e)

LookupApplied(t) == ReconFound(t) \/ ReconAbsent(t)

Fairness ==
    /\ \A c \in Clients : SF_vars(CallReturns(c)) /\ WF_vars(Drain(c))
    /\ SF_vars(Reader)
    /\ \A t \in Recons :
          /\ SF_vars(ListingApplied(t))
          /\ SF_vars(ReconWorklist(t))
          /\ WF_vars(\E id \in Ids : ReconLookup(t, id) \/ ReconLookupFails(t, id))
          /\ SF_vars(LookupApplied(t))
          /\ WF_vars(ReconAbsentLogged(t))
          /\ WF_vars(ReconDone(t))
    /\ WF_vars(ReconList(Main))

FairSpec == Spec /\ Fairness

\* Reconnects come again and again and not every lookup of an order fails:
\* an assumption on the network, not on the code.
Reconnecting ==
    \A t \in Recons \ {Main} :
        /\ WF_vars(ReconList(t))
        /\ \A id \in Ids : SF_vars(ReconLookup(t, id))

\* The buffer of raced reports of an id is given back: every place and amend
\* ends, and the id does not stay "order_busy".
CallsEnd == \A id \in Ids : id \in flying ~> id \notin flying

\* The server comes up after every start, whatever the venue answers.
Serves == []<>up

\* When reconnects come again and again, a Pending order is resolved in the end.
PendingResolved ==
    Reconnecting =>
        \A id \in Ids : orders[id].state = "Pending" ~> orders[id].state # "Pending"

=============================================================================
