---------------------------- MODULE AuditProofs ----------------------------
(***************************************************************************)
(* A pass of the auditor during which nothing is under way overlooks no    *)
(* open order that differs from the venue's, for every number of orders    *)
(* and threads, on both kinds of venue and under every fault.              *)
(*                                                                         *)
(* For orders with no lost answer: a terminal record has no live order     *)
(* behind it, records at rest are in the venue's state, and the serious    *)
(* alarms of such a pass have a cause.  The invariants follow the legs of  *)
(* an order through every place that may hold news of it (Truth, Followed, *)
(* NewsDue), so that they cover a venue that replaces an order to amend it.*)
(***************************************************************************)
EXTENDS Audit, OmsProofs

\* An order on the venue has an exchange order id.
Named == \A id \in Ids : venue[id].state # "none" => venue[id].xid # 0

AuditTyped ==
    audit \in [pc : {"idle", "lookup", "compare"}, work : SUBSET Ids, item : Ids \cup {None},
               found : SUBSET Snapshot]

OpenOrder(id) == known(orders[id]) /\ ~is_terminal(orders[id].state)

\* The record is what the venue has.
Agrees(id) ==
    /\ venue[id].state = orders[id].state /\ venue[id].filled = orders[id].filled
    /\ venue[id].qty = orders[id].qty
    /\ leg_index_of(orders[id], venue[id].xid) # 0

\* The order that has been looked up and still has to be compared.
Fetched(id) ==
    audit.pc = "compare" /\ audit.item = id /\ audit.found = {SnapshotOf(id)} /\ venue[id].state # "none"

\* What a calm pass knows of an order.
Seen(id) == id \in audit.work \/ Fetched(id) \/ Alerted(id) \/ Agrees(id)

\* A calm pass has nothing under way beside it, and has found out about every
\* open order or still will.
CalmPass ==
    calm => /\ Undisturbed
            /\ audit.pc # "idle"
            /\ \A id \in Ids : OpenOrder(id) => Seen(id)

AuditInv == Inv /\ Named /\ AuditTyped /\ CalmPass

-----------------------------------------------------------------------------
(* The steps of the registry *)

\* A sequence that something was appended to is not empty.
LEMMA AppendNotEmpty ==
    ASSUME NEW S, NEW s \in Seq(S), NEW e
    PROVE  Append(s, e) # <<>>
<1>1. Len(Append(s, e)) = Len(s) + 1 /\ Len(s) \in Nat
  OBVIOUS
<1>2. Len(<<>>) = 0
  OBVIOUS
<1> QED
  BY <1>1, <1>2

\* What the venue executes, it reports, and the order it makes has an id.
LEMMA ExecutesReports ==
    ASSUME TypeOK, Named, NEW op, NEW id \in Ids, NEW qty, VenueExecutes(op, id, qty)
    PROVE  feed' # <<>> /\ Named'
<1>0. venue \in [Ids -> VenueOrder] /\ feed \in Seq(FeedReport) /\ venue[id] \in VenueOrder
  BY DEF TypeOK
<1>1. ASSUME NEW v, v.xid # 0, venue' = [venue EXCEPT ![id] = v]
      PROVE  Named'
  BY <1>0, <1>1 DEF Named
<1>2. ASSUME NEW v, VenueMoves(id, v), v.xid # 0
      PROVE  feed' # <<>> /\ Named'
  <2>1. feed' = Append(feed, ReportOf(id, v)) /\ venue' = [venue EXCEPT ![id] = v]
    BY <1>2 DEF VenueMoves
  <2>2. feed' # <<>>
    BY <1>0, <2>1, AppendNotEmpty
  <2> QED
    BY <1>1, <1>2, <2>1, <2>2
<1>3. CASE op = "place" /\ VenueMoves(id, NewVenueOrder(qty))
  <2>1. NewVenueOrder(qty).xid = 1
    BY DEF NewVenueOrder, NoVenueOrder
  <2> QED
    BY <1>2, <1>3, <2>1
<1>4. CASE op = "cancel" /\ Working(venue[id].state)
                         /\ VenueMoves(id, [venue[id] EXCEPT !.state = "Canceled"])
  <2>1. [venue[id] EXCEPT !.state = "Canceled"].xid # 0
    BY <1>0, <1>4 DEF Named, Working, VenueOrder
  <2> QED
    BY <1>2, <1>4, <2>1
<1>5. CASE op = "amend" /\ Working(venue[id].state)
                        /\ VenueMoves(id, [venue[id] EXCEPT !.qty = qty])
  <2>1. [venue[id] EXCEPT !.qty = qty].xid # 0
    BY <1>0, <1>5 DEF Named, Working, VenueOrder
  <2> QED
    BY <1>2, <1>5, <2>1
<1>6. CASE op = "amend" /\ VenueReplaces(id, qty)
  <2> DEFINE old == [venue[id] EXCEPT !.state = "Canceled"]
             new == [NewVenueOrder(qty) EXCEPT !.xid = old.xid + 1,
                                               !.prior = old.prior + old.filled]
  <2>1. new.xid = venue[id].xid + 1 /\ venue[id].xid \in Nat
    BY <1>0 DEF NewVenueOrder, NoVenueOrder, VenueOrder
  <2>2. venue' = [venue EXCEPT ![id] = new] /\ new.xid # 0
    BY <1>6, <2>1 DEF VenueReplaces
  <2>3. feed' = feed \o <<ReportOf(id, old), ReportOf(id, new)>>
    BY <1>6 DEF VenueReplaces
  <2>4. feed' # <<>>
    BY <1>0, <2>3
  <2> HIDE DEF new, old
  <2> QED
    BY <1>1, <2>2, <2>4
<1> QED
  BY <1>3, <1>4, <1>5, <1>6 DEF VenueExecutes

\* So does an order that fills or is canceled by itself.
LEMMA MovesReports ==
    ASSUME TypeOK, Named, NEW id \in Ids, VenueFill(id) \/ VenueCancel(id)
    PROVE  feed' # <<>> /\ Named'
<1>0. venue \in [Ids -> VenueOrder] /\ feed \in Seq(FeedReport) /\ venue[id] \in VenueOrder
  BY DEF TypeOK
<1>1. venue[id].xid # 0
  BY DEF VenueFill, VenueCancel, Named, Working
<1>2. ASSUME NEW v, VenueMoves(id, v), v.xid # 0
      PROVE  feed' # <<>> /\ Named'
  <2>1. feed' = Append(feed, ReportOf(id, v)) /\ venue' = [venue EXCEPT ![id] = v]
    BY <1>2 DEF VenueMoves
  <2>2. feed' # <<>>
    BY <1>0, <2>1, AppendNotEmpty
  <2>3. Named'
    BY <1>0, <1>2, <2>1 DEF Named
  <2> QED
    BY <2>2, <2>3
<1>3. CASE VenueFill(id)
  <2> DEFINE w == [venue[id] EXCEPT !.filled = @ + 1]
             v == [w EXCEPT !.state = IF w.filled = w.qty THEN "Filled" ELSE "PartiallyFilled"]
  <2>1. v.xid = venue[id].xid
    BY <1>0 DEF VenueOrder
  <2>2. VenueMoves(id, v)
    BY <1>3 DEF VenueFill
  <2> HIDE DEF v
  <2> QED
    BY <1>1, <1>2, <2>1, <2>2
<1>4. CASE VenueCancel(id)
  <2> DEFINE v == [venue[id] EXCEPT !.state = "Canceled"]
  <2>1. v.xid = venue[id].xid
    BY <1>0 DEF VenueOrder
  <2>2. VenueMoves(id, v)
    BY <1>4 DEF VenueCancel
  <2> HIDE DEF v
  <2> QED
    BY <1>1, <1>2, <2>1, <2>2
<1> QED
  BY <1>3, <1>4

\* Only the venue changes its orders, and it reports the change.
LEMMA VenueReports ==
    ASSUME TypeOK, Named, Next
    PROVE  Named' /\ (venue' = venue \/ feed' # <<>>)
<1>0. (venue' = venue) => Named'
  BY DEF Named
<1>1. ASSUME NEW c \in Clients, Caller(c)
      PROVE  venue' = venue
  BY <1>1 DEF Caller, market, PlaceRiskRejected, PlaceStaged, PlaceNotPersisted, AmendSent, CancelSent,
     PlaceAccepted, PlaceRefused, PlaceUnresolved, CancelAccepted, CancelFailed, AmendAccepted,
     AmendFailed, Drain
<1>2. CASE Reader
  BY <1>0, <1>2 DEF Reader, ReportBuffered, ReportUnknown, ReportArbitrated
<1>3. ASSUME NEW t \in Recons, Reconciler(t)
      PROVE  venue' = venue
  BY <1>3 DEF Reconciler, market, ReconList, Listed, ListedSkipped, ListedAdopted, ListedRefreshed,
     ReconWorklist, ReconLookup, ReconLookupFails, ReconFound, ReconAbsent, ReconAbsentLogged, ReconDone
<1>4. CASE CrashRestart
  BY <1>0, <1>4 DEF CrashRestart
<1>5. ASSUME NEW c \in Clients, VenueAnswers(c)
      PROVE  Named' /\ feed' # <<>>
  <2>1. call[c].id \in Ids
    BY <1>5 DEF VenueAnswers, TypeOK
  <2> QED
    BY <1>5, <2>1, ExecutesReports DEF VenueAnswers
<1>6. ASSUME NEW q \in late, LateArrival(q)
      PROVE  Named' /\ feed' # <<>>
  <2>1. q.id \in Ids
    BY DEF TypeOK, Request
  <2> QED
    BY <1>6, <2>1, ExecutesReports DEF LateArrival
<1>7. CASE FeedLoss
  BY <1>0, <1>7 DEF FeedLoss
<1> QED
  BY <1>0, <1>1, <1>2, <1>3, <1>4, <1>5, <1>6, <1>7, MovesReports DEF Next, Venue

\* Between two undisturbed states no record changes but that of a new order
\* that the risk check turns down, and the venue stands still.
LEMMA CalmStep ==
    ASSUME Inv, Named, Undisturbed, Next, Undisturbed', ~Crashing
    PROVE  /\ venue' = venue
           /\ \A id \in Ids : orders'[id] = orders[id] \/ (~known(orders[id]) /\ is_terminal(orders'[id].state))
<1> DEFINE Still == \A id \in Ids : orders'[id] = orders[id] \/ (~known(orders[id]) /\ is_terminal(orders'[id].state))
<1>1. /\ feed = <<>> /\ \A c \in Clients : call[c].pc = "idle"
      /\ feed' = <<>> /\ \A c \in Clients : call'[c].pc = "idle"
      /\ \A t \in Recons : recon[t].pc = "idle" /\ recon'[t].pc = "idle"
  BY DEF Undisturbed, Quiet
<1>2. /\ orders \in [Ids -> Record] /\ call \in [Clients -> Call] /\ recon \in [Recons -> Recon]
      /\ crashesLeft \in Nat
  BY DEF Inv, TypeOK
<1>3. venue' = venue
  BY <1>1, VenueReports DEF Inv
<1>4. (orders' = orders) => Still
  OBVIOUS
<1>5. ASSUME NEW c \in Clients, Caller(c)
      PROVE  Still
  <2>1. ASSUME NEW op, NEW id, NEW qty, OpenCall(c, op, id, qty)
        PROVE  FALSE
    <3> DEFINE k == [IdleCall EXCEPT !.pc = "call", !.op = op, !.id = id, !.qty = qty]
    <3>1. k.pc = "call"
      BY DEF IdleCall
    <3>2. call' = [call EXCEPT ![c] = k]
      BY <2>1 DEF OpenCall
    <3> HIDE DEF k
    <3> QED
      BY <1>1, <1>2, <3>1, <3>2
  <2>2. ASSUME NEW id \in Ids, NEW qty \in Quantities, PlaceRiskRejected(c, id, qty)
        PROVE  Still
    <3> DEFINE r == [NewRecord(qty) EXCEPT !.state = "Rejected", !.rejection = "risk"]
    <3>1. r.state = "Rejected"
      BY DEF NewRecord, NoRecord
    <3>2. orders' = [orders EXCEPT ![id] = r] /\ ~known(orders[id])
      BY <2>2 DEF PlaceRiskRejected
    <3> HIDE DEF r
    <3> QED
      BY <1>2, <3>1, <3>2 DEF is_terminal
  <2>3. ASSUME NEW id \in Ids, NEW qty \in Quantities, PlaceNotPersisted(c, id, qty)
        PROVE  Still
    BY <1>4, <2>3 DEF PlaceNotPersisted, registry
  <2>4. ASSUME NEW id \in Ids, NEW qty \in Quantities, PlaceStaged(c, id, qty) \/ AmendSent(c, id, qty)
        PROVE  FALSE
    BY <2>1, <2>4 DEF PlaceStaged, AmendSent
  <2>5. ASSUME NEW id \in Ids, CancelSent(c, id)
        PROVE  FALSE
    BY <2>1, <2>5 DEF CancelSent
  <2>6. ~(PlaceAccepted(c) \/ PlaceRefused(c) \/ PlaceUnresolved(c) \/ CancelAccepted(c)
            \/ CancelFailed(c) \/ AmendAccepted(c) \/ AmendFailed(c) \/ Drain(c))
    BY <1>1 DEF PlaceAccepted, PlaceRefused, PlaceUnresolved, CancelAccepted, CancelFailed,
       AmendAccepted, AmendFailed, Drain, Returns
  <2> HIDE DEF Still
  <2> QED
    BY <1>5, <2>2, <2>3, <2>4, <2>5, <2>6 DEF Caller
<1>6. ~Reader
  BY <1>1 DEF Reader, ReportBuffered, ReportUnknown, ReportArbitrated
<1>7. ASSUME NEW t \in Recons, Reconciler(t)
      PROVE  FALSE
  <2>1. CASE ReconList(t)
    <3>1. PICK listing : recon' = [recon EXCEPT ![t] = [IdleRecon EXCEPT !.pc = "listed", !.listing = listing]]
      BY <2>1 DEF ReconList
    <3> DEFINE x == [IdleRecon EXCEPT !.pc = "listed", !.listing = listing]
    <3>2. x.pc = "listed"
      BY DEF IdleRecon
    <3>3. recon' = [recon EXCEPT ![t] = x]
      BY <3>1
    <3> HIDE DEF x
    <3> QED
      BY <1>1, <1>2, <3>2, <3>3
  <2> QED
    BY <1>1, <1>7, <2>1 DEF Reconciler, ListedSkipped, ListedAdopted, ListedRefreshed, Listed,
       ReconWorklist, ReconLookup, ReconLookupFails, ReconFound, ReconAbsent, ReconAbsentLogged, ReconDone
<1>8. CASE Venue
  <2>1. orders' = orders
    BY <1>8 DEF Venue, VenueAnswers, LateArrival, VenueFill, VenueCancel, FeedLoss, registry
  <2> QED
    BY <1>3, <2>1
<1>9. ~CrashRestart
  <2>1. CrashRestart => crashesLeft' = crashesLeft - 1
    BY DEF CrashRestart
  <2> QED
    BY <1>2, <2>1 DEF Crashing
<1> HIDE DEF Still
<1>10. Still
  BY <1>4, <1>5, <1>6, <1>7, <1>8, <1>9 DEF Next, Still
<1> QED
  BY <1>3, <1>10 DEF Still

-----------------------------------------------------------------------------
(* The steps of the auditor *)

\* Nothing under way: no id is in flight.
LEMMA CalmFlying ==
    ASSUME Inv, Undisturbed
    PROVE  flying = {}
<1> SUFFICES ASSUME NEW id \in flying PROVE FALSE
  OBVIOUS
<1>1. PICK c \in Clients : OpenCalls(id) = {c}
  BY DEF Inv, OneOpenCall
<1> QED
  BY <1>1 DEF OpenCalls, Undisturbed, Quiet

\* An alarm with a check in it alerts.
LEMMA AlarmAlerts ==
    ASSUME NEW id, NEW checks, NEW k \in checks, alerts' = alerts \cup Alarm(id, checks)
    PROVE  Alerted(id)'
<1> DEFINE a == [id |-> id, check |-> k]
<1>1. a \in alerts' /\ a.id = id
  BY DEF Alarm
<1> QED
  BY <1>1 DEF Alerted

\* A lookup that finds nothing to compare is an alarm.
LEMMA LookupAlerts ==
    ASSUME NEW id \in Ids, AuditLookupFails(id)
    PROVE  Alerted(id)'
<1>1. CASE alerts' = alerts \cup Alarm(id, {"lookup_failed"})
  BY <1>1, AlarmAlerts
<1>2. CASE alerts' = alerts \cup Alarm(id, {"venue_unknown"})
  BY <1>2, AlarmAlerts
<1> QED
  BY <1>1, <1>2 DEF AuditLookupFails

\* A comparison without an alert means that the record is the venue's.
LEMMA CompareFinds ==
    ASSUME Inv, Named, NEW id \in Ids, Fetched(id), AuditCompare
    PROVE  Alerted(id)' \/ Agrees(id)
<1> DEFINE s == SnapshotOf(id)
           found == audit_record_vs_snapshot(orders[id], s)
<1>1. alerts' = alerts \cup Alarm(id, found)
  BY DEF AuditCompare, Fetched
<1>2. CASE found # {}
  BY <1>1, <1>2, AlarmAlerts
<1>3. CASE found = {}
  <2>1. \A k \in Checks : k \notin found
    BY <1>3
  <2>2. "unknown_leg_report" \notin found /\ "state_mismatch" \notin found
          /\ "fill_mismatch" \notin found /\ "price_qty_mismatch" \notin found
    BY <1>3
  <2>3. s.xid = venue[id].xid /\ s.state = venue[id].state /\ s.filled = venue[id].filled
          /\ s.qty = venue[id].qty /\ s.xid # 0
    BY DEF SnapshotOf, Fetched, Named
  <2> HIDE DEF s
  <2>4. leg_index_of(orders[id], s.xid) # 0 /\ s.state = orders[id].state
          /\ s.filled = orders[id].filled /\ s.qty = orders[id].qty
    BY <2>2, <2>3 DEF audit_record_vs_snapshot, Checks
  <2> QED
    BY <2>3, <2>4 DEF Agrees
<1> QED
  BY <1>2, <1>3

\* A step of the auditor leaves the registry and the venue alone.
LEMMA AuditFrame ==
    ASSUME UNCHANGED vars
    PROVE  /\ UNCHANGED <<orders, venue>>
           /\ Undisturbed' = Undisturbed
           /\ Named => Named'
           /\ \A id \in Ids : OpenOrder(id)' = OpenOrder(id) /\ Agrees(id)' = Agrees(id)
<1>1. UNCHANGED <<orders, venue, feed, lock, call, recon>>
  BY DEF vars, registry, market
<1>2. Undisturbed' = Undisturbed
  BY <1>1 DEF Undisturbed, Quiet
<1>3. Named => Named'
  BY <1>1 DEF Named
<1>4. \A id \in Ids : OpenOrder(id)' = OpenOrder(id) /\ Agrees(id)' = Agrees(id)
  BY <1>1 DEF OpenOrder, Agrees
<1> QED
  BY <1>1, <1>2, <1>3, <1>4

\* A pass that starts calm has every open order on its worklist.
LEMMA StartsCalm ==
    ASSUME AuditInv, AuditStarts
    PROVE  AuditTyped' /\ CalmPass'
<1> DEFINE a == [IdleAudit EXCEPT !.pc = "lookup", !.work = AuditWorklist]
<1>1. audit' = a /\ calm' = Undisturbed /\ UNCHANGED vars
  BY DEF AuditStarts
<1>2. AuditWorklist \subseteq Ids
  BY DEF AuditWorklist
<1>3. /\ a \in [pc : {"idle", "lookup", "compare"}, work : SUBSET Ids, item : Ids \cup {None},
                found : SUBSET Snapshot]
      /\ a.pc = "lookup" /\ a.work = AuditWorklist
  BY <1>2 DEF IdleAudit
<1> HIDE DEF a
<1>4. AuditTyped'
  BY <1>1, <1>3 DEF AuditTyped
<1>5. ASSUME Undisturbed, NEW id \in Ids, OpenOrder(id)
      PROVE  id \in audit'.work
  BY <1>1, <1>3, <1>5, CalmFlying DEF AuditInv, AuditWorklist, OpenOrder
<1>6. CalmPass'
  BY <1>1, <1>3, <1>5, AuditFrame DEF CalmPass, Seen
<1> QED
  BY <1>4, <1>6

\* A lookup moves its order from the worklist to the comparison.
LEMMA LookupCalm ==
    ASSUME AuditInv, NEW id \in Ids, AuditLookup(id)
    PROVE  AuditTyped' /\ CalmPass'
<1>1. /\ audit' = [pc |-> "compare", work |-> audit.work \ {id}, item |-> id, found |-> {SnapshotOf(id)}]
      /\ UNCHANGED <<alerts, calm>> /\ UNCHANGED vars /\ venue[id].state # "none" /\ audit.pc = "lookup"
  BY DEF AuditLookup
<1>2. SnapshotOf(id) \in Snapshot
  <2>1. venue[id] \in VenueOrder
    BY DEF AuditInv, Inv, TypeOK
  <2> QED
    BY <1>1, <2>1 DEF SnapshotOf, Snapshot, VenueOrder
<1>3. AuditTyped'
  BY <1>1, <1>2 DEF AuditInv, AuditTyped
<1>4. Fetched(id)'
  BY <1>1, AuditFrame DEF Fetched, SnapshotOf
<1>5. ASSUME NEW i \in Ids, i # id, Seen(i)
      PROVE  Seen(i)'
  BY <1>1, <1>5, AuditFrame DEF Seen, Fetched, Alerted
<1>6. CalmPass'
  BY <1>1, <1>4, <1>5, AuditFrame DEF AuditInv, CalmPass, Seen
<1> QED
  BY <1>3, <1>6

\* A lookup that fails alerts.
LEMMA LookupFailsCalm ==
    ASSUME AuditInv, NEW id \in Ids, AuditLookupFails(id)
    PROVE  AuditTyped' /\ CalmPass'
<1>1. audit' = [audit EXCEPT !.work = @ \ {id}] /\ calm' = calm /\ UNCHANGED vars
        /\ alerts \subseteq alerts' /\ audit.pc = "lookup"
  BY DEF AuditLookupFails
<1>2. AuditTyped' /\ audit'.pc = "lookup" /\ audit'.work = audit.work \ {id}
  BY <1>1 DEF AuditInv, AuditTyped
<1>3. ASSUME NEW i \in Ids, i # id, Seen(i)
      PROVE  Seen(i)'
  BY <1>1, <1>2, <1>3, AuditFrame DEF Seen, Fetched, Alerted
<1>4. Seen(id)'
  BY LookupAlerts DEF Seen
<1>5. CalmPass'
  BY <1>1, <1>2, <1>3, <1>4, AuditFrame DEF AuditInv, CalmPass
<1> QED
  BY <1>2, <1>5

\* A comparison alerts or shows that the record is right.
LEMMA CompareCalm ==
    ASSUME AuditInv, AuditCompare
    PROVE  AuditTyped' /\ CalmPass'
<1> DEFINE a == [IdleAudit EXCEPT !.pc = "lookup", !.work = audit.work]
<1>1. audit' = a /\ calm' = calm /\ UNCHANGED vars /\ alerts \subseteq alerts' /\ audit.pc = "compare"
  BY DEF AuditCompare
<1>2. /\ a \in [pc : {"idle", "lookup", "compare"}, work : SUBSET Ids, item : Ids \cup {None},
                found : SUBSET Snapshot]
      /\ a.pc = "lookup" /\ a.work = audit.work
  BY DEF IdleAudit, AuditInv, AuditTyped
<1> HIDE DEF a
<1>3. AuditTyped'
  BY <1>1, <1>2 DEF AuditInv, AuditTyped
<1>4. ASSUME NEW i \in Ids, Seen(i)
      PROVE  Seen(i)'
  <2>1. CASE Fetched(i)
    BY <2>1, CompareFinds, <1>1, AuditFrame DEF AuditInv, Seen
  <2>2. CASE ~Fetched(i)
    BY <1>1, <1>2, <1>4, <2>2, AuditFrame DEF Seen, Alerted
  <2> QED
    BY <2>1, <2>2
<1>5. CalmPass'
  BY <1>1, <1>2, <1>4, AuditFrame DEF AuditInv, CalmPass
<1> QED
  BY <1>3, <1>5

\* A step of the registry, if it leaves the pass calm, changes nothing that
\* the pass has found out.
LEMMA OmsStepCalm ==
    ASSUME AuditInv, OmsStep
    PROVE  AuditTyped' /\ CalmPass'
<1>1. AuditTyped'
  <2>1. audit' = IdleAudit \/ audit' = audit
    BY DEF OmsStep
  <2> QED
    BY <2>1 DEF AuditInv, AuditTyped, IdleAudit
<1>2. CASE ~calm'
  BY <1>1, <1>2 DEF CalmPass
<1>3. CASE calm'
  <2>1. calm /\ Undisturbed' /\ ~Crashing /\ UNCHANGED <<audit, alerts>> /\ Next
    BY <1>3 DEF OmsStep
  <2>2. Undisturbed /\ audit.pc # "idle" /\ \A id \in Ids : OpenOrder(id) => Seen(id)
    BY <2>1 DEF AuditInv, CalmPass
  <2>3. /\ venue' = venue
        /\ \A id \in Ids : orders'[id] = orders[id] \/ (~known(orders[id]) /\ is_terminal(orders'[id].state))
    BY <2>1, <2>2, CalmStep DEF AuditInv
  <2>4. ASSUME NEW id \in Ids, OpenOrder(id)'
        PROVE  Seen(id)'
    <3>1. orders'[id] = orders[id]
      BY <2>3, <2>4 DEF OpenOrder
    <3>2. OpenOrder(id)
      BY <2>4, <3>1 DEF OpenOrder
    <3> QED
      BY <2>1, <2>2, <2>3, <3>1, <3>2 DEF Seen, Fetched, Alerted, Agrees, SnapshotOf
  <2> QED
    BY <1>1, <2>1, <2>2, <2>4 DEF CalmPass
<1> QED
  BY <1>2, <1>3

\* The invariant holds at the start and after every step.
LEMMA AuditInvInit ==
    ASSUME AuditInit
    PROVE  AuditInv
<1>1. Inv
  BY InitInv DEF AuditInit
<1>2. Named
  <2>1. PICK F \in SUBSET Foreign, qty \in [Foreign -> Quantities] :
          venue = [id \in Ids |-> IF id \in F THEN NewVenueOrder(qty[id]) ELSE NoVenueOrder]
    BY DEF AuditInit, Init
  <2>2. \A q : NewVenueOrder(q).xid = 1
    BY DEF NewVenueOrder, NoVenueOrder
  <2>3. NoVenueOrder.state = "none"
    BY DEF NoVenueOrder
  <2> QED
    BY <2>1, <2>2, <2>3 DEF Named
<1>3. AuditTyped /\ CalmPass
  BY DEF AuditInit, AuditTyped, IdleAudit, CalmPass
<1> QED
  BY <1>1, <1>2, <1>3 DEF AuditInv

LEMMA AuditInvNext ==
    ASSUME AuditInv, [AuditNext]_<<vars, auditVars>>
    PROVE  AuditInv'
<1>1. CASE UNCHANGED vars
  <2>1. Inv' /\ Named'
    BY <1>1, NextInv, AuditFrame DEF AuditInv
  <2>2. CASE AuditEnds
    BY <2>1, <2>2 DEF AuditInv, AuditEnds, AuditTyped, IdleAudit, CalmPass
  <2>3. CASE UNCHANGED auditVars
    <3>1. UNCHANGED <<audit, alerts, calm>> /\ UNCHANGED <<orders, venue>>
      BY <1>1, <2>3, AuditFrame DEF auditVars
    <3>2. AuditTyped'
      BY <3>1 DEF AuditInv, AuditTyped
    <3>3. \A id \in Ids : Seen(id) => Seen(id)'
      BY <1>1, <3>1, AuditFrame DEF Seen, Fetched, SnapshotOf, Alerted
    <3>4. CalmPass'
      BY <1>1, <3>1, <3>3, AuditFrame DEF AuditInv, CalmPass
    <3> QED
      BY <2>1, <3>2, <3>4 DEF AuditInv
  <2>4. CASE OmsStep
    BY <2>1, <2>4, OmsStepCalm DEF AuditInv
  <2> QED
    BY <2>1, <2>2, <2>3, <2>4, StartsCalm, LookupCalm, LookupFailsCalm, CompareCalm
       DEF AuditNext, AuditInv
<1>2. CASE OmsStep
  BY <1>2, NextInv, VenueReports, OmsStepCalm DEF AuditInv, Inv, OmsStep
<1>3. AuditNext => OmsStep \/ UNCHANGED vars
  BY DEF AuditNext, AuditStarts, AuditLookup, AuditLookupFails, AuditCompare, AuditEnds
<1>4. UNCHANGED <<vars, auditVars>> => UNCHANGED vars
  OBVIOUS
<1> QED
  BY <1>1, <1>2, <1>3, <1>4

\* A pass of the auditor beside which nothing is under way reports every open
\* order whose record differs from the venue's in state, fills, quantity or
\* exchange order id, or whose lookup failed: the two critical sections of
\* the pass and the lookups between them overlook none.
THEOREM DriftAlwaysReported == AuditSpec => []DriftReported
<1>1. AuditInit => AuditInv
  BY AuditInvInit
<1>2. AuditInv /\ [AuditNext]_<<vars, auditVars>> => AuditInv'
  BY AuditInvNext
<1>3. AuditInv => DriftReported
  <2> SUFFICES ASSUME AuditInv, CalmEnd, NEW id \in Ids, OpenOrder(id)
               PROVE  Alerted(id) \/ Agrees(id)
    BY DEF DriftReported, OpenOrder, Agrees
  <2> QED
    BY DEF AuditInv, CalmPass, CalmEnd, Seen, Fetched
<1> QED
  BY <1>1, <1>2, <1>3, PTL DEF AuditSpec

-----------------------------------------------------------------------------
(* The venue's orders.  From here on a request does not arrive after its   *)
(* call has timed out, the process does not restart and the venue starts   *)
(* without orders.  Both kinds of venue, any number of amends, lost        *)
(* acknowledgements, lost reports, failing appends and orders that end by  *)
(* themselves remain.                                                      *)

Punctual == "late_request" \notin Faults /\ MaxCrashes = 0 /\ Foreign = {}

NoLate == late = {} /\ crashesLeft = 0

VenueShape(v) ==
    /\ v.state \in {"none", "Live", "PartiallyFilled", "Filled", "Canceled"}
    /\ IF v.state = "none" THEN v.filled = 0 /\ v.xid = 0 /\ v.prior = 0 ELSE v.xid > 0
    /\ v.state = "Live" => v.filled = 0
    /\ v.state \in {"PartiallyFilled", "Filled"} => v.filled > 0

Shaped == \A id \in Ids : VenueShape(venue[id])

\* What the venue can make of its order v: a new order, or the same leg, or the
\* leg that replaces it.
NextOrder(v, w) ==
    /\ w \in VenueOrder /\ VenueShape(w) /\ w.state # "none"
    /\ \/ v.state = "none" /\ w.state = "Live" /\ w.xid = 1 /\ w.prior = 0
       \/ Working(v.state) /\ w.xid = v.xid /\ w.prior = v.prior /\ w.filled >= v.filled
       \/ Working(v.state) /\ w.xid = v.xid + 1 /\ w.prior = v.prior + v.filled /\ w.state = "Live"

\* The order turns into w, which the venue reports, after the end of the leg
\* that w replaces.
Turned(id, w) ==
    /\ NextOrder(venue[id], w)
    /\ venue' = [venue EXCEPT ![id] = w]
    /\ IF venue[id].state # "none" /\ w.xid # venue[id].xid
       THEN feed' = feed \o <<ReportOf(id, [venue[id] EXCEPT !.state = "Canceled"]), ReportOf(id, w)>>
       ELSE feed' = Append(feed, ReportOf(id, w))

LEMMA MovesTurn ==
    ASSUME NEW id, NEW w, NextOrder(venue[id], w), VenueMoves(id, w),
           venue[id].state = "none" \/ w.xid = venue[id].xid
    PROVE  Turned(id, w)
BY DEF Turned, VenueMoves

LEMMA ExecutesTurns ==
    ASSUME TypeOK, Shaped, NEW op, NEW id \in Ids, NEW qty \in Nat, VenueExecutes(op, id, qty)
    PROVE  \E w : /\ Turned(id, w)
                  /\ op = "place" <=> venue[id].state = "none"
                  /\ op = "cancel" => w.state = "Canceled" /\ w.xid = venue[id].xid
<1>1. venue[id] \in VenueOrder /\ VenueShape(venue[id])
  BY DEF TypeOK, Shaped
<1>2. CASE op = "place" /\ venue[id].state = "none" /\ VenueMoves(id, NewVenueOrder(qty))
  <2> DEFINE w == NewVenueOrder(qty)
  <2>1. w.state = "Live" /\ w.filled = 0 /\ w.xid = 1 /\ w.prior = 0 /\ w \in VenueOrder
    BY DEF NewVenueOrder, NoVenueOrder, VenueOrder, VenueStates, States
  <2>2. VenueMoves(id, w)
    BY <1>2
  <2> HIDE DEF w
  <2>3. NextOrder(venue[id], w)
    BY <1>2, <2>1 DEF NextOrder, VenueShape
  <2>4. Turned(id, w)
    BY <1>2, <2>2, <2>3, MovesTurn
  <2> QED
    BY <1>2, <2>4
<1>3. CASE op = "cancel" /\ Working(venue[id].state)
                         /\ VenueMoves(id, [venue[id] EXCEPT !.state = "Canceled"])
  <2> DEFINE w == [venue[id] EXCEPT !.state = "Canceled"]
  <2>1. /\ w \in VenueOrder /\ w.state = "Canceled" /\ w.filled = venue[id].filled
        /\ w.xid = venue[id].xid /\ w.prior = venue[id].prior /\ venue[id].filled \in Nat
    BY <1>1 DEF VenueOrder, VenueStates, States
  <2>2. VenueMoves(id, w)
    BY <1>3
  <2> HIDE DEF w
  <2>3. NextOrder(venue[id], w)
    BY <1>1, <1>3, <2>1 DEF NextOrder, VenueShape, Working
  <2>4. Turned(id, w)
    BY <2>1, <2>2, <2>3, MovesTurn
  <2> QED
    BY <1>3, <2>1, <2>4 DEF Working
<1>4. CASE op = "amend" /\ Working(venue[id].state) /\ VenueMoves(id, [venue[id] EXCEPT !.qty = qty])
  <2> DEFINE w == [venue[id] EXCEPT !.qty = qty]
  <2>1. /\ w \in VenueOrder /\ w.state = venue[id].state /\ w.filled = venue[id].filled
        /\ w.xid = venue[id].xid /\ w.prior = venue[id].prior /\ venue[id].filled \in Nat
    BY <1>1 DEF VenueOrder
  <2>2. VenueMoves(id, w)
    BY <1>4
  <2> HIDE DEF w
  <2>3. NextOrder(venue[id], w)
    BY <1>1, <1>4, <2>1 DEF NextOrder, VenueShape, Working
  <2>4. Turned(id, w)
    BY <2>1, <2>2, <2>3, MovesTurn
  <2> QED
    BY <1>4, <2>1, <2>4 DEF Working
<1>5. CASE op = "amend" /\ Working(venue[id].state) /\ VenueReplaces(id, qty)
  <2> DEFINE old == [venue[id] EXCEPT !.state = "Canceled"]
             w == [NewVenueOrder(qty) EXCEPT !.xid = old.xid + 1, !.prior = old.prior + old.filled]
  <2>1. old.xid = venue[id].xid /\ old.prior = venue[id].prior /\ old.filled = venue[id].filled
          /\ venue[id].xid \in Nat /\ venue[id].prior \in Nat /\ venue[id].filled \in Nat
    BY <1>1 DEF VenueOrder
  <2>3. venue' = [venue EXCEPT ![id] = w] /\ feed' = feed \o <<ReportOf(id, old), ReportOf(id, w)>>
    BY <1>5 DEF VenueReplaces
  <2>2. /\ w \in VenueOrder /\ w.state = "Live" /\ w.filled = 0 /\ w.xid = venue[id].xid + 1
        /\ w.prior = venue[id].prior + venue[id].filled
    <3> HIDE DEF old
    <3>1. old.xid + 1 \in Nat /\ old.prior + old.filled \in Nat
      BY <2>1
    <3>2. /\ NewVenueOrder(qty) \in VenueOrder
          /\ NewVenueOrder(qty).state = "Live" /\ NewVenueOrder(qty).filled = 0
      BY DEF NewVenueOrder, NoVenueOrder, VenueOrder, VenueStates, States
    <3>3. w \in VenueOrder /\ w.state = "Live" /\ w.filled = 0 /\ w.xid = old.xid + 1
            /\ w.prior = old.prior + old.filled
      BY <3>1, <3>2 DEF VenueOrder
    <3> QED
      BY <2>1, <3>3
  <2> HIDE DEF w
  <2>4. w.xid # venue[id].xid /\ venue[id].state # "none" /\ w.xid > 0
    BY <1>5, <2>1, <2>2 DEF Working
  <2>5. NextOrder(venue[id], w)
    BY <1>5, <2>1, <2>2, <2>4 DEF NextOrder, VenueShape
  <2>6. Turned(id, w)
    BY <2>3, <2>4, <2>5 DEF Turned
  <2> QED
    BY <1>5, <2>4, <2>6
<1> QED
  BY <1>2, <1>3, <1>4, <1>5 DEF VenueExecutes

LEMMA SelfTurns ==
    ASSUME TypeOK, Shaped, NEW id \in Ids, VenueFill(id) \/ VenueCancel(id)
    PROVE  venue[id].state # "none" /\ \E w : Turned(id, w) /\ w.xid = venue[id].xid
<1>1. venue[id] \in VenueOrder /\ VenueShape(venue[id]) /\ Working(venue[id].state)
  BY DEF TypeOK, Shaped, VenueFill, VenueCancel
<1>2. CASE VenueFill(id)
  <2> DEFINE x == [venue[id] EXCEPT !.filled = @ + 1]
             s == IF x.filled = x.qty THEN "Filled" ELSE "PartiallyFilled"
             w == [x EXCEPT !.state = s]
  <2>1. x \in VenueOrder /\ x.filled = venue[id].filled + 1 /\ x.xid = venue[id].xid
          /\ x.prior = venue[id].prior /\ venue[id].filled \in Nat
    BY <1>1 DEF VenueOrder
  <2>2. VenueMoves(id, w)
    BY <1>2 DEF VenueFill
  <2>3. s \in {"Filled", "PartiallyFilled"}
    OBVIOUS
  <2> HIDE DEF x, s
  <2>4. /\ w \in VenueOrder /\ w.state = s /\ w.filled = venue[id].filled + 1
        /\ w.xid = venue[id].xid /\ w.prior = venue[id].prior
    BY <2>1, <2>3 DEF VenueOrder, VenueStates, States
  <2> HIDE DEF w
  <2>5. NextOrder(venue[id], w)
    BY <1>1, <2>1, <2>3, <2>4 DEF NextOrder, VenueShape, Working
  <2>6. Turned(id, w)
    BY <2>2, <2>4, <2>5, MovesTurn
  <2> QED
    BY <1>1, <2>4, <2>6 DEF Working
<1>3. CASE VenueCancel(id)
  <2> DEFINE w == [venue[id] EXCEPT !.state = "Canceled"]
  <2>1. /\ w \in VenueOrder /\ w.state = "Canceled" /\ w.filled = venue[id].filled
        /\ w.xid = venue[id].xid /\ w.prior = venue[id].prior /\ venue[id].filled \in Nat
    BY <1>1 DEF VenueOrder, VenueStates, States
  <2>2. VenueMoves(id, w)
    BY <1>3 DEF VenueCancel
  <2> HIDE DEF w
  <2>3. NextOrder(venue[id], w)
    BY <1>1, <2>1 DEF NextOrder, VenueShape, Working
  <2>4. Turned(id, w)
    BY <2>1, <2>2, <2>3, MovesTurn
  <2> QED
    BY <1>1, <2>1, <2>4 DEF Working
<1> QED
  BY <1>2, <1>3

\* The call c is the one that the venue answers by turning an order into w.
AnswersWith(c, id, w) ==
    /\ call[c].pc = "call" /\ call[c].ack = 0 /\ call[c].id = id
    /\ call' = [call EXCEPT ![c].ack = w.xid]
    /\ call[c].op = "place" <=> venue[id].state = "none"
    /\ call[c].op = "cancel" => w.state = "Canceled" /\ w.xid = venue[id].xid

\* A step of the venue: an order turns, in answer to a call or by itself.
VenueTurn(id, w) ==
    /\ Turned(id, w)
    /\ UNCHANGED <<registry, log, lock, recon, up, late, others>>
    /\ \/ UNCHANGED call /\ venue[id].state # "none" /\ w.xid = venue[id].xid
       \/ \E c \in Clients : AnswersWith(c, id, w)

LEMMA VenueTurns ==
    ASSUME Inv, Shaped, NoLate, Next
    PROVE  (Elsewhere /\ venue' = venue) \/ \E id \in Ids : \E w : VenueTurn(id, w)
<1>1. TypeOK /\ venue \in [Ids -> VenueOrder]
  BY DEF Inv, TypeOK
<1>2. CASE Elsewhere
  <2>1. Reader \/ FeedLoss \/ CrashRestart => venue' = venue
    BY DEF Reader, ReportBuffered, ReportUnknown, ReportArbitrated, FeedLoss, CrashRestart
  <2> QED
    BY <1>2, <2>1, CallerFrame, ReconcilerFrame DEF Elsewhere
<1>3. ASSUME NEW c \in Clients, VenueAnswers(c)
      PROVE  \E id \in Ids : \E w : VenueTurn(id, w)
  <2>1. call[c].id \in Ids /\ call[c].qty \in Nat
    BY <1>3, AtKnownOrder DEF VenueAnswers
  <2>2. PICK w : /\ Turned(call[c].id, w)
                 /\ call[c].op = "place" <=> venue[call[c].id].state = "none"
                 /\ call[c].op = "cancel" => w.state = "Canceled" /\ w.xid = venue[call[c].id].xid
    BY <1>1, <1>3, <2>1, ExecutesTurns DEF VenueAnswers
  <2>3. venue'[call[c].id] = w
    BY <1>1, <2>1, <2>2 DEF Turned
  <2>4. AnswersWith(c, call[c].id, w)
    BY <1>3, <2>2, <2>3 DEF VenueAnswers, AnswersWith
  <2> QED
    BY <1>3, <2>1, <2>2, <2>4 DEF VenueAnswers, VenueTurn
<1>4. ASSUME NEW id \in Ids, VenueFill(id) \/ VenueCancel(id)
      PROVE  \E w : VenueTurn(id, w)
  <2>1. UNCHANGED <<registry, log, lock, call, recon, up, late, others>>
    BY <1>4 DEF VenueFill, VenueCancel
  <2> QED
    BY <1>1, <1>4, <2>1, SelfTurns DEF VenueTurn
<1> QED
  BY <1>2, <1>3, <1>4 DEF Next, Venue, Elsewhere, NoLate

\* What an answer leaves in the call.
LEMMA AnswerKeeps ==
    ASSUME TypeOK, NEW c \in Clients, NEW id, NEW w, AnswersWith(c, id, w)
    PROVE  /\ call'[c].pc = "call" /\ call'[c].op = call[c].op /\ call'[c].id = id
           /\ call'[c].ack = w.xid /\ \A d \in Clients \ {c} : call'[d] = call[d]
BY DEF TypeOK, Call, AnswersWith

\* A step changes the venue's order of an id only to one that can follow it.
LEMMA VenueAdvances ==
    ASSUME Inv, Shaped, NoLate, Next
    PROVE  /\ Shaped'
           /\ venue' \in [Ids -> VenueOrder]
           /\ \A id \in Ids : venue'[id] = venue[id] \/ NextOrder(venue[id], venue'[id])
<1>1. venue \in [Ids -> VenueOrder]
  BY DEF Inv, TypeOK
<1>2. ASSUME NEW i \in Ids, NEW w, VenueTurn(i, w)
      PROVE  \A id \in Ids : IF id = i THEN NextOrder(venue[id], venue'[id]) ELSE venue'[id] = venue[id]
  BY <1>1, <1>2 DEF VenueTurn, Turned
<1>3. \A id \in Ids : venue'[id] = venue[id] \/ NextOrder(venue[id], venue'[id])
  BY <1>2, VenueTurns
<1>4. venue' \in [Ids -> VenueOrder]
  BY MarketTyped DEF Inv
<1>5. Shaped'
  BY <1>3 DEF Shaped, NextOrder
<1> QED
  BY <1>3, <1>4, <1>5

LEMMA PairAppended ==
    ASSUME NEW S, NEW f \in Seq(S), NEW a \in S, NEW b \in S
    PROVE  f \o <<a, b>> = Append(Append(f, a), b)
OBVIOUS

LEMMA FeedAppendedTwo ==
    ASSUME feed \in Seq(FeedReport), NEW a \in FeedReport, NEW b \in FeedReport,
           feed' = Append(Append(feed, a), b), NEW id
    PROVE  InFeed(id)' = InFeed(id) \cup (IF a.id = id THEN {a.report} ELSE {})
                                    \cup (IF b.id = id THEN {b.report} ELSE {})
<1> DEFINE m == Append(feed, a)
           n == Len(feed)
<1>1. feed' = Append(m, b)
  OBVIOUS
<1>2. /\ m \in Seq(FeedReport) /\ n \in Nat /\ Len(m) = n + 1 /\ DOMAIN feed = 1..n
      /\ \A i \in 1..n : m[i] = feed[i]
      /\ m[n + 1] = a
  BY AppendProperties, LenProperties
<1> HIDE DEF m
<1>3. /\ DOMAIN feed' = 1..(n + 2)
      /\ \A i \in 1..(n + 1) : feed'[i] = m[i]
      /\ feed'[n + 2] = b
  BY <1>1, <1>2, AppendProperties, LenProperties
<1> HIDE DEF n
<1>6. feed'[n + 1] = a /\ feed'[n + 2] = b /\ n + 1 \in DOMAIN feed' /\ n + 2 \in DOMAIN feed'
  BY <1>2, <1>3
<1>7. \A i \in DOMAIN feed : i \in DOMAIN feed' /\ feed'[i] = feed[i]
  BY <1>2, <1>3
<1>8. \A i \in DOMAIN feed' : i \in DOMAIN feed \/ i = n + 1 \/ i = n + 2
  BY <1>2, <1>3
<1> QED
  BY <1>6, <1>7, <1>8 DEF InFeed

\* The report of the end of the leg that is replaced.
OldLeg(id) == [state |-> "Canceled", filled |-> venue[id].filled, xid |-> venue[id].xid]

Replaced(id) == Working(venue[id].state) /\ NextOrder(venue[id], venue'[id])
                  /\ venue'[id].xid = venue[id].xid + 1

\* The reports that an order's turn makes due.
LEMMA TurnDue ==
    ASSUME Inv, NEW i \in Ids, NEW w, VenueTurn(i, w), NEW id \in Ids
    PROVE  /\ \A r \in Due(id)' : \/ r \in Due(id)
                                  \/ venue'[id].state # "none" /\ r = NewsOf(id)'
                                  \/ Replaced(id) /\ r = OldLeg(id)
           /\ Due(id) \subseteq Due(id)'
           /\ venue'[id] = venue[id] \/ NewsOf(id)' \in Due(id)'
<1>1. /\ venue \in [Ids -> VenueOrder] /\ feed \in Seq(FeedReport) /\ call \in [Clients -> Call]
      /\ TypeOK /\ venue[i] \in VenueOrder
  BY DEF Inv, TypeOK
<1>2. /\ venue' = [venue EXCEPT ![i] = w] /\ NextOrder(venue[i], w) /\ w \in VenueOrder /\ w.state # "none"
      /\ venue'[i] = w /\ (id # i => venue'[id] = venue[id])
  BY <1>1 DEF VenueTurn, Turned, NextOrder
<1>3. ReportOf(i, w) \in FeedReport /\ ReportOf(i, w).id = i /\ NewsOf(i)' = ReportOf(i, w).report
  BY <1>2, ReportOfTyped DEF ReportOf, NewsOf
<1>4. InBuffer(id)' = InBuffer(id)
  BY DEF VenueTurn, registry, InBuffer
<1>5. InDrain(id)' = InDrain(id)
  <2>1. CASE UNCHANGED call
    BY <2>1 DEF InDrain, Drainers, DrainedBy
  <2>2. ASSUME NEW c \in Clients, AnswersWith(c, i, w)
        PROVE  InDrain(id)' = InDrain(id)
    <3>1. call[c].pc = "call" /\ call'[c].pc = "call" /\ \A d \in Clients \ {c} : call'[d] = call[d]
      BY <1>1, <2>2, AnswerKeeps DEF AnswersWith
    <3> QED
      BY <3>1, DrainFrame
  <2> QED
    BY <2>1, <2>2 DEF VenueTurn
<1>6. CASE ~(venue[i].state # "none" /\ w.xid # venue[i].xid)
  <2>1. feed' = Append(feed, ReportOf(i, w))
    BY <1>6 DEF VenueTurn, Turned
  <2>2. InFeed(id)' = InFeed(id) \cup (IF i = id THEN {NewsOf(id)'} ELSE {})
    BY <1>1, <1>3, <2>1, FeedAppended
  <2> QED
    BY <1>2, <1>4, <1>5, <2>2 DEF Due
<1>7. CASE venue[i].state # "none" /\ w.xid # venue[i].xid
  <2> DEFINE old == [venue[i] EXCEPT !.state = "Canceled"]
  <2>1. /\ old \in VenueOrder /\ old.state = "Canceled" /\ old.filled = venue[i].filled
        /\ old.xid = venue[i].xid
    BY <1>1 DEF VenueOrder, VenueStates, States
  <2>2. PICK a, b : a = ReportOf(i, old) /\ b = ReportOf(i, w) /\ feed' = feed \o <<a, b>>
    BY <1>7 DEF VenueTurn, Turned
  <2> HIDE DEF old
  <2>3. /\ a \in FeedReport /\ a.id = i /\ a.report = OldLeg(i)
        /\ b \in FeedReport /\ b.id = i /\ b.report = NewsOf(i)'
    BY <1>3, <2>1, <2>2, ReportOfTyped DEF ReportOf, OldLeg
  <2>4. InFeed(id)' = InFeed(id) \cup (IF i = id THEN {OldLeg(id)} ELSE {})
                                 \cup (IF i = id THEN {NewsOf(id)'} ELSE {})
    <3>1. feed' = Append(Append(feed, a), b)
      BY <1>1, <2>2, <2>3, PairAppended
    <3>2. InFeed(id)' = InFeed(id) \cup (IF a.id = id THEN {a.report} ELSE {})
                                   \cup (IF b.id = id THEN {b.report} ELSE {})
      BY <1>1, <2>3, <3>1, FeedAppendedTwo
    <3> QED
      BY <2>3, <3>2
  <2>5. Replaced(i)
    BY <1>2, <1>7 DEF Replaced, NextOrder
  <2> QED
    BY <1>2, <1>4, <1>5, <2>4, <2>5 DEF Due
<1> QED
  BY <1>6, <1>7

\* How the reports about an order travel.
LEMMA DueStep ==
    ASSUME Inv, Shaped, NoLate, Next, NEW id \in Ids
    PROVE  /\ \A r \in Due(id)' : \/ r \in Due(id)
                                  \/ venue'[id].state # "none" /\ r = NewsOf(id)'
                                  \/ Replaced(id) /\ r = OldLeg(id)
           /\ \A r \in Due(id) : r \in Due(id)' \/ Applied(id, r) \/ Lost(id)
           /\ venue'[id] = venue[id] \/ NewsOf(id)' \in Due(id)'
<1>1. CASE Elsewhere /\ venue' = venue
  BY <1>1, ElsewhereDue
<1>2. ASSUME NEW i \in Ids, NEW w, VenueTurn(i, w)
      PROVE  /\ \A r \in Due(id)' : \/ r \in Due(id)
                                    \/ venue'[id].state # "none" /\ r = NewsOf(id)'
                                    \/ Replaced(id) /\ r = OldLeg(id)
             /\ Due(id) \subseteq Due(id)'
             /\ venue'[id] = venue[id] \/ NewsOf(id)' \in Due(id)'
  BY <1>2, TurnDue
<1> QED
  BY <1>1, <1>2, VenueTurns

-----------------------------------------------------------------------------
(* What is at hand about an order is true of the venue's order *)

\* A report about an order, of its present leg or of an earlier one.
LegBacked(o, v) ==
    /\ o.xid \in 1..v.xid
    /\ v.prior = 0 => o.filled <= v.filled
    /\ is_terminal(o.state) /\ o.xid = v.xid => v.state = o.state
    /\ o.state \in {"PartiallyFilled", "Filled"} => o.filled > 0
    /\ o.state # "Rejected"

\* A snapshot of an order, which is of a present leg when it is taken.
SnapBacked(s, v) == LegBacked(s, v) /\ (is_terminal(s.state) => v.state = s.state)

\* What a reconciling thread has at hand.
ListingBacked(x) == \A e \in x.listing : SnapBacked(e.snap, venue[e.id])

LookupBacked(x) ==
    x.pc = "apply" => IF x.found = {} THEN venue[x.item].state = "none"
                                      ELSE \A s \in x.found : SnapBacked(s, venue[x.item])

ReportsTrue == \A id \in Ids : \A r \in Due(id) : LegBacked(r, venue[id])

SnapshotsTrue == \A t \in Recons : ListingBacked(recon[t]) /\ LookupBacked(recon[t])

AcksTrue ==
    \A c \in Clients : call[c].pc = "call" =>
        LET v == venue[call[c].id] IN
        IF call[c].ack = 0 THEN call[c].op = "place" => v.state = "none"
        ELSE /\ v.state # "none" /\ call[c].ack = v.xid
             /\ call[c].op = "place" => v.xid = 1
             /\ call[c].op = "cancel" => v.state = "Canceled"

VenueKnown == \A id \in Ids : venue[id].state # "none" => known(orders[id])

Truth == Shaped /\ NoLate /\ VenueKnown /\ ReportsTrue /\ SnapshotsTrue /\ AcksTrue

\* What was true of an order is true of the one that follows it.
LEMMA TruthStays ==
    ASSUME NEW v \in VenueOrder, NEW w, VenueShape(v), w = v \/ NextOrder(v, w),
           NEW o, o.filled \in Nat, LegBacked(o, v)
    PROVE  LegBacked(o, w) /\ (SnapBacked(o, v) => SnapBacked(o, w))
<1>1. /\ v.xid \in Nat /\ v.filled \in Nat /\ v.prior \in Nat
      /\ NextOrder(v, w) => w.xid \in Nat /\ w.filled \in Nat /\ w.prior \in Nat
  BY DEF VenueOrder, NextOrder
<1>2. CASE w = v
  BY <1>2
<1>3. CASE NextOrder(v, w) /\ v.state = "none"
  BY <1>1, <1>3 DEF LegBacked, VenueShape
<1>4. CASE NextOrder(v, w) /\ Working(v.state) /\ w.xid = v.xid /\ w.prior = v.prior /\ w.filled >= v.filled
  BY <1>1, <1>4 DEF LegBacked, SnapBacked, Working, is_terminal
<1>5. CASE NextOrder(v, w) /\ Working(v.state) /\ w.xid = v.xid + 1 /\ w.prior = v.prior + v.filled
  BY <1>1, <1>5 DEF LegBacked, SnapBacked, Working, is_terminal, NextOrder, VenueShape
<1> QED
  BY <1>2, <1>3, <1>4, <1>5 DEF NextOrder

\* Reports on their way stay true.
LEMMA ReportsTrueKept ==
    ASSUME Inv, Truth, Next
    PROVE  ReportsTrue'
<1> SUFFICES ASSUME NEW id \in Ids, NEW r \in Due(id)'
             PROVE  LegBacked(r, venue'[id])
  BY DEF ReportsTrue
<1> DEFINE v == venue[id]
           w == venue'[id]
<1>0. Shaped /\ NoLate
  BY DEF Truth
<1>1. /\ v \in VenueOrder /\ w \in VenueOrder /\ (w = v \/ NextOrder(v, w))
      /\ VenueShape(v) /\ VenueShape(w)
  BY <1>0, VenueAdvances DEF Inv, TypeOK, Shaped
<1>2. CASE r \in Due(id)
  <2>1. LegBacked(r, v)
    BY <1>2 DEF Truth, ReportsTrue
  <2>2. r.filled \in Nat
    BY <1>2, DueTyped DEF Report
  <2> QED
    BY <1>1, <2>1, <2>2, TruthStays
<1>3. CASE w.state # "none" /\ r = NewsOf(id)'
  <2>1. r.state = w.state /\ r.filled = w.filled /\ r.xid = w.xid
    BY <1>3 DEF NewsOf, ReportOf
  <2>2. w.filled \in Nat /\ w.xid \in Nat
    BY <1>1 DEF VenueOrder
  <2> HIDE DEF w
  <2>3. LegBacked(r, w)
    BY <1>1, <1>3, <2>1, <2>2 DEF LegBacked, VenueShape
  <2> QED
    BY <2>3 DEF w
<1>4. CASE Replaced(id) /\ r = OldLeg(id)
  <2>1. /\ r.state = "Canceled" /\ r.filled = v.filled /\ r.xid = v.xid
        /\ Working(v.state) /\ NextOrder(v, w) /\ w.xid = v.xid + 1
    BY <1>4 DEF OldLeg, Replaced
  <2>2. v.filled \in Nat /\ v.xid \in Nat /\ v.prior \in Nat /\ w.filled \in Nat /\ v.xid > 0
    BY <1>1, <2>1 DEF VenueOrder, VenueShape, Working
  <2> HIDE DEF v, w
  <2>3. w.prior = v.prior + v.filled
    BY <2>1, <2>2 DEF NextOrder, Working
  <2>4. LegBacked(r, w)
    BY <2>1, <2>2, <2>3 DEF LegBacked, is_terminal
  <2> QED
    BY <2>4 DEF w
<1> QED
  BY <1>0, <1>2, <1>3, <1>4, DueStep

\* An order appears on the venue in answer to its place.
LEMMA PlaceAppears ==
    ASSUME Inv, Shaped, NoLate, Next, NEW id \in Ids, venue[id].state = "none", venue'[id].state # "none"
    PROVE  \E c \in Clients : PlaceOpen(c) /\ call[c].id = id /\ call'[c].ack # 0
<1>0. PICK i \in Ids : \E w : VenueTurn(i, w)
  BY VenueTurns
<1>1. venue \in [Ids -> VenueOrder] /\ TypeOK
  BY DEF Inv, TypeOK
<1>2. PICK w : VenueTurn(i, w)
  BY <1>0
<1>3. i = id /\ w.xid # 0
  BY <1>1, <1>2 DEF VenueTurn, Turned, NextOrder, VenueShape
<1>4. PICK c \in Clients : AnswersWith(c, id, w)
  BY <1>2, <1>3 DEF VenueTurn
<1>5. call'[c].ack = w.xid
  BY <1>1, <1>4, AnswerKeeps
<1> QED
  BY <1>3, <1>4, <1>5 DEF AnswersWith, PlaceOpen

\* A leg is replaced in answer to an amend.
LEMMA AmendReplaces ==
    ASSUME Inv, Shaped, NoLate, Next, NEW id \in Ids, venue[id].state # "none",
           venue'[id].xid # venue[id].xid
    PROVE  \E c \in Clients : /\ call[c].pc = "call" /\ call[c].op = "amend" /\ call[c].id = id
                              /\ call[c].ack = 0
                              /\ call'[c].pc = "call" /\ call'[c].op = "amend" /\ call'[c].id = id
                              /\ call'[c].ack # 0 /\ call'[c].ack = venue'[id].xid
<1>0. PICK i \in Ids : \E w : VenueTurn(i, w)
  BY VenueTurns
<1>1. venue \in [Ids -> VenueOrder] /\ TypeOK
  BY DEF Inv, TypeOK
<1>2. PICK w : VenueTurn(i, w)
  BY <1>0
<1>3. i = id /\ w.xid # 0 /\ venue'[id] = w
  BY <1>1, <1>2 DEF VenueTurn, Turned, NextOrder, VenueShape
<1>4. PICK c \in Clients : AnswersWith(c, id, w)
  BY <1>2, <1>3 DEF VenueTurn
<1>5. call[c].op = "amend"
  BY <1>1, <1>3, <1>4 DEF AnswersWith, TypeOK, Call, Ops
<1>6. call'[c].pc = "call" /\ call'[c].op = call[c].op /\ call'[c].id = id /\ call'[c].ack = w.xid
  BY <1>1, <1>4, AnswerKeeps
<1> QED
  BY <1>3, <1>4, <1>5, <1>6 DEF AnswersWith

\* At most one place or amend of an order is open.
LEMMA OneMutating ==
    ASSUME Inv, NEW c \in Clients, NEW d \in Clients, MutatingCall(c, call[c].id),
           MutatingCall(d, call[c].id)
    PROVE  c = d
<1>1. call[c].id \in Ids
  BY AtKnownOrder DEF MutatingCall
<1>2. c \in OpenCalls(call[c].id) /\ d \in OpenCalls(call[c].id)
  BY DEF MutatingCall, OpenCalls
<1>3. \A id \in Ids : OpenCalls(id) = {} \/ \E e \in Clients : OpenCalls(id) = {e}
  BY DEF Inv, OneOpenCall
<1> QED
  BY <1>1, <1>2, <1>3

\* The answers of open calls stay true.
LEMMA AcksTrueKept ==
    ASSUME Inv, Truth, Next
    PROVE  AcksTrue'
<1> SUFFICES ASSUME NEW c \in Clients, call'[c].pc = "call"
             PROVE  LET v == venue'[call'[c].id] IN
                    IF call'[c].ack = 0 THEN call'[c].op = "place" => v.state = "none"
                    ELSE /\ v.state # "none" /\ call'[c].ack = v.xid
                         /\ call'[c].op = "place" => v.xid = 1
                         /\ call'[c].op = "cancel" => v.state = "Canceled"
  BY DEF AcksTrue
<1>0. TypeOK /\ Shaped /\ NoLate /\ venue \in [Ids -> VenueOrder]
  BY DEF Inv, Truth, TypeOK
<1>1. CASE call'[c] = call[c]
  <2> DEFINE id == call[c].id
             v == venue[id]
             w == venue'[id]
  <2>1. /\ id \in Ids /\ call[c].pc = "call" /\ call[c].op \in Ops
        /\ IF call[c].ack = 0 THEN call[c].op = "place" => v.state = "none"
           ELSE /\ v.state # "none" /\ call[c].ack = v.xid
                /\ call[c].op = "place" => v.xid = 1
                /\ call[c].op = "cancel" => v.state = "Canceled"
    BY <1>0, <1>1, AtKnownOrder DEF Truth, AcksTrue, TypeOK, Call
  <2>2. w = v \/ NextOrder(v, w)
    BY <1>0, <2>1, VenueAdvances
  <2>3. ASSUME call[c].ack = 0, call[c].op = "place", w.state # "none" PROVE FALSE
    <3>1. PICK d \in Clients : PlaceOpen(d) /\ call[d].id = id /\ call'[d].ack # 0
      BY <1>0, <2>1, <2>3, PlaceAppears
    <3>2. c = d
      BY <2>1, <2>3, <3>1 DEF Inv, PlaceAlone, PlaceOpen
    <3> QED
      BY <1>1, <2>3, <3>1, <3>2
  <2>4. ASSUME call[c].ack # 0, w # v
        PROVE  call[c].op # "cancel" /\ w.state # "none"
    BY <2>1, <2>2, <2>4 DEF NextOrder, Working
  <2>5. ASSUME call[c].ack # 0, w.xid # v.xid PROVE FALSE
    <3>1. PICK d \in Clients : call[d].pc = "call" /\ call[d].op = "amend" /\ call[d].id = id /\ call[d].ack = 0
      BY <1>0, <2>1, <2>5, AmendReplaces
    <3>2. MutatingCall(c, id) /\ MutatingCall(d, id)
      BY <2>1, <2>4, <2>5, <3>1 DEF MutatingCall, Ops
    <3> QED
      BY <2>5, <3>1, <3>2, OneMutating
  <2> HIDE DEF v, w
  <2>6. IF call[c].ack = 0 THEN call[c].op = "place" => w.state = "none"
        ELSE /\ w.state # "none" /\ call[c].ack = w.xid
             /\ call[c].op = "place" => w.xid = 1
             /\ call[c].op = "cancel" => w.state = "Canceled"
    BY <2>1, <2>3, <2>4, <2>5
  <2> QED
    BY <1>1, <2>6 DEF w
<1>2. ASSUME NEW id \in Ids, NEW w, AnswersWith(c, id, w), Turned(id, w)
      PROVE  LET v == venue'[call'[c].id] IN
             /\ call'[c].ack # 0 /\ v.state # "none" /\ call'[c].ack = v.xid
             /\ call'[c].op = "place" => v.xid = 1
             /\ call'[c].op = "cancel" => v.state = "Canceled"
  <2>1. call'[c].op = call[c].op /\ call'[c].id = id /\ call'[c].ack = w.xid
    BY <1>0, <1>2, AnswerKeeps
  <2>2. venue'[id] = w /\ NextOrder(venue[id], w)
    BY <1>0, <1>2 DEF Turned
  <2>3. w.state # "none" /\ w.xid # 0
    BY <2>2 DEF NextOrder, VenueShape
  <2>4. call[c].op = "place" => w.xid = 1
    BY <1>2, <2>2 DEF AnswersWith, NextOrder, Working
  <2>5. call[c].op = "cancel" => w.state = "Canceled"
    BY <1>2 DEF AnswersWith
  <2> QED
    BY <2>1, <2>2, <2>3, <2>4, <2>5
<1>3. ASSUME NEW id \in Ids, NEW w, VenueTurn(id, w)
      PROVE  call'[c] = call[c] \/ (AnswersWith(c, id, w) /\ Turned(id, w))
  <2>1. ASSUME NEW d \in Clients, AnswersWith(d, id, w), d # c PROVE call'[c] = call[c]
    BY <1>0, <2>1, AnswerKeeps
  <2> QED
    BY <1>3, <2>1 DEF VenueTurn
<1>4. ASSUME NEW id \in Ids, NEW qty \in Quantities, PlaceStaged(c, id, qty), call'[c].id = id
      PROVE  venue'[call'[c].id].state = "none"
  BY <1>4 DEF PlaceStaged, market, Truth, VenueKnown
<1>5. CASE Elsewhere
  BY <1>1, <1>4, <1>5, CallsElsewhere
<1> QED
  BY <1>0, <1>1, <1>2, <1>3, <1>5, VenueTurns

\* Without restarts the registry forgets no order, and what appears on the
\* venue was placed.
LEMMA VenueKnownKept ==
    ASSUME Inv, Truth, Next
    PROVE  VenueKnown'
<1> SUFFICES ASSUME NEW id \in Ids, venue'[id].state # "none"
             PROVE  known(orders'[id])
  BY DEF VenueKnown
<1>0. Shaped /\ NoLate /\ ~CrashRestart
  BY DEF Truth, NoLate, CrashRestart
<1>1. known(orders[id]) => known(orders'[id])
  BY <1>0, RegistryKept DEF Advances
<1>2. CASE venue[id].state # "none"
  BY <1>1, <1>2 DEF Truth, VenueKnown
<1>3. CASE venue[id].state = "none"
  <2>1. PICK c \in Clients : PlaceOpen(c) /\ call[c].id = id
    BY <1>0, <1>3, PlaceAppears
  <2> QED
    BY <1>1, <2>1, AtKnownOrder DEF PlaceOpen
<1> QED
  BY <1>2, <1>3

LEMMA NoLateKept ==
    ASSUME Inv, Punctual, NoLate, Next
    PROVE  NoLate'
<1>1. Reader => UNCHANGED <<late, crashesLeft>>
  BY DEF Reader, ReportBuffered, ReportUnknown, ReportArbitrated, others
<1>2. ASSUME NEW c \in Clients, Caller(c) PROVE late' = late /\ UNCHANGED crashesLeft
  <2>1. TransportError(c) => late' = late
    BY DEF TransportError, Punctual
  <2> QED
    BY <1>2, <2>1, CallerFrame DEF PlaceUnresolved, CancelFailed, AmendFailed
<1>3. Venue => late' = {} /\ UNCHANGED crashesLeft
  BY VenueFrame DEF others, NoLate
<1> QED
  BY <1>1, <1>2, <1>3, ReconcilerFrame DEF Next, NoLate, CrashRestart

LEMMA FreshSnapshot ==
    ASSUME TypeOK, Shaped, NEW id \in Ids, venue[id].state # "none"
    PROVE  SnapBacked(SnapshotOf(id), venue[id])
<1> DEFINE v == venue[id]
           s == SnapshotOf(id)
<1>1. v.filled \in Nat /\ v.xid \in Nat /\ VenueShape(v)
  BY DEF TypeOK, VenueOrder, Shaped
<1>2. s.state = v.state /\ s.filled = v.filled /\ s.xid = v.xid
  BY DEF SnapshotOf
<1> HIDE DEF v, s
<1>3. v.state # "none"
  BY DEF v
<1>4. SnapBacked(s, v)
  BY <1>1, <1>2, <1>3 DEF SnapBacked, LegBacked, VenueShape
<1> QED
  BY <1>4 DEF v, s

\* What a reconciling thread fetches is true; what it does not touch stays.
LEMMA ReconcilerAtHand ==
    ASSUME Inv, Truth, NEW t \in Recons, Reconciler(t)
    PROVE  \E x : recon' = [recon EXCEPT ![t] = x] /\ ListingBacked(x) /\ LookupBacked(x)
<1> DEFINE y == recon[t]
           Goal == \E x : recon' = [recon EXCEPT ![t] = x] /\ ListingBacked(x) /\ LookupBacked(x)
<1>1. /\ TypeOK /\ recon \in [Recons -> Recon] /\ y \in Recon /\ Shaped
      /\ ListingBacked(y) /\ LookupBacked(y)
  BY DEF Inv, TypeOK, Truth, SnapshotsTrue
<1>2. CASE ReconList(t)
  <2>1. PICK listing \in {OpenOrders, {}} :
          recon' = [recon EXCEPT ![t] = [IdleRecon EXCEPT !.pc = "listed", !.listing = listing]]
    BY <1>2 DEF ReconList
  <2> DEFINE x == [IdleRecon EXCEPT !.pc = "listed", !.listing = listing]
  <2>2. x.pc = "listed" /\ x.listing = listing
    BY DEF IdleRecon
  <2>3. ASSUME NEW e \in OpenOrders PROVE SnapBacked(e.snap, venue[e.id])
    <3>1. PICK id \in Ids : Working(venue[id].state) /\ e = [id |-> id, snap |-> SnapshotOf(id)]
      BY <2>3 DEF OpenOrders
    <3>2. venue[id].state # "none" /\ e.id = id /\ e.snap = SnapshotOf(id)
      BY <3>1 DEF Working
    <3> QED
      BY <1>1, <3>2, FreshSnapshot
  <2>4. recon' = [recon EXCEPT ![t] = x]
    BY <2>1
  <2> HIDE DEF x
  <2>5. ListingBacked(x) /\ LookupBacked(x)
    BY <2>1, <2>2, <2>3 DEF ListingBacked, LookupBacked
  <2> QED
    BY <2>4, <2>5
<1>3. ASSUME NEW x, recon' = [recon EXCEPT ![t] = x], x.listing \subseteq y.listing,
             x.pc # "apply"
      PROVE  Goal
  <2>1. ListingBacked(x) /\ LookupBacked(x)
    BY <1>1, <1>3 DEF ListingBacked, LookupBacked
  <2> QED
    BY <1>3, <2>1
<1>4. ASSUME NEW e, Listed(t, e)
      PROVE  Goal
  <2> DEFINE x == [y EXCEPT !.listing = @ \ {e}]
  <2>1. recon' = [recon EXCEPT ![t] = x]
    BY <1>1, <1>4 DEF Listed
  <2>2. x.pc = "listed" /\ x.listing \subseteq y.listing
    BY <1>1, <1>4 DEF Recon, Listed
  <2> HIDE DEF x
  <2> QED
    BY <1>3, <2>1, <2>2
<1>5. CASE ReconWorklist(t)
  <2> DEFINE w == {id \in Ids \ flying : known(orders[id]) /\ ~is_terminal(orders[id].state)}
             x == [y EXCEPT !.pc = "lookup", !.work = w]
  <2>1. recon' = [recon EXCEPT ![t] = x]
    BY <1>1, <1>5 DEF ReconWorklist
  <2> HIDE DEF w
  <2>2. x.pc = "lookup" /\ x.listing = y.listing
    BY <1>1 DEF Recon
  <2> HIDE DEF x
  <2> QED
    BY <1>3, <2>1, <2>2
<1>6. ASSUME NEW id \in Ids, ReconLookup(t, id)
      PROVE  Goal
  <2> DEFINE f == IF venue[id].state = "none" THEN {} ELSE {SnapshotOf(id)}
             x == [y EXCEPT !.pc = "apply", !.work = @ \ {id}, !.item = id, !.found = f]
  <2>1. recon' = [recon EXCEPT ![t] = x]
    BY <1>1, <1>6 DEF ReconLookup
  <2>2. IF f = {} THEN venue[id].state = "none" ELSE \A s \in f : SnapBacked(s, venue[id])
    BY <1>1, FreshSnapshot
  <2> HIDE DEF f
  <2>3. x.pc = "apply" /\ x.listing = y.listing /\ x.item = id /\ x.found = f
    BY <1>1 DEF Recon
  <2> HIDE DEF x
  <2>4. ListingBacked(x) /\ LookupBacked(x)
    BY <1>1, <2>2, <2>3 DEF ListingBacked, LookupBacked
  <2> QED
    BY <2>1, <2>4
<1>7. ASSUME NEW id \in Ids, ReconLookupFails(t, id)
      PROVE  Goal
  <2> DEFINE x == [y EXCEPT !.work = @ \ {id}]
  <2>1. recon' = [recon EXCEPT ![t] = x]
    BY <1>1, <1>7 DEF ReconLookupFails
  <2>2. x.pc = "lookup" /\ x.listing = y.listing
    BY <1>1, <1>7 DEF Recon, ReconLookupFails
  <2> HIDE DEF x
  <2> QED
    BY <1>3, <2>1, <2>2
<1>8. ASSUME NextItem(t)
      PROVE  Goal
  <2> DEFINE x == [y EXCEPT !.pc = "lookup", !.item = None, !.found = {}]
  <2>1. recon' = [recon EXCEPT ![t] = x]
    BY <1>1, <1>8 DEF NextItem
  <2>2. x.pc = "lookup" /\ x.listing = y.listing
    BY <1>1 DEF Recon
  <2> HIDE DEF x
  <2> QED
    BY <1>3, <2>1, <2>2
<1>9. ASSUME recon' = [recon EXCEPT ![t].pc = "absent"]
      PROVE  Goal
  <2> DEFINE x == [y EXCEPT !.pc = "absent"]
  <2>1. recon' = [recon EXCEPT ![t] = x]
    BY <1>1, <1>9
  <2>2. x.pc = "absent" /\ x.listing = y.listing
    BY <1>1 DEF Recon
  <2> HIDE DEF x
  <2> QED
    BY <1>3, <2>1, <2>2
<1>10. CASE ReconDone(t)
  <2>1. ListingBacked(IdleRecon) /\ LookupBacked(IdleRecon)
    BY DEF ListingBacked, LookupBacked, IdleRecon
  <2> QED
    BY <1>10, <2>1 DEF ReconDone
<1> QED
  BY <1>2, <1>4, <1>5, <1>6, <1>7, <1>8, <1>9, <1>10
     DEF Reconciler, ListedSkipped, ListedAdopted, ListedRefreshed, ReconFound, ReconAbsent,
         ReconAbsentLogged

\* Only a step of a reconciling thread changes what the threads have at hand.
LEMMA AtHandStep ==
    ASSUME Inv, Truth, Next
    PROVE  \/ UNCHANGED recon
           \/ \E t \in Recons : Reconciler(t) /\ venue' = venue
<1>1. ~CrashRestart
  BY DEF Truth, NoLate, CrashRestart
<1>2. ASSUME NEW c \in Clients, Caller(c)
      PROVE  UNCHANGED recon
  BY <1>2 DEF Caller, PlaceRiskRejected, PlaceStaged, PlaceNotPersisted, AmendSent, CancelSent,
     PlaceAccepted, PlaceRefused, PlaceUnresolved, CancelAccepted, CancelFailed, AmendAccepted,
     AmendFailed, Drain
<1>3. Reader => UNCHANGED recon
  BY DEF Reader, ReportBuffered, ReportUnknown, ReportArbitrated
<1>4. Venue => UNCHANGED recon
  BY VenueFrame
<1>5. ASSUME NEW t \in Recons, Reconciler(t)
      PROVE  venue' = venue
  BY <1>5, ReconcilerFrame
<1> QED
  BY <1>1, <1>2, <1>3, <1>4, <1>5 DEF Next

\* An absence stays one: the order's place is over.
LEMMA SnapshotsTrueKept ==
    ASSUME Inv, Truth, Next
    PROVE  SnapshotsTrue'
<1>0. Shaped /\ NoLate /\ recon \in [Recons -> Recon]
  BY DEF Truth, Inv, TypeOK
<1>1. CASE UNCHANGED recon
  <2> SUFFICES ASSUME NEW t \in Recons
               PROVE  (ListingBacked(recon[t]) /\ LookupBacked(recon[t]))'
    BY DEF SnapshotsTrue
  <2>1. ListingBacked(recon[t]) /\ LookupBacked(recon[t]) /\ recon'[t] = recon[t] /\ recon[t] \in Recon
    BY <1>0, <1>1 DEF Truth, SnapshotsTrue
  <2>2. \A id \in Ids : /\ venue[id] \in VenueOrder /\ VenueShape(venue[id])
                        /\ venue'[id] = venue[id] \/ NextOrder(venue[id], venue'[id])
    BY <1>0, VenueAdvances DEF Inv, TypeOK, Shaped
  <2>3. ASSUME NEW id \in Ids, NEW s \in Snapshot, SnapBacked(s, venue[id])
        PROVE  SnapBacked(s, venue'[id])
    <3>1. s.filled \in Nat /\ LegBacked(s, venue[id])
      BY <2>3 DEF Snapshot, SnapBacked
    <3> QED
      BY <2>2, <2>3, <3>1, TruthStays
  <2>4. ListingBacked(recon[t])'
    <3> SUFFICES ASSUME NEW e \in recon[t].listing PROVE SnapBacked(e.snap, venue'[e.id])
      BY <2>1 DEF ListingBacked
    <3>1. e.id \in Ids /\ e.snap \in Snapshot
      BY <2>1 DEF Recon, ListingEntry
    <3> QED
      BY <2>1, <2>3, <3>1 DEF ListingBacked
  <2>5. LookupBacked(recon[t])'
    <3> SUFFICES ASSUME recon[t].pc = "apply"
                 PROVE  IF recon[t].found = {} THEN venue'[recon[t].item].state = "none"
                        ELSE \A s \in recon[t].found : SnapBacked(s, venue'[recon[t].item])
      BY <2>1 DEF LookupBacked
    <3>1. recon[t].item \in Ids /\ recon[t].found \subseteq Snapshot
      BY <2>1 DEF Recon, Inv, TypeOK
    <3>2. ASSUME recon[t].found # {}, NEW s \in recon[t].found
          PROVE  SnapBacked(s, venue'[recon[t].item])
      BY <2>1, <2>3, <3>1, <3>2 DEF LookupBacked
    <3>3. ASSUME recon[t].found = {}, venue'[recon[t].item].state # "none"
          PROVE  FALSE
      <4>1. venue[recon[t].item].state = "none"
        BY <2>1, <3>3 DEF LookupBacked
      <4>2. PICK c \in Clients : PlaceOpen(c) /\ call[c].id = recon[t].item
        BY <1>0, <3>1, <3>3, <4>1, PlaceAppears
      <4>3. recon[t].item \in Pursued(t)
        BY <3>1, OmsAssumption DEF Pursued, OmsAssumption
      <4> QED
        BY <4>2, <4>3 DEF Inv, WorkKnown
    <3> QED
      BY <3>2, <3>3
  <2> QED
    BY <2>4, <2>5
<1>2. ASSUME NEW u \in Recons, Reconciler(u), venue' = venue
      PROVE  SnapshotsTrue'
  <2>1. PICK x : recon' = [recon EXCEPT ![u] = x] /\ ListingBacked(x) /\ LookupBacked(x)
    BY <1>2, ReconcilerAtHand
  <2>2. \A t \in Recons : ListingBacked(recon'[t]) /\ LookupBacked(recon'[t])
    BY <1>0, <2>1 DEF Truth, SnapshotsTrue
  <2> QED
    BY <1>2, <2>2 DEF SnapshotsTrue, ListingBacked, LookupBacked
<1> QED
  BY <1>1, <1>2, AtHandStep

LEMMA TruthInit ==
    ASSUME Init, Punctual
    PROVE  Truth
<1>1. venue = [id \in Ids |-> NoVenueOrder]
  BY DEF Init, Punctual
<1>2. VenueShape(NoVenueOrder) /\ NoVenueOrder.state = "none"
  BY DEF VenueShape, NoVenueOrder
<1>3. Shaped /\ VenueKnown
  BY <1>1, <1>2 DEF Shaped, VenueKnown
<1>4. \A id \in Ids : Due(id) = {}
  <2>1. feed = <<>> /\ (\A id \in Ids : raced[id] = <<>>) /\ \A c \in Clients : call[c] = IdleCall
    BY DEF Init
  <2>2. DOMAIN feed = {} /\ (\A id \in Ids : DOMAIN raced[id] = {}) /\ \A id \in Ids : Drainers(id) = {}
    BY <2>1, IdleTyped DEF Drainers
  <2> QED
    BY <2>2 DEF Due, InFeed, InBuffer, InDrain
<1>5. SnapshotsTrue
  BY DEF Init, SnapshotsTrue, ListingBacked, LookupBacked, IdleRecon
<1>6. AcksTrue
  BY IdleTyped DEF Init, AcksTrue
<1>7. NoLate
  BY DEF Init, NoLate, Punctual
<1> QED
  BY <1>3, <1>4, <1>5, <1>6, <1>7 DEF Truth, ReportsTrue

LEMMA TruthKept ==
    ASSUME Inv, Truth, Punctual, Next
    PROVE  Truth'
<1>1. Shaped'
  BY VenueAdvances DEF Truth
<1> QED
  BY <1>1, NoLateKept, VenueKnownKept, ReportsTrueKept, SnapshotsTrueKept, AcksTrueKept DEF Truth

-----------------------------------------------------------------------------
(* The leg table of a record *)

\* Every exchange order id of the order up to the record's own has a leg, the
\* versions count up and the last leg is the current one.
Complete(r) ==
    /\ r.legs # <<>> /\ r.xid > 0
    /\ \A i \in DOMAIN r.legs : r.legs[i].version = i
    /\ r.legs[Len(r.legs)].id = r.xid
    /\ \A x \in 1..r.xid : \E i \in DOMAIN r.legs : r.legs[i].id = x

\* The ids that the next leg can carry.
Fits(r, x) ==
    \/ Complete(r) /\ x \in {r.xid, r.xid + 1}
    \/ r.legs = <<>> /\ r.xid = 0 /\ x = 1

LEMMA PushComplete ==
    ASSUME NEW r \in Record, NEW x \in Nat, Fits(r, x),
           NEW p, p.legs = Append(r.legs, [version |-> Len(r.legs) + 1, id |-> x]), p.xid = x
    PROVE  Complete(p)
<1> DEFINE e == [version |-> Len(r.legs) + 1, id |-> x]
           n == Len(r.legs)
           l == Append(r.legs, e)
<1>1. r.legs \in Seq(Leg) /\ n \in Nat /\ DOMAIN r.legs = 1..n /\ r.xid \in Nat
  BY LenProperties DEF Record
<1>2. e \in Leg /\ e.version = n + 1 /\ e.id = x
  BY <1>1 DEF Leg
<1> HIDE DEF e
<1>3. /\ l \in Seq(Leg) /\ Len(l) = n + 1 /\ l[n + 1] = e
      /\ \A i \in 1..n : l[i] = r.legs[i]
      /\ DOMAIN l = 1..(n + 1)
  BY <1>1, <1>2, AppendProperties, LenProperties
<1>4. p.legs = l
  BY DEF e
<1> HIDE DEF l, n
<1>5. l # <<>>
  BY <1>1, <1>3, EmptySeq
<1>6. CASE Complete(r) /\ x \in {r.xid, r.xid + 1}
  <2>1. \A i \in 1..n : l[i].version = i
    BY <1>1, <1>3, <1>6 DEF Complete
  <2>2. \A i \in DOMAIN l : l[i].version = i
    BY <1>1, <1>2, <1>3, <2>1
  <2>3. ASSUME NEW y \in 1..x PROVE \E i \in DOMAIN l : l[i].id = y
    <3>1. CASE y = x
      BY <1>1, <1>2, <1>3, <3>1
    <3>2. CASE y # x
      <4>1. y \in 1..r.xid
        BY <1>1, <1>6, <3>2
      <4>2. PICK i \in 1..n : r.legs[i].id = y
        BY <1>1, <1>6, <4>1 DEF Complete
      <4>3. i \in DOMAIN l /\ l[i].id = y
        BY <1>1, <1>3, <4>2
      <4> QED
        BY <4>3
    <3> QED
      BY <3>1, <3>2
  <2>4. x > 0 /\ l[Len(l)].id = x
    BY <1>1, <1>2, <1>3, <1>6 DEF Complete
  <2> QED
    BY <1>4, <1>5, <2>2, <2>3, <2>4 DEF Complete
<1>7. CASE r.legs = <<>> /\ x = 1
  <2>1. n = 0
    BY <1>7 DEF n
  <2>2. DOMAIN l = {1} /\ l[1] = e /\ Len(l) = 1
    BY <1>3, <2>1
  <2>3. \A y \in 1..x : y = 1
    BY <1>7
  <2> QED
    BY <1>2, <1>4, <1>5, <1>7, <2>1, <2>2, <2>3 DEF Complete
<1> QED
  BY <1>6, <1>7 DEF Fits

LEMMA NoteComplete ==
    ASSUME NEW r \in Record, NEW x \in Nat, Fits(r, x)
    PROVE  LET n == note_exchange_id(r, x) IN
           n \in Record /\ Complete(n) /\ n.xid = x /\ n.state = r.state /\ n.filled = r.filled
<1> DEFINE n == note_exchange_id(r, x)
<1>1. n \in Record /\ n.state = r.state /\ n.filled = r.filled
  BY NoteExchangeId
<1>2. CASE x = r.xid
  <2>1. n = r
    BY <1>2 DEF note_exchange_id
  <2> HIDE DEF n
  <2>2. Complete(r)
    BY <1>2 DEF Fits
  <2> QED
    BY <1>1, <1>2, <2>1, <2>2 DEF n
<1>3. CASE x # r.xid
  <2> DEFINE s == [r EXCEPT !.xid = x]
  <2>1. s \in Record /\ s.xid = x /\ s.legs = r.legs
    BY DEF Record
  <2>2. x # 0
    BY DEF Fits, Complete, Record
  <2>3. n = push_leg(s, x)
    BY <1>3, <2>2 DEF note_exchange_id
  <2> HIDE DEF n, s
  <2>4. n.xid = x /\ n.legs = Append(r.legs, [version |-> Len(r.legs) + 1, id |-> x])
    BY <2>1, <2>3 DEF push_leg, Record
  <2>5. Complete(n)
    BY <2>4, PushComplete
  <2> QED
    BY <1>1, <2>4, <2>5 DEF n
<1> QED
  BY <1>2, <1>3

LEMMA AmendComplete ==
    ASSUME NEW r \in Record, NEW x \in Nat, Fits(r, x)
    PROVE  LET n == append_amend_leg(r, x) IN
           n \in Record /\ Complete(n) /\ n.xid = x /\ n.state = r.state /\ n.filled = r.filled
<1> DEFINE n == append_amend_leg(r, x)
           p == push_leg(r, x)
<1>1. n \in Record /\ n.state = r.state /\ n.filled = r.filled
  BY AppendAmendLeg
<1>2. x # 0
  BY DEF Fits, Complete, Record
<1>3. p \in Record /\ p.legs = Append(r.legs, [version |-> Len(r.legs) + 1, id |-> x])
  BY PushLeg DEF push_leg, Record
<1>4. n = [p EXCEPT !.xid = x]
  BY <1>2 DEF append_amend_leg
<1> HIDE DEF n, p
<1>5. n.xid = x /\ n.legs = p.legs
  BY <1>3, <1>4 DEF Record
<1>6. Complete(n)
  BY <1>3, <1>5, PushComplete
<1> QED
  BY <1>1, <1>5, <1>6 DEF n

\* A complete table knows the ids up to the record's own, and of these only
\* that one is the current leg.
LEMMA LegKnown ==
    ASSUME NEW r \in Record, Complete(r), NEW x \in 1..r.xid
    PROVE  leg_index_of(r, x) # 0 /\ (leg_index_of(r, x) = Len(r.legs) <=> x = r.xid)
<1> DEFINE n == leg_index_of(r, x)
<1>1. n \in 0..Len(r.legs) /\ (n # 0 => r.legs[n].id = x) /\ \A i \in DOMAIN r.legs : r.legs[i].id = x => i <= n
  BY LegIndex
<1>2. r.legs \in Seq(Leg) /\ Len(r.legs) \in Nat /\ DOMAIN r.legs = 1..Len(r.legs)
  BY LenProperties DEF Record
<1>3. PICK i \in DOMAIN r.legs : r.legs[i].id = x
  BY DEF Complete
<1> HIDE DEF n
<1>4. n # 0
  BY <1>1, <1>2, <1>3
<1>5. Len(r.legs) \in DOMAIN r.legs
  BY <1>2, <1>3
<1>6. ASSUME x = r.xid PROVE n = Len(r.legs)
  <2>1. r.legs[Len(r.legs)].id = x
    BY <1>6 DEF Complete
  <2>2. Len(r.legs) <= n
    BY <1>1, <1>5, <2>1
  <2> QED
    BY <1>1, <1>2, <2>2
<1>7. n = Len(r.legs) => x = r.xid
  BY <1>1, <1>4 DEF Complete
<1> QED
  BY <1>4, <1>6, <1>7 DEF n

LEMMA ArbitratedComplete ==
    ASSUME NEW r \in Record, Complete(r), NEW q \in Report, q.xid \in 1..r.xid
    PROVE  Arbitrated(r, q) = r /\ (DrivesLifecycle(r, q) <=> q.xid = r.xid)
<1>1. leg_index_of(r, q.xid) # 0 /\ (leg_index_of(r, q.xid) = Len(r.legs) <=> q.xid = r.xid)
  BY LegKnown
<1>2. r.xid # 0 /\ r.legs # <<>> /\ q.xid # 0
  BY DEF Complete, Record
<1> QED
  BY <1>1, <1>2 DEF Arbitrated, DrivesLifecycle

-----------------------------------------------------------------------------
(* Records and the venue's orders.  As long as no answer of an order is    *)
(* lost, its record is blank and so is the venue, or its place has been    *)
(* answered and is about to return, or it is at the venue's leg, which an  *)
(* answered amend can be ahead of.                                         *)

Blank(r, v) ==
    /\ v.state = "none"
    /\ r.state \in {"none", "Pending", "Rejected"} /\ r.filled = 0 /\ r.xid = 0 /\ r.legs = <<>>

Holds(r, v) ==
    /\ r.state \in {"Live", "PartiallyFilled", "Filled", "Canceled"}
    /\ v.state # "none"
    /\ Complete(r)
    /\ is_terminal(r.state) => v.state = r.state
    /\ v.prior = 0 => r.filled <= v.filled
    /\ r.state = "PartiallyFilled" => r.filled > 0

\* A call that the venue has executed and that has not returned yet.
HasAnswer(id, op) ==
    \E c \in Clients : call[c].pc = "call" /\ call[c].op = op /\ call[c].id = id /\ call[c].ack # 0

AtLeg(id) ==
    \/ orders[id].xid = venue[id].xid
    \/ orders[id].xid + 1 = venue[id].xid /\ HasAnswer(id, "amend")

Follows(id) ==
    \/ Blank(orders[id], venue[id])
    \/ orders[id].state = "Pending" /\ HasAnswer(id, "place")
    \/ Holds(orders[id], venue[id]) /\ AtLeg(id)

\* An observation that is true of the venue's order.
LEMMA ObservationHolds ==
    ASSUME NEW r \in Record, NEW v \in VenueOrder, Holds(r, v),
           NEW state \in VenueStates, state # "Rejected", NEW filled \in Nat, NEW qty \in Nat,
           NEW lifecycle \in BOOLEAN,
           v.prior = 0 => filled <= v.filled,
           lifecycle /\ is_terminal(state) => v.state = state,
           state \in {"PartiallyFilled", "Filled"} => filled > 0
    PROVE  LET o == apply_observation(r, state, filled, qty, lifecycle) IN
           Holds(o, v) /\ o.xid = r.xid
<1> DEFINE o == apply_observation(r, state, filled, qty, lifecycle)
<1>1. /\ o.state = IF lifecycle THEN apply_transition(r.state, state) ELSE r.state
      /\ o.filled = HigherFill(r, filled)
      /\ o.xid = r.xid /\ o.legs = r.legs
  BY Observation
<1> HIDE DEF o
<1>2. /\ o.filled \in Nat /\ o.filled >= r.filled /\ o.filled >= filled
      /\ v.prior = 0 => o.filled <= v.filled
      /\ r.filled \in Nat /\ v.filled \in Nat
  BY <1>1 DEF HigherFill, Record, VenueOrder, Holds
<1>3. o.state = r.state \/ (lifecycle /\ o.state = state)
  BY <1>1 DEF apply_transition
<1>4. Complete(o)
  BY <1>1 DEF Complete, Holds
<1>5. state \in {"Live", "PartiallyFilled", "Filled", "Canceled"}
  BY DEF VenueStates, States
<1>6. is_terminal(o.state) => v.state = o.state
  BY <1>3 DEF Holds
<1>7. o.state = "PartiallyFilled" => o.filled > 0
  BY <1>2, <1>3 DEF Holds
<1>8. Holds(o, v)
  BY <1>2, <1>3, <1>4, <1>5, <1>6, <1>7 DEF Holds
<1> QED
  BY <1>1, <1>8 DEF o

\* An answered place or amend is the open call of its order.
LEMMA AnsweredFlies ==
    ASSUME Inv, NEW id \in Ids, HasAnswer(id, "place") \/ HasAnswer(id, "amend")
    PROVE  id \in flying
<1>1. PICK c \in Clients : call[c].pc = "call" /\ call[c].op \in {"place", "amend"} /\ call[c].id = id
  BY DEF HasAnswer
<1>2. c \in OpenCalls(id)
  BY <1>1 DEF OpenCalls
<1> QED
  BY <1>2 DEF Inv, OneOpenCall

\* A record that no call owns is at the leg of the order that the venue has.
LEMMA Settled ==
    ASSUME Inv, Truth, NEW id \in Ids, Follows(id), venue[id].state # "none", id \notin flying
    PROVE  Holds(orders[id], venue[id]) /\ orders[id].xid = venue[id].xid
BY AnsweredFlies DEF Follows, Blank, AtLeg

\* An answer is awaited until its call returns.
LEMMA AnswerStays ==
    ASSUME Inv, Elsewhere, ~CrashRestart, NEW id \in Ids, NEW op \in {"place", "amend"}, HasAnswer(id, op)
    PROVE  \/ HasAnswer(id, op)'
           \/ \E c \in Clients : call[c].id = id /\ (PlaceAccepted(c) \/ AmendAccepted(c) \/ LosesAnswer(c))
<1> USE OmsAssumption DEF OmsAssumption, Ops
<1>0. TypeOK /\ <<>> \in Seq(Report)
  BY DEF Inv, TypeOK
<1>1. PICK c \in Clients : call[c].pc = "call" /\ call[c].op = op /\ call[c].id = id /\ call[c].ack # 0
  BY DEF HasAnswer
<1>2. call'[c] = call[c] => HasAnswer(id, op)'
  BY <1>1 DEF HasAnswer
<1>3. ASSUME NEW d \in Clients, d # c, Caller(d)
      PROVE  call'[c] = call[c]
  <2>1. ASSUME NEW i \in Ids, NEW qty \in Quantities
        PROVE  PlaceRiskRejected(d, i, qty) \/ PlaceStaged(d, i, qty) \/ PlaceNotPersisted(d, i, qty)
                 \/ AmendSent(d, i, qty) => call'[c] = call[c]
    BY <1>0, <1>3, OpenCallFacts DEF PlaceRiskRejected, PlaceStaged, PlaceNotPersisted, AmendSent
  <2>2. ASSUME NEW i \in Ids, CancelSent(d, i)
        PROVE  call'[c] = call[c]
    BY <1>0, <1>3, <2>2, OpenCallFacts DEF CancelSent
  <2>3. ASSUME NEW q \in Seq(Report), Settle(d, q)
        PROVE  call'[c] = call[c]
    BY <1>0, <1>3, <2>3, SettleFacts
  <2>4. CASE PlaceRefused(d) \/ CancelAccepted(d) \/ CancelFailed(d)
    BY <1>0, <2>3, <2>4 DEF PlaceRefused, CancelAccepted, CancelFailed, Finish
  <2>5. CASE PlaceAccepted(d) \/ PlaceUnresolved(d) \/ AmendAccepted(d) \/ AmendFailed(d)
    <3>1. call[d].pc = "call" /\ (Settle(d, raced[call[d].id]) \/ Settle(d, <<>>))
      BY <2>5 DEF PlaceAccepted, PlaceUnresolved, AmendAccepted, AmendFailed, Returns, Finish
    <3>2. raced[call[d].id] \in Seq(Report)
      BY <3>1, AtKnownOrder DEF Inv, TypeOK
    <3> QED
      BY <1>0, <2>3, <3>1, <3>2
  <2>6. CASE Drain(d)
    <3>1. call[d].raced \in Seq(Report) /\ call[d].raced # <<>> /\ Settle(d, Tail(call[d].raced))
      BY <2>6, AtKnownOrder DEF Drain, Inv, LockOwned
    <3>2. Tail(call[d].raced) \in Seq(Report)
      BY <3>1, SplitSeq
    <3> QED
      BY <2>3, <3>1, <3>2
  <2> QED
    BY <1>3, <2>1, <2>2, <2>4, <2>5, <2>6 DEF Caller
<1>4. CASE Caller(c)
  <2>1. call'[c] = call[c] \/ PlaceAccepted(c) \/ AmendAccepted(c) \/ PlaceUnresolved(c) \/ AmendFailed(c)
    BY <1>1, <1>4 DEF Caller, PlaceRiskRejected, PlaceStaged, PlaceNotPersisted, AmendSent, CancelSent,
       Enters, PlaceRefused, CancelAccepted, CancelFailed, Drain, Returns
  <2> QED
    BY <1>1, <1>2, <2>1 DEF LosesAnswer
<1>5. Reader \/ FeedLoss => call'[c] = call[c]
  BY DEF Reader, ReportBuffered, ReportUnknown, ReportArbitrated, FeedLoss
<1>6. ASSUME NEW t \in Recons, Reconciler(t)
      PROVE  call'[c] = call[c]
  BY <1>6, ReconcilerFrame
<1> QED
  BY <1>2, <1>3, <1>4, <1>5, <1>6 DEF Elsewhere

\* A step that leaves the record, the venue's order and the answers alone.
LEMMA FollowsFrame ==
    ASSUME NEW id, Follows(id), orders'[id] = orders[id], venue'[id] = venue[id],
           HasAnswer(id, "place") => HasAnswer(id, "place")',
           HasAnswer(id, "amend") => HasAnswer(id, "amend")'
    PROVE  Follows(id)'
BY DEF Follows, AtLeg

\* An order that turns.
LEMMA VenueFollows ==
    ASSUME Inv, Truth, Next, NEW i \in Ids, NEW w, VenueTurn(i, w), NEW id \in Ids, Follows(id)
    PROVE  Follows(id)'
<1> DEFINE r == orders[id]
           v == venue[id]
<1>0. /\ TypeOK /\ Shaped /\ NoLate /\ venue \in [Ids -> VenueOrder] /\ orders' = orders
      /\ v \in VenueOrder /\ r \in Record /\ VenueShape(v)
  BY DEF Inv, TypeOK, Truth, Shaped, VenueTurn, registry
<1>1. ASSUME NEW op, HasAnswer(id, op) PROVE HasAnswer(id, op)'
  <2>1. PICK c \in Clients : call[c].pc = "call" /\ call[c].op = op /\ call[c].id = id /\ call[c].ack # 0
    BY <1>1 DEF HasAnswer
  <2>2. call'[c] = call[c]
    <3>1. ASSUME NEW d \in Clients, AnswersWith(d, i, w) PROVE call'[c] = call[c]
      BY <1>0, <2>1, <3>1, AnswerKeeps DEF AnswersWith
    <3> QED
      BY <3>1 DEF VenueTurn
  <2> QED
    BY <2>1, <2>2 DEF HasAnswer
<1>2. CASE i # id
  <2>1. venue'[id] = venue[id]
    BY <1>0, <1>2 DEF VenueTurn, Turned
  <2> QED
    BY <1>0, <1>1, <2>1, FollowsFrame
<1>3. CASE i = id
  <2>1. venue'[id] = w /\ NextOrder(v, w) /\ w.state # "none" /\ VenueShape(w) /\ w \in VenueOrder
    BY <1>0, <1>3 DEF VenueTurn, Turned, NextOrder
  <2>2. CASE Blank(r, v)
    <3>1. PICK c \in Clients : PlaceOpen(c) /\ call[c].id = id /\ call'[c].ack # 0
      BY <1>0, <2>1, <2>2, PlaceAppears DEF Blank
    <3>2. orders[id] = NewRecord(call[c].qty)
      BY <3>1 DEF Inv, PlaceOwnsRecord, PlaceOpen
    <3>3. orders[id].state = "Pending"
      BY <3>2 DEF NewRecord, NoRecord
    <3>4. call'[c].pc = "call" /\ call'[c].op = "place" /\ call'[c].id = id
      <4>1. ASSUME NEW d \in Clients, AnswersWith(d, i, w)
            PROVE  call'[c].pc = call[c].pc /\ call'[c].op = call[c].op /\ call'[c].id = call[c].id
        BY <1>0, <4>1, AnswerKeeps DEF AnswersWith
      <4> QED
        BY <3>1, <4>1 DEF VenueTurn, PlaceOpen
    <3> QED
      BY <1>0, <3>1, <3>3, <3>4 DEF Follows, HasAnswer
  <2>3. CASE r.state = "Pending" /\ HasAnswer(id, "place")
    BY <1>0, <1>1, <2>3 DEF Follows
  <2>4. CASE Holds(r, v) /\ AtLeg(id)
    <3>1. Working(v.state) /\ v.state # "none"
      BY <2>1, <2>4 DEF NextOrder, Holds
    <3>2. /\ r.filled \in Nat /\ r.xid \in Nat
          /\ v.filled \in Nat /\ v.xid \in Nat /\ v.prior \in Nat /\ w.filled \in Nat
      BY <1>0, <2>1 DEF VenueOrder, Record
    <3>3. ~is_terminal(r.state)
      BY <2>4, <3>1 DEF Holds, Working, is_terminal
    <3>4. CASE w.xid = v.xid /\ w.prior = v.prior /\ w.filled >= v.filled
      <4>1. Holds(r, w)
        BY <2>1, <2>4, <3>2, <3>3, <3>4 DEF Holds
      <4> QED
        BY <1>0, <1>1, <2>1, <2>4, <3>4, <4>1 DEF Follows, AtLeg
    <3>5. CASE w.xid = v.xid + 1 /\ w.prior = v.prior + v.filled
      <4>1. Holds(r, w)
        BY <2>1, <2>4, <3>2, <3>3, <3>5 DEF Holds
      <4>2. PICK c \in Clients : /\ call[c].pc = "call" /\ call[c].op = "amend" /\ call[c].id = id
                                 /\ call[c].ack = 0
                                 /\ call'[c].pc = "call" /\ call'[c].op = "amend" /\ call'[c].id = id
                                 /\ call'[c].ack # 0
        BY <1>0, <2>1, <3>1, <3>2, <3>5, AmendReplaces
      <4>3. HasAnswer(id, "amend")'
        BY <4>2 DEF HasAnswer
      <4>4. ~HasAnswer(id, "amend")
        <5> SUFFICES ASSUME NEW d \in Clients, call[d].pc = "call", call[d].op = "amend",
                            call[d].id = id, call[d].ack # 0
                     PROVE  FALSE
          BY DEF HasAnswer
        <5>1. MutatingCall(c, id) /\ MutatingCall(d, id) /\ call[c].id = id
          BY <4>2 DEF MutatingCall
        <5>2. c = d
          BY <5>1, OneMutating
        <5> QED
          BY <4>2, <5>2
      <4>5. r.xid + 1 = w.xid
        BY <2>4, <3>5, <4>4 DEF AtLeg
      <4> QED
        BY <1>0, <2>1, <4>1, <4>3, <4>5 DEF Follows, AtLeg
    <3> QED
      BY <2>1, <3>1, <3>4, <3>5 DEF NextOrder
  <2> QED
    BY <2>2, <2>3, <2>4 DEF Follows
<1> QED
  BY <1>2, <1>3

\* A record that changes while the venue's order stays.
LEMMA FollowsAt ==
    ASSUME NEW id, venue'[id] = venue[id],
           \/ Blank(orders'[id], venue[id])
           \/ Holds(orders'[id], venue[id]) /\ orders'[id].xid = venue[id].xid
    PROVE  Follows(id)'
BY DEF Follows, AtLeg

\* A report that is due, applied to a record that no call owns.
LEMMA ApplyFollows ==
    ASSUME Inv, Truth, NEW id \in Ids, Follows(id), id \notin flying, NEW q \in Due(id),
           ApplyReport(id, q), venue' = venue
    PROVE  Follows(id)'
<1> DEFINE r == orders[id]
           v == venue[id]
           d == DrivesLifecycle(r, q)
           o == apply_observation(r, q.state, q.filled, 0, d)
<1>1. q \in Report /\ LegBacked(q, v) /\ r \in Record /\ v \in VenueOrder /\ VenueShape(v)
        /\ orders \in [Ids -> Record]
  BY DueTyped DEF Truth, ReportsTrue, Inv, TypeOK, Shaped
<1>2. v.state # "none" /\ v.xid \in Nat
  BY <1>1 DEF LegBacked, VenueShape, VenueOrder
<1>3. Holds(r, v) /\ r.xid = v.xid
  BY <1>2, Settled
<1>4. q.xid \in 1..r.xid /\ Complete(r)
  BY <1>1, <1>3 DEF LegBacked, Holds
<1>5. Arbitrated(r, q) = r /\ (d <=> q.xid = r.xid)
  BY <1>1, <1>4, ArbitratedComplete
<1>6. orders'[id] = o
  BY <1>1, <1>5 DEF ApplyReport, apply_arbitrated_report
<1>7. d \in BOOLEAN /\ q.filled \in Nat /\ q.state \in VenueStates
  BY <1>1 DEF DrivesLifecycle, Report
<1> HIDE DEF d
<1>8. /\ q.state # "Rejected"
      /\ v.prior = 0 => q.filled <= v.filled
      /\ d /\ is_terminal(q.state) => v.state = q.state
      /\ q.state \in {"PartiallyFilled", "Filled"} => q.filled > 0
  BY <1>1, <1>3, <1>5 DEF LegBacked
<1>9. Holds(o, v) /\ o.xid = r.xid
  BY <1>1, <1>3, <1>7, <1>8, ObservationHolds
<1> HIDE DEF o
<1> QED
  BY <1>3, <1>6, <1>9, FollowsAt

\* A snapshot applied to a record that has the snapshot's leg.
LEMMA SnapshotHolds ==
    ASSUME NEW r \in Record, NEW v \in VenueOrder, Holds(r, v), NEW s \in Snapshot, SnapBacked(s, v)
    PROVE  LET o == apply_observation(r, s.state, s.filled, s.qty, TRUE) IN
           Holds(o, v) /\ o.xid = r.xid
<1>1. /\ s.filled \in Nat /\ s.qty \in Nat /\ s.state \in VenueStates
      /\ s.state # "Rejected"
      /\ v.prior = 0 => s.filled <= v.filled
      /\ is_terminal(s.state) => v.state = s.state
      /\ s.state \in {"PartiallyFilled", "Filled"} => s.filled > 0
  BY DEF Snapshot, SnapBacked, LegBacked
<1>2. PICK lifecycle \in BOOLEAN : lifecycle = TRUE
  OBVIOUS
<1>3. lifecycle /\ is_terminal(s.state) => v.state = s.state
  BY <1>1
<1>4. LET o == apply_observation(r, s.state, s.filled, s.qty, lifecycle) IN Holds(o, v) /\ o.xid = r.xid
  BY <1>1, <1>3, ObservationHolds
<1> QED
  BY <1>2, <1>4

\* No call of the order returns with its answer or loses it.
Awaiting(id) ==
    ~\E c \in Clients : call[c].id = id /\ (PlaceAccepted(c) \/ AmendAccepted(c) \/ LosesAnswer(c))

LEMMA AwaitingFollows ==
    ASSUME Inv, Elsewhere, ~CrashRestart, venue' = venue, NEW id \in Ids, Follows(id), Awaiting(id)
    PROVE  /\ orders'[id] = orders[id] => Follows(id)'
           /\ HasAnswer(id, "amend") => HasAnswer(id, "amend")'
<1>1. ASSUME NEW op \in {"place", "amend"}, HasAnswer(id, op) PROVE HasAnswer(id, op)'
  BY <1>1, AnswerStays DEF Awaiting
<1> QED
  BY <1>1, FollowsFrame

\* A place that returns accepted: the venue has the order's first leg.
LEMMA PlaceAcceptedFollows ==
    ASSUME Inv, Truth, NEW c \in Clients, PlaceAccepted(c), NEW id, id = call[c].id
    PROVE  Follows(id)'
<1>1. PICK k : k = call[c].qty
  OBVIOUS
<1> DEFINE v == venue[id]
           r == NewRecord(k)
           n == note_exchange_id(r, 1)
           o == [n EXCEPT !.state = apply_transition(@, "Live")]
<1>2. call[c].pc = "call" /\ call[c].op = "place" /\ call[c].ack # 0 /\ venue' = venue
  BY DEF PlaceAccepted, Returns, market
<1>3. id \in Ids /\ k \in Nat /\ orders \in [Ids -> Record] /\ v \in VenueOrder
  BY <1>1, <1>2, AtKnownOrder DEF Inv, TypeOK
<1>4. v.state # "none" /\ call[c].ack = 1 /\ v.xid = 1
  BY <1>1, <1>2 DEF Truth, AcksTrue
<1>5. orders[id] = r
  BY <1>1, <1>2 DEF Inv, PlaceOwnsRecord
<1>6. r \in Record /\ r.state = "Pending" /\ r.legs = <<>> /\ r.xid = 0 /\ r.filled = 0
  <2>1. r \in Record
    BY <1>3, NoRecordTyped
  <2>2. r.state = "Pending" /\ r.legs = <<>> /\ r.xid = 0 /\ r.filled = 0
    BY DEF NewRecord, NoRecord
  <2> QED
    BY <2>1, <2>2
<1>7. orders'[id] = o
  BY <1>1, <1>3, <1>4, <1>5 DEF PlaceAccepted
<1> HIDE DEF r
<1>8. n \in Record /\ Complete(n) /\ n.xid = 1 /\ n.state = "Pending" /\ n.filled = 0
  BY <1>6, NoteComplete DEF Fits
<1> HIDE DEF n
<1>9. o.state = "Live" /\ o.legs = n.legs /\ o.xid = 1 /\ o.filled = 0
  <2>1. apply_transition("Pending", "Live") = "Live"
    BY DEF apply_transition, can_transition, LegalTransitions, States
  <2> QED
    BY <1>8, <2>1 DEF Record
<1> HIDE DEF o
<1>10. Complete(o)
  BY <1>8, <1>9 DEF Complete
<1>11. Holds(o, v)
  BY <1>3, <1>4, <1>9, <1>10 DEF Holds, VenueOrder, is_terminal
<1> QED
  BY <1>1, <1>2, <1>4, <1>7, <1>9, <1>11, FollowsAt

\* The record of an order of the venue, with an amend or a cancel under way.
LEMMA KnownHolds ==
    ASSUME Inv, Truth, NEW c \in Clients, call[c].pc = "call", call[c].op # "place",
           venue[call[c].id].state # "none", Follows(call[c].id)
    PROVE  LET r == orders[call[c].id]
               v == venue[call[c].id]
           IN  Holds(r, v) /\ r \in Record /\ v \in VenueOrder /\ Fits(r, v.xid)
<1>1. PICK id : id = call[c].id
  OBVIOUS
<1>2. id \in Ids /\ orders[id] \in Record /\ venue[id] \in VenueOrder
  BY <1>1, AtKnownOrder DEF Inv, TypeOK
<1>3. venue[id].state # "none"
  BY <1>1
<1>4. ~HasAnswer(id, "place")
  BY <1>1 DEF HasAnswer, Inv, PlaceAlone, PlaceOpen
<1>5. Holds(orders[id], venue[id]) /\ AtLeg(id)
  BY <1>1, <1>3, <1>4 DEF Follows, Blank
<1>6. Fits(orders[id], venue[id].xid)
  BY <1>5 DEF Fits, AtLeg, Holds
<1> QED
  BY <1>1, <1>2, <1>3, <1>5, <1>6

LEMMA AmendAcceptedFollows ==
    ASSUME Inv, Truth, NEW c \in Clients, AmendAccepted(c), NEW id, id = call[c].id, Follows(id)
    PROVE  Follows(id)'
<1>1. id = call[c].id
  OBVIOUS
<1> DEFINE v == venue[id]
           r == orders[id]
           q == [r EXCEPT !.qty = call[c].qty]
           o == append_amend_leg(q, v.xid)
<1>2. /\ call[c].pc = "call" /\ call[c].op = "amend" /\ call[c].ack # 0 /\ venue' = venue
  BY DEF AmendAccepted, Returns, market
<1>3. id \in Ids /\ call[c].qty \in Nat /\ orders \in [Ids -> Record]
  BY <1>1, <1>2, AtKnownOrder DEF Inv, TypeOK
<1>10. v.state # "none" /\ call[c].ack = v.xid
  BY <1>1, <1>2 DEF Truth, AcksTrue
<1>4. Holds(r, v) /\ r \in Record /\ v \in VenueOrder /\ Fits(r, v.xid)
  BY <1>1, <1>2, <1>10, KnownHolds
<1>5. orders'[id] = o
  BY <1>1, <1>3, <1>4, <1>10 DEF AmendAccepted
<1>6. q \in Record /\ q.legs = r.legs /\ q.xid = r.xid /\ q.state = r.state /\ q.filled = r.filled
  BY <1>3, <1>4 DEF Record
<1> HIDE DEF q, r
<1>7. Fits(q, v.xid) /\ v.xid \in Nat
  BY <1>4, <1>6 DEF Fits, Complete, VenueOrder
<1>8. Complete(o) /\ o.xid = v.xid /\ o.state = q.state /\ o.filled = q.filled
  BY <1>6, <1>7, AmendComplete
<1> HIDE DEF o
<1>9. Holds(o, v)
  BY <1>4, <1>6, <1>8 DEF Holds
<1> QED
  BY <1>1, <1>2, <1>5, <1>8, <1>9, FollowsAt

LEMMA CancelAcceptedFollows ==
    ASSUME Inv, Truth, NEW c \in Clients, CancelAccepted(c), NEW id, id = call[c].id, Follows(id)
    PROVE  Follows(id)'
<1>1. id = call[c].id
  OBVIOUS
<1> DEFINE v == venue[id]
           r == orders[id]
           n == note_exchange_id(r, v.xid)
           o == [n EXCEPT !.state = "Canceled"]
<1>2. call[c].pc = "call" /\ call[c].op = "cancel" /\ v.state = "Canceled" /\ venue' = venue
  BY <1>1 DEF CancelAccepted, Returns, market
<1>3. id \in Ids /\ orders \in [Ids -> Record]
  BY <1>1, <1>2, AtKnownOrder DEF Inv, TypeOK
<1>4. Holds(r, v) /\ r \in Record /\ v \in VenueOrder /\ Fits(r, v.xid)
  BY <1>1, <1>2, KnownHolds
<1>5. orders'[id] = n \/ orders'[id] = o
  BY <1>1, <1>3, <1>4 DEF CancelAccepted
<1> HIDE DEF r
<1>6. n \in Record /\ Complete(n) /\ n.xid = v.xid /\ n.state = r.state /\ n.filled = r.filled
  BY <1>4, NoteComplete DEF VenueOrder
<1> HIDE DEF n
<1>7. o.legs = n.legs /\ o.xid = n.xid /\ o.state = "Canceled" /\ o.filled = n.filled
  BY <1>6 DEF Record
<1> HIDE DEF o
<1>8. Holds(n, v)
  BY <1>4, <1>6 DEF Holds
<1>9. Complete(o)
  BY <1>6, <1>7 DEF Complete
<1>10. Holds(o, v)
  BY <1>2, <1>7, <1>8, <1>9 DEF Holds
<1> QED
  BY <1>1, <1>2, <1>5, <1>6, <1>7, <1>8, <1>10, FollowsAt

\* An amend that fails unanswered finds no new leg in the reports it waited for.
LEMMA AmendFailedKeeps ==
    ASSUME Inv, Truth, NEW c \in Clients, AmendFailed(c), call[c].ack = 0, NEW id, id = call[c].id,
           Follows(id)
    PROVE  orders' = orders
<1>1. id = call[c].id
  OBVIOUS
<1> DEFINE r == orders[id]
           q == raced[id]
           unknown == {i \in DOMAIN q : q[i].xid # 0 /\ leg_index_of(r, q[i].xid) = 0}
<1>2. call[c].pc = "call" /\ call[c].op = "amend"
  BY DEF AmendFailed, Returns
<1>3. id \in Ids /\ orders \in [Ids -> Record] /\ r \in Record
  BY <1>1, <1>2, AtKnownOrder DEF Inv, TypeOK
<1>4. ~HasAnswer(id, "place") /\ ~HasAnswer(id, "amend")
  <2> SUFFICES ASSUME NEW d \in Clients, call[d].pc = "call", call[d].op \in {"place", "amend"},
                      call[d].id = id, call[d].ack # 0
               PROVE  FALSE
    BY DEF HasAnswer
  <2>1. MutatingCall(c, call[c].id) /\ MutatingCall(d, call[c].id)
    BY <1>1, <1>2 DEF MutatingCall
  <2>2. c = d
    BY <2>1, OneMutating
  <2> QED
    BY <2>2
<1>5. NewestUnknown(r, q) = 0
  <2>1. CASE Blank(r, venue[id])
    BY <2>1 DEF Blank, NewestUnknown
  <2>2. CASE Holds(r, venue[id]) /\ r.xid = venue[id].xid
    <3>1. ASSUME NEW i \in DOMAIN q PROVE leg_index_of(r, q[i].xid) # 0
      <4>1. q[i] \in Due(id)
        BY DEF Due, InBuffer
      <4>2. q[i].xid \in 1..r.xid
        BY <1>3, <2>2, <4>1 DEF Truth, ReportsTrue, LegBacked
      <4> QED
        BY <1>3, <2>2, <4>2, LegKnown DEF Holds
    <3>2. unknown = {}
      BY <3>1
    <3> QED
      BY <3>2 DEF NewestUnknown
  <2> QED
    BY <1>4, <2>1, <2>2 DEF Follows, AtLeg
<1>6. orders' = [orders EXCEPT ![id] = note_exchange_id(r, NewestUnknown(r, q))]
  BY <1>1 DEF AmendFailed
<1>7. note_exchange_id(r, 0) = r
  BY DEF note_exchange_id
<1> QED
  BY <1>3, <1>5, <1>6, <1>7

\* A caller that comes back without an answer, or has none to wait for.
LEMMA CallerFollows ==
    ASSUME Inv, Truth, NEW c \in Clients, Caller(c), NEW id \in Ids, Follows(id),
           ~\E d \in Clients : LosesAnswer(d) /\ call[d].id = id
    PROVE  Follows(id)'
<1> DEFINE v == venue[id]
<1>1. venue' = venue /\ Elsewhere /\ ~CrashRestart /\ orders \in [Ids -> Record]
  BY CallerFrame DEF Elsewhere, Truth, NoLate, CrashRestart, Inv, TypeOK
<1>2. CASE \E d \in Clients : call[d].id = id /\ (PlaceAccepted(d) \/ AmendAccepted(d))
  BY <1>2, PlaceAcceptedFollows, AmendAcceptedFollows
<1>3. CASE Awaiting(id)
  <2>1. orders'[id] = orders[id] => Follows(id)'
    BY <1>1, <1>3, AwaitingFollows
  <2>2. ASSUME NEW i \in Ids, NEW qty \in Quantities, PlaceRiskRejected(c, i, qty) \/ PlaceStaged(c, i, qty)
        PROVE  Follows(id)'
    <3> DEFINE n == NewRecord(qty)
               r == [n EXCEPT !.state = "Rejected", !.rejection = "risk"]
    <3>1. ~known(orders[i]) /\ (orders' = [orders EXCEPT ![i] = n] \/ orders' = [orders EXCEPT ![i] = r])
      BY <2>2 DEF PlaceRiskRejected, PlaceStaged
    <3>2. n.state = "Pending" /\ n.legs = <<>> /\ n.xid = 0 /\ n.filled = 0
      BY DEF NewRecord, NoRecord
    <3>3. r.state = "Rejected" /\ r.legs = <<>> /\ r.xid = 0 /\ r.filled = 0
      BY DEF NewRecord, NoRecord
    <3> HIDE DEF n, r
    <3>4. CASE i = id
      <4>1. v.state = "none"
        BY <3>1, <3>4 DEF Truth, VenueKnown
      <4>2. Blank(n, v) /\ Blank(r, v)
        BY <3>2, <3>3, <4>1 DEF Blank
      <4>3. orders'[id] = n \/ orders'[id] = r
        BY <1>1, <3>1, <3>4
      <4> QED
        BY <1>1, <4>2, <4>3, FollowsAt
    <3>5. CASE i # id
      BY <1>1, <2>1, <3>1, <3>5
    <3> QED
      BY <3>4, <3>5
  <2>3. ASSUME NEW i \in Ids, NEW qty \in Quantities, PlaceNotPersisted(c, i, qty) \/ AmendSent(c, i, qty)
        PROVE  Follows(id)'
    BY <2>1, <2>3 DEF PlaceNotPersisted, AmendSent, registry
  <2>4. ASSUME NEW i \in Ids, CancelSent(c, i)
        PROVE  Follows(id)'
    BY <2>1, <2>4 DEF CancelSent, registry
  <2>5. CASE PlaceUnresolved(c) \/ CancelFailed(c)
    BY <2>1, <2>5 DEF PlaceUnresolved, CancelFailed, registry
  <2>6. ASSUME call[c].id # id,
               \/ PlaceAccepted(c) \/ PlaceRefused(c) \/ CancelAccepted(c) \/ AmendAccepted(c)
               \/ AmendFailed(c) \/ Drain(c)
        PROVE  Follows(id)'
    <3>1. orders' = orders \/ \E r : orders' = [orders EXCEPT ![call[c].id] = r]
      BY <2>6 DEF PlaceAccepted, PlaceRefused, CancelAccepted, AmendAccepted, AmendFailed, Drain, ApplyReport
    <3> QED
      BY <1>1, <2>1, <2>6, <3>1
  <2>7. ASSUME call[c].id = id, PlaceRefused(c)
        PROVE  Follows(id)'
    <3>0. PICK k : k = call[c].qty
      OBVIOUS
    <3> DEFINE n == NewRecord(k)
               r == [n EXCEPT !.state = "Rejected", !.rejection = "venue"]
    <3>1. call[c].pc = "call" /\ call[c].op = "place" /\ call[c].ack = 0
      BY <2>7 DEF PlaceRefused, Returns
    <3>2. v.state = "none" /\ orders[id] = n
      BY <2>7, <3>0, <3>1 DEF Truth, AcksTrue, Inv, PlaceOwnsRecord
    <3>3. orders'[id] = orders[id] \/ orders'[id] = r
      BY <1>1, <2>7, <3>2 DEF PlaceRefused
    <3>4. r.state = "Rejected" /\ r.legs = <<>> /\ r.xid = 0 /\ r.filled = 0
      BY DEF NewRecord, NoRecord
    <3> HIDE DEF r
    <3>5. Blank(r, v)
      BY <3>2, <3>4 DEF Blank
    <3> QED
      BY <1>1, <2>1, <3>3, <3>5, FollowsAt
  <2>8. ASSUME call[c].id = id, CancelAccepted(c)
        PROVE  Follows(id)'
    BY <2>8, CancelAcceptedFollows
  <2>9. ASSUME call[c].id = id, AmendFailed(c)
        PROVE  Follows(id)'
    <3>1. call[c].ack = 0
      BY <2>9 DEF LosesAnswer
    <3> QED
      BY <2>1, <2>9, <3>1, AmendFailedKeeps
  <2>10. ASSUME call[c].id = id, Drain(c)
         PROVE  Follows(id)'
    <3> DEFINE q == Head(call[c].raced)
    <3>1. call[c].pc = "drain" /\ ApplyReport(id, q)
      BY <2>10 DEF Drain
    <3>2. call[c].raced \in Seq(Report) /\ call[c].raced # <<>> /\ id \notin flying
      BY <2>10, <3>1, AtKnownOrder DEF Inv, LockOwned
    <3>3. 1 \in DOMAIN call[c].raced /\ call[c].raced[1] = q
      BY <3>2, SplitSeq
    <3>4. q \in DrainedBy(c) /\ c \in Drainers(id)
      BY <2>10, <3>1, <3>3 DEF DrainedBy, Drainers
    <3>5. q \in Due(id)
      BY <3>4 DEF Due, InDrain
    <3> HIDE DEF q
    <3> QED
      BY <1>1, <3>1, <3>2, <3>5, ApplyFollows
  <2>11. ~(call[c].id = id /\ (PlaceAccepted(c) \/ AmendAccepted(c)))
    BY <1>3 DEF Awaiting
  <2> QED
    BY <2>2, <2>3, <2>4, <2>5, <2>6, <2>7, <2>8, <2>9, <2>10, <2>11 DEF Caller
<1> QED
  BY <1>2, <1>3 DEF Awaiting

\* The feed thread applies a report only to a record that no call owns.
LEMMA ReaderFollows ==
    ASSUME Inv, Truth, Reader, NEW id \in Ids, Follows(id)
    PROVE  Follows(id)'
<1>1. venue' = venue /\ call' = call /\ orders \in [Ids -> Record]
  BY DEF Reader, ReportBuffered, ReportUnknown, ReportArbitrated, Inv, TypeOK
<1>2. orders'[id] = orders[id] => Follows(id)'
  BY <1>1, FollowsFrame DEF HasAnswer
<1>3. CASE ReportArbitrated /\ Head(feed).id = id
  <2>1. /\ feed \in Seq(FeedReport) /\ feed # <<>> /\ feed' = Tail(feed) /\ id \notin flying
        /\ ApplyReport(id, Head(feed).report)
    BY <1>3 DEF ReportArbitrated, Inv, TypeOK
  <2>2. Head(feed).report \in Due(id)
    BY <1>3, <2>1, FeedTaken DEF Due
  <2> QED
    BY <1>1, <2>1, <2>2, ApplyFollows
<1>4. CASE ReportArbitrated /\ Head(feed).id # id
  BY <1>1, <1>2, <1>4 DEF ReportArbitrated, ApplyReport
<1>5. CASE ReportBuffered \/ ReportUnknown
  BY <1>2, <1>5 DEF ReportBuffered, ReportUnknown, registry
<1> QED
  BY <1>3, <1>4, <1>5 DEF Reader

\* A snapshot that the venue's order backs is one of an order.
LEMMA BackedExists ==
    ASSUME Inv, Truth, NEW id \in Ids, NEW s, SnapBacked(s, venue[id])
    PROVE  venue[id].state # "none" /\ known(orders[id])
<1>1. venue[id].xid # 0
  <2>1. venue[id].xid \in Nat
    BY DEF Inv, TypeOK, VenueOrder
  <2> QED
    BY <2>1 DEF SnapBacked, LegBacked
<1>2. venue[id].state # "none"
  BY <1>1 DEF Truth, Shaped, VenueShape
<1> QED
  BY <1>2 DEF Truth, VenueKnown

\* A listing entry refreshes a record that is at the venue's leg.
LEMMA ListedFollows ==
    ASSUME Inv, Truth, NEW t \in Recons, NEW e \in recon[t].listing, ListedRefreshed(t, e),
           venue' = venue, Follows(e.id)
    PROVE  e.id \in Ids /\ \A id \in Ids : id = e.id => Follows(id)'
<1>1. PICK id : id = e.id
  OBVIOUS
<1> DEFINE r == orders[id]
           v == venue[id]
           s == e.snap
           o == apply_observation(r, s.state, s.filled, s.qty, TRUE)
<1>2. id \in Ids /\ s \in Snapshot /\ orders \in [Ids -> Record] /\ r \in Record /\ v \in VenueOrder
  BY <1>1 DEF Inv, TypeOK, Recon, ListingEntry
<1>3. SnapBacked(s, v)
  BY <1>1 DEF Truth, SnapshotsTrue, ListingBacked
<1>4. v.state # "none"
  BY <1>2, <1>3, BackedExists
<1>5. Holds(r, v) /\ r.xid = v.xid
  BY <1>1, <1>2, <1>4, Settled DEF ListedRefreshed
<1>6. r.xid # 0
  BY <1>5 DEF Holds, Complete
<1>7. orders'[id] = o
  BY <1>1, <1>2, <1>6 DEF ListedRefreshed, Refreshed
<1>8. Holds(o, v) /\ o.xid = r.xid
  BY <1>2, <1>3, <1>5, SnapshotHolds
<1> HIDE DEF o
<1>9. Follows(id)'
  BY <1>5, <1>7, <1>8, FollowsAt
<1> QED
  BY <1>1, <1>2, <1>9

\* A lookup can be the first to show the leg of an answered amend.
LEMMA FoundFollows ==
    ASSUME Inv, Truth, NEW t \in Recons, ReconFound(t), NEW id, id = recon[t].item, Follows(id)
    PROVE  Follows(id)'
<1> DEFINE r == orders[id]
           v == venue[id]
<1>1. id = recon[t].item /\ recon[t].pc = "apply" /\ venue' = venue /\ call' = call
  BY DEF ReconFound, market
<1>2. id \in Ids /\ recon[t].found \subseteq Snapshot /\ orders \in [Ids -> Record] /\ r \in Record
        /\ v \in VenueOrder
  BY <1>1 DEF Inv, TypeOK, Recon
<1>3. PICK s \in recon[t].found : orders' = [orders EXCEPT ![id] = Looked(r, s)]
  BY <1>1 DEF ReconFound
<1>4. s \in Snapshot /\ SnapBacked(s, v)
  BY <1>1, <1>2, <1>3 DEF Truth, SnapshotsTrue, LookupBacked
<1>5. v.state # "none"
  BY <1>2, <1>4, BackedExists
<1>6. Holds(r, v) /\ AtLeg(id)
  <2>1. id \in Pursued(t)
    BY <1>1, <1>2, OmsAssumption DEF Pursued, OmsAssumption
  <2>2. ~HasAnswer(id, "place")
    BY <2>1 DEF HasAnswer, Inv, WorkKnown, PlaceOpen
  <2> QED
    BY <1>5, <2>2 DEF Follows, Blank
<1> DEFINE n == note_exchange_id(r, s.xid)
           a == IF leg_index_of(r, s.xid) = 0 THEN n ELSE r
           o == apply_observation(a, s.state, s.filled, s.qty, TRUE)
<1>7. orders'[id] = o
  BY <1>2, <1>3 DEF Looked
<1>8. r.xid \in Nat /\ v.xid \in Nat /\ s.xid \in Nat /\ s.xid \in 1..v.xid /\ Complete(r)
  BY <1>2, <1>4, <1>6 DEF Record, VenueOrder, Snapshot, SnapBacked, LegBacked, Holds
<1> HIDE DEF o
<1>9. CASE leg_index_of(r, s.xid) = 0
  <2>1. s.xid \notin 1..r.xid
    BY <1>2, <1>8, <1>9, LegKnown
  <2>2. s.xid = v.xid /\ v.xid = r.xid + 1
    BY <1>6, <1>8, <2>1 DEF AtLeg
  <2>3. n \in Record /\ Complete(n) /\ n.xid = s.xid /\ n.state = r.state /\ n.filled = r.filled
    BY <1>2, <1>8, <2>2, NoteComplete DEF Fits
  <2> HIDE DEF n
  <2>4. Holds(n, v)
    BY <1>6, <2>3 DEF Holds
  <2>5. Holds(o, v) /\ o.xid = v.xid
    BY <1>2, <1>4, <1>9, <2>2, <2>3, <2>4, SnapshotHolds DEF o
  <2> QED
    BY <1>1, <1>7, <2>5, FollowsAt
<1>10. CASE leg_index_of(r, s.xid) # 0
  <2>1. Holds(o, v) /\ o.xid = r.xid
    BY <1>2, <1>4, <1>6, <1>10, SnapshotHolds DEF o
  <2>2. HasAnswer(id, "amend") => HasAnswer(id, "amend")'
    BY <1>1 DEF HasAnswer
  <2>3. AtLeg(id)'
    BY <1>1, <1>6, <1>7, <2>1, <2>2 DEF AtLeg
  <2> QED
    BY <1>1, <1>7, <2>1, <2>3 DEF Follows
<1> QED
  BY <1>9, <1>10

\* An order that the venue does not have was never answered.
LEMMA AbsentFollows ==
    ASSUME Inv, Truth, NEW t \in Recons, ReconAbsent(t), NEW id, id = recon[t].item, Follows(id)
    PROVE  Follows(id)'
<1> DEFINE r == orders[id]
           v == venue[id]
           o == [r EXCEPT !.state = "Rejected", !.rejection = "venue_absent"]
<1>1. id = recon[t].item /\ recon[t].pc = "apply" /\ recon[t].found = {} /\ venue' = venue /\ call' = call
  BY DEF ReconAbsent, market
<1>2. id \in Ids /\ orders \in [Ids -> Record] /\ r \in Record
  BY <1>1 DEF Inv, TypeOK
<1>3. v.state = "none"
  BY <1>1 DEF Truth, SnapshotsTrue, LookupBacked
<1>4. ~HasAnswer(id, "place")
  BY <1>3 DEF HasAnswer, Truth, AcksTrue
<1>5. Blank(r, v)
  BY <1>3, <1>4 DEF Follows, Holds
<1>6. orders'[id] = r \/ orders'[id] = o
  BY <1>1, <1>2 DEF ReconAbsent
<1>7. o.state = "Rejected" /\ o.filled = r.filled /\ o.xid = r.xid /\ o.legs = r.legs
  BY <1>2 DEF Record
<1> HIDE DEF o, r
<1>8. Blank(o, v)
  BY <1>5, <1>7 DEF Blank
<1> QED
  BY <1>1, <1>5, <1>6, <1>8, FollowsAt

LEMMA ReconcilerFollows ==
    ASSUME Inv, Truth, NEW t \in Recons, Reconciler(t), NEW id \in Ids, Follows(id)
    PROVE  Follows(id)'
<1>1. venue' = venue /\ call' = call /\ orders \in [Ids -> Record]
  <2>1. UNCHANGED <<flying, raced, call, venue, feed, late, crashesLeft>>
    BY ReconcilerFrame
  <2> QED
    BY <2>1 DEF Inv, TypeOK
<1>2. orders'[id] = orders[id] => Follows(id)'
  BY <1>1, FollowsFrame DEF HasAnswer
<1>3. ASSUME NEW e \in recon[t].listing, ListedAdopted(t, e)
      PROVE  FALSE
  <2>1. e.id \in Ids /\ SnapBacked(e.snap, venue[e.id]) /\ ~known(orders[e.id])
    BY <1>3 DEF ListedAdopted, Truth, SnapshotsTrue, ListingBacked, Inv, TypeOK, Recon, ListingEntry
  <2> QED
    BY <2>1, BackedExists
<1>4. ASSUME NEW e \in recon[t].listing, ListedRefreshed(t, e)
      PROVE  Follows(id)'
  <2>1. CASE e.id = id
    BY <1>1, <1>4, <2>1, ListedFollows
  <2>2. CASE e.id # id
    BY <1>1, <1>2, <1>4, <2>2 DEF ListedRefreshed
  <2> QED
    BY <2>1, <2>2
<1>5. ASSUME ReconFound(t) \/ ReconAbsent(t)
      PROVE  Follows(id)'
  <2>1. CASE recon[t].item = id
    BY <1>5, <2>1, FoundFollows, AbsentFollows
  <2>2. CASE recon[t].item # id
    BY <1>1, <1>2, <1>5, <2>2 DEF ReconFound, ReconAbsent
  <2> QED
    BY <2>1, <2>2
<1>6. ASSUME orders' = orders
      PROVE  Follows(id)'
  BY <1>2, <1>6
<1>7. ASSUME NEW e \in recon[t].listing, ListedSkipped(t, e)
      PROVE  orders' = orders
  BY <1>7 DEF ListedSkipped
<1>8. ASSUME NEW i \in Ids, ReconLookup(t, i) \/ ReconLookupFails(t, i)
      PROVE  orders' = orders
  BY <1>8 DEF ReconLookup, ReconLookupFails, registry
<1>9. ReconList(t) \/ ReconWorklist(t) \/ ReconAbsentLogged(t) \/ ReconDone(t) => orders' = orders
  BY DEF ReconList, ReconWorklist, ReconAbsentLogged, ReconDone, registry
<1> QED
  BY <1>3, <1>4, <1>5, <1>6, <1>7, <1>8, <1>9 DEF Reconciler

\* A record goes on following the venue's order as long as no answer is lost.
LEMMA FollowsKept ==
    ASSUME Inv, Truth, Next, NEW id \in Ids, Follows(id),
           ~\E c \in Clients : LosesAnswer(c) /\ call[c].id = id
    PROVE  Follows(id)'
<1>1. ~CrashRestart /\ Shaped /\ NoLate
  BY DEF Truth, NoLate, CrashRestart
<1>2. CASE FeedLoss
  <2>1. orders' = orders /\ venue' = venue /\ call' = call
    BY <1>2 DEF FeedLoss, registry
  <2> QED
    BY <2>1, FollowsFrame DEF HasAnswer
<1>3. CASE Elsewhere
  BY <1>1, <1>2, <1>3, CallerFollows, ReaderFollows, ReconcilerFollows DEF Elsewhere
<1> QED
  BY <1>1, <1>3, VenueTurns, VenueFollows

-----------------------------------------------------------------------------
(* Orders with no lost answer *)

Followed == \A id \in Ids \ lossy : Follows(id)

LossInv == Inv /\ Truth /\ Followed

LEMMA LossInit ==
    ASSUME Punctual, AuditInit
    PROVE  LossInv
<1>1. Init /\ Inv /\ Truth
  BY InitInv, TruthInit DEF AuditInit
<1>2. venue = [id \in Ids |-> NoVenueOrder] /\ orders = [id \in Ids |-> NoRecord]
  BY <1>1 DEF Init, Punctual
<1>3. Blank(NoRecord, NoVenueOrder)
  BY DEF Blank, NoRecord, NoVenueOrder
<1> QED
  BY <1>1, <1>2, <1>3 DEF LossInv, Followed, Follows

\* A step of the auditor leaves the truth about the venue's orders alone.
LEMMA TruthFrame ==
    ASSUME UNCHANGED vars
    PROVE  /\ Truth => Truth'
           /\ \A id \in Ids : (Follows(id) <=> Follows(id)') /\ Due(id)' = Due(id)
<1>1. UNCHANGED <<orders, flying, raced, venue, feed, late, call, recon, crashesLeft>>
  BY DEF vars, registry, market, others
<1>2. \A id \in Ids : Due(id)' = Due(id)
  BY <1>1 DEF Due, InFeed, InBuffer, InDrain, Drainers, DrainedBy
<1>3. Shaped => Shaped'
  BY <1>1 DEF Shaped
<1>4. NoLate => NoLate'
  BY <1>1 DEF NoLate
<1>5. VenueKnown => VenueKnown'
  BY <1>1 DEF VenueKnown
<1>6. ReportsTrue => ReportsTrue'
  BY <1>1, <1>2 DEF ReportsTrue
<1>7. SnapshotsTrue => SnapshotsTrue'
  BY <1>1 DEF SnapshotsTrue, ListingBacked, LookupBacked
<1>8. AcksTrue => AcksTrue'
  BY <1>1 DEF AcksTrue
<1>9. \A id \in Ids : Follows(id) <=> Follows(id)'
  BY <1>1 DEF Follows, AtLeg, HasAnswer
<1> QED
  BY <1>2, <1>3, <1>4, <1>5, <1>6, <1>7, <1>8, <1>9 DEF Truth

LEMMA AuditSteps ==
    ASSUME [AuditNext]_<<vars, auditVars>>
    PROVE  OmsStep \/ (UNCHANGED vars /\ lossy' = lossy)
BY DEF AuditNext, AuditStarts, AuditLookup, AuditLookupFails, AuditCompare, AuditEnds, auditVars

LEMMA LossNext ==
    ASSUME Punctual, LossInv, [AuditNext]_<<vars, auditVars>>
    PROVE  LossInv'
<1>1. CASE UNCHANGED vars /\ lossy' = lossy
  <2>1. Inv'
    BY <1>1, NextInv DEF LossInv
  <2>2. Truth' /\ \A id \in Ids : Follows(id) => Follows(id)'
    BY <1>1, TruthFrame DEF LossInv
  <2> QED
    BY <1>1, <2>1, <2>2 DEF LossInv, Followed
<1>2. CASE OmsStep
  <2>1. Next /\ lossy' = lossy \cup {call[c].id : c \in {d \in Clients : LosesAnswer(d)}}
    BY <1>2 DEF OmsStep
  <2>2. Inv' /\ Truth'
    BY <2>1, NextInv, TruthKept DEF LossInv
  <2>3. ASSUME NEW id \in Ids \ lossy' PROVE Follows(id)'
    <3>1. id \notin lossy /\ ~\E c \in Clients : LosesAnswer(c) /\ call[c].id = id
      BY <2>1, <2>3
    <3> QED
      BY <2>1, <3>1, FollowsKept DEF LossInv, Followed
  <2> QED
    BY <2>2, <2>3 DEF LossInv, Followed
<1> QED
  BY <1>1, <1>2, AuditSteps

\* As long as no answer of an order's calls is lost, a terminal record has no
\* live order behind it on the venue, whatever races place, cancel, amend,
\* reports, listings and lookups: leg_index_of keeps the end of a replaced leg
\* from ending the order, and no lookup is applied after the end it has not
\* seen.  For any number of orders, threads and amends, on both kinds of
\* venue, with lost reports and failing appends.
THEOREM ZombieMeansLoss == ASSUME Punctual PROVE AuditSpec => []NoZombieUnlessLost
<1>1. AuditInit => LossInv
  BY LossInit
<1>2. LossInv /\ [AuditNext]_<<vars, auditVars>> => LossInv'
  BY LossNext
<1>3. ASSUME LossInv PROVE NoZombieUnlessLost
  <2> SUFFICES ASSUME NEW id \in Ids \ lossy, is_terminal(orders[id].state)
               PROVE  ~Working(venue[id].state)
    BY DEF NoZombieUnlessLost
  <2>1. Follows(id)
    BY <1>3 DEF LossInv, Followed
  <2> QED
    BY <2>1 DEF Follows, Blank, Holds, is_terminal, Working
<1> QED
  BY <1>1, <1>2, <1>3, PTL DEF AuditSpec

-----------------------------------------------------------------------------
(* What a record lacks is on its way.  An order whose answers have arrived *)
(* and whose appends have succeeded is in the venue's state and has the    *)
(* fills of its leg, or a report that brings them is due.                  *)

\* The record is in the venue's state; a replacement can be Live again.
Current(r, v) ==
    \/ r.state = v.state
    \/ v.prior > 0 /\ Working(r.state) /\ Working(v.state)
    \/ r.state = "Pending" /\ v.state = "Live"

StateDue(id) ==
    venue[id].state # "none" =>
        \/ Current(orders[id], venue[id])
        \/ \E q \in Due(id) : q.xid = venue[id].xid /\ q.state = venue[id].state

FillsDue(id) ==
    venue[id].prior = 0 =>
        \/ orders[id].filled = venue[id].filled
        \/ \E q \in Due(id) : q.filled = venue[id].filled

LEMMA CurrentStays ==
    ASSUME NEW r \in Record, NEW s \in Record, NEW v \in VenueOrder, VenueShape(v), v.state # "none",
           known(r), Current(r, v), Advances(r, s), s.state = "Pending" \/ Holds(s, v)
    PROVE  Current(s, v)
<1>1. s.state = r.state \/ can_transition(r.state, s.state)
  BY DEF Advances
<1>2. s.filled \in Nat /\ v.filled \in Nat /\ v.prior \in Nat
  BY DEF Record, VenueOrder
<1>3. CASE s.state = r.state
  BY <1>3 DEF Current
<1>4. CASE s.state # r.state
  <2>1. can_transition(r.state, s.state) /\ s.state # "Pending"
    BY <1>1, <1>4 DEF can_transition, LegalTransitions, known
  <2>2. Holds(s, v)
    BY <2>1
  <2>3. CASE is_terminal(s.state)
    BY <2>2, <2>3 DEF Holds, Current
  <2>4. CASE ~is_terminal(s.state)
    <3>1. s.state \in {"Live", "PartiallyFilled"}
      BY <2>2, <2>4 DEF Holds, is_terminal
    <3>2. s.state = "PartiallyFilled" /\ v.prior = 0 => v.filled > 0
      BY <1>2, <2>2 DEF Holds
    <3>3. v.state = "Live" => v.filled = 0
      BY DEF VenueShape
    <3>4. CASE s.state = "Live"
      <4>1. r.state = "Pending"
        BY <1>4, <2>1, <3>4 DEF can_transition, LegalTransitions
      <4> QED
        BY <3>4, <4>1 DEF Current, Working, VenueShape
    <3>5. CASE s.state = "PartiallyFilled"
      <4>1. r.state \in {"Pending", "Live"}
        BY <1>4, <2>1, <3>5 DEF can_transition, LegalTransitions
      <4>2. Working(v.state)
        BY <4>1 DEF Current, Working, VenueShape
      <4> QED
        BY <1>2, <3>2, <3>3, <3>5, <4>2 DEF Current, Working
    <3> QED
      BY <3>1, <3>4, <3>5
  <2> QED
    BY <2>3, <2>4
<1> QED
  BY <1>3, <1>4

\* A report of the venue's state makes the record current.
LEMMA CurrentApplied ==
    ASSUME NEW r \in Record, NEW s \in Record, NEW v \in VenueOrder, VenueShape(v),
           Holds(r, v), Holds(s, v), s.state = apply_transition(r.state, v.state)
    PROVE  Current(s, v)
<1>1. s.filled \in Nat /\ v.filled \in Nat /\ v.prior \in Nat
  BY DEF Record, VenueOrder
<1>2. CASE s.state = v.state
  BY <1>2 DEF Current
<1>3. CASE s.state # v.state
  <2>1. s.state = r.state /\ ~can_transition(r.state, v.state)
    BY <1>3 DEF apply_transition
  <2>2. r.state \in {"Live", "PartiallyFilled"}
    BY <1>3, <2>1 DEF Holds, is_terminal
  <2>3. v.state \in {"Live", "PartiallyFilled", "Filled", "Canceled"}
    BY DEF VenueShape, Holds
  <2>4. r.state = "PartiallyFilled" /\ v.state = "Live"
    BY <1>3, <2>1, <2>2, <2>3 DEF can_transition, LegalTransitions, States
  <2>5. v.prior > 0
    BY <1>1, <2>1, <2>4 DEF Holds, VenueShape
  <2> QED
    BY <2>1, <2>4, <2>5 DEF Current, Working
<1> QED
  BY <1>2, <1>3

\* A report is applied to a record that no call owns.
LEMMA AppliedFree ==
    ASSUME Inv, NEW id \in Ids, NEW q, Applied(id, q)
    PROVE  id \notin flying
BY DEF Applied, ReportArbitrated, Drain, Inv, LockOwned

\* A report that is due is applied, or due still.
LEMMA NewsArrives ==
    ASSUME Inv, Truth, Next, "feed_loss" \notin Faults, NEW id \in Ids, id \notin unlogged',
           NEW q \in Due(id)
    PROVE  q \in Due(id)' \/ Applied(id, q)
<1>1. Shaped /\ NoLate /\ ~CrashRestart /\ ~FeedLoss
  BY DEF Truth, NoLate, CrashRestart, FeedLoss
<1>2. venue[id].state # "none" /\ known(orders[id])
  <2>1. LegBacked(q, venue[id]) /\ venue[id].xid \in Nat
    BY DEF Truth, ReportsTrue, Inv, TypeOK, VenueOrder
  <2>2. venue[id].state # "none"
    BY <1>1, <2>1 DEF LegBacked, Shaped, VenueShape
  <2> QED
    BY <2>2 DEF Truth, VenueKnown
<1>3. ASSUME NEW c \in Clients, PlaceRefused(c), call[c].id = id
      PROVE  FALSE
  BY <1>2, <1>3 DEF PlaceRefused, Returns, Truth, AcksTrue
<1>4. ~Lost(id)
  BY <1>1, <1>2, <1>3 DEF Lost
<1> QED
  BY <1>1, <1>4, DueStep

\* A record that follows the venue's order has no fill that the order's leg
\* does not have.
LEMMA FillsBound ==
    ASSUME NEW id \in Ids, Inv', Shaped', Follows(id)', venue'[id].prior = 0
    PROVE  orders'[id].filled <= venue'[id].filled
<1>1. orders'[id].filled \in Nat /\ venue'[id].filled \in Nat
  BY DEF Inv, TypeOK, Record, VenueOrder
<1>2. CASE Blank(orders'[id], venue'[id])
  BY <1>1, <1>2 DEF Blank
<1>3. CASE HasAnswer(id, "place")'
  <2>1. PICK c \in Clients : call'[c].pc = "call" /\ call'[c].op = "place" /\ call'[c].id = id
    BY <1>3 DEF HasAnswer
  <2>2. orders'[id] = NewRecord(call'[c].qty)
    BY <2>1 DEF Inv, PlaceOwnsRecord
  <2>3. orders'[id].filled = 0
    BY <2>2 DEF NewRecord, NoRecord
  <2> QED
    BY <1>1, <2>3
<1>4. CASE Holds(orders'[id], venue'[id])
  BY <1>4 DEF Holds
<1> QED
  BY <1>2, <1>3, <1>4 DEF Follows

LEMMA NewsStep ==
    ASSUME Inv, Truth, Next, Inv', Truth', "feed_loss" \notin Faults,
           NEW id \in Ids, id \notin unlogged', Follows(id), Follows(id)', StateDue(id), FillsDue(id)
    PROVE  StateDue(id)' /\ FillsDue(id)'
<1> DEFINE r == orders[id]
           s == orders'[id]
           v == venue[id]
           w == venue'[id]
<1>1. /\ Shaped /\ NoLate /\ ~CrashRestart /\ Shaped' /\ VenueShape(v)
      /\ r \in Record /\ s \in Record /\ v \in VenueOrder /\ w \in VenueOrder
  BY DEF Truth, Shaped, NoLate, CrashRestart, Inv, TypeOK
<1>2. CASE w # v
  <2>1. NewsOf(id)' \in Due(id)'
    BY <1>1, <1>2, DueStep
  <2>2. NewsOf(id)'.state = w.state /\ NewsOf(id)'.filled = w.filled /\ NewsOf(id)'.xid = w.xid
    BY DEF NewsOf, ReportOf
  <2> QED
    BY <2>1, <2>2 DEF StateDue, FillsDue
<1>3. CASE w = v
  <2>1. known(r) => Advances(r, s)
    BY <1>1, RegistryKept
  <2>2. /\ r.filled \in Nat /\ s.filled \in Nat /\ v.filled \in Nat
        /\ v.prior = 0 => s.filled <= v.filled
    BY <1>1, <1>3, FillsBound DEF Record, VenueOrder
  <2>3. ASSUME NEW q \in Due(id), Applied(id, q)
        PROVE  /\ Holds(r, v) /\ s.filled = HigherFill(r, q.filled) /\ q.filled \in Nat
               /\ q.xid = v.xid => s.state = apply_transition(r.state, q.state)
    <3>1. q \in Report /\ LegBacked(q, v) /\ ApplyReport(id, q) /\ id \notin flying
      BY <2>3, DueTyped, AppliedFree DEF Truth, ReportsTrue, Applied
    <3>2. v.state # "none" /\ v.xid \in Nat
      BY <1>1, <3>1 DEF LegBacked, VenueShape, VenueOrder
    <3>3. Holds(r, v) /\ r.xid = v.xid
      BY <3>1, <3>2, Settled
    <3>4. q.xid \in 1..r.xid /\ Complete(r)
      BY <3>1, <3>3 DEF LegBacked, Holds
    <3>5. DrivesLifecycle(r, q) <=> q.xid = r.xid
      BY <1>1, <3>1, <3>4, ArbitratedComplete
    <3>6. /\ s.filled = HigherFill(r, q.filled)
          /\ DrivesLifecycle(r, q) => s.state = apply_transition(r.state, q.state)
      BY <3>1, ReportApplied
    <3> QED
      BY <3>1, <3>3, <3>5, <3>6 DEF Report
  <2>4. StateDue(id)'
    <3> SUFFICES ASSUME v.state # "none"
                 PROVE  Current(s, v) \/ \E q \in Due(id)' : q.xid = v.xid /\ q.state = v.state
      BY <1>3 DEF StateDue
    <3>1. known(r)
      BY DEF Truth, VenueKnown
    <3>2. s.state = "Pending" \/ Holds(s, v)
      BY <1>3 DEF Follows, Blank
    <3>3. CASE Current(r, v)
      BY <1>1, <2>1, <3>1, <3>2, <3>3, CurrentStays
    <3>4. ASSUME NEW q \in Due(id), q.xid = v.xid, q.state = v.state, Applied(id, q)
          PROVE  Current(s, v)
      <4>1. Holds(r, v) /\ s.state = apply_transition(r.state, v.state)
        BY <2>3, <3>4
      <4>2. s.state # "Pending"
        BY <1>1, <4>1 DEF apply_transition, Holds, VenueShape
      <4> QED
        BY <1>1, <3>2, <4>1, <4>2, CurrentApplied
    <3>5. CASE \E q \in Due(id) : q.xid = v.xid /\ q.state = v.state
      BY <3>4, <3>5, NewsArrives
    <3> QED
      BY <3>3, <3>5 DEF StateDue
  <2>5. FillsDue(id)'
    <3> SUFFICES ASSUME v.prior = 0
                 PROVE  s.filled = v.filled \/ \E q \in Due(id)' : q.filled = v.filled
      BY <1>3 DEF FillsDue
    <3>1. CASE r.filled = v.filled
      <4>1. CASE known(r)
        BY <2>1, <2>2, <3>1, <4>1 DEF Advances
      <4>2. CASE ~known(r)
        <5>1. v.filled = 0
          BY <1>1, <4>2 DEF Truth, VenueKnown, VenueShape
        <5> QED
          BY <2>2, <5>1
      <4> QED
        BY <4>1, <4>2
    <3>2. ASSUME NEW q \in Due(id), q.filled = v.filled, Applied(id, q)
          PROVE  s.filled = v.filled
      BY <2>2, <2>3, <3>2 DEF HigherFill
    <3>3. CASE \E q \in Due(id) : q.filled = v.filled
      BY <3>2, <3>3, NewsArrives
    <3> QED
      BY <3>1, <3>3 DEF FillsDue
  <2> QED
    BY <2>4, <2>5
<1> QED
  BY <1>2, <1>3

-----------------------------------------------------------------------------
(* The invariant over a run of registry and auditor *)

NewsDue == \A id \in Ids \ (lossy \cup unlogged) : StateDue(id) /\ FillsDue(id)

NewsInv == LossInv /\ NewsDue

\* Moreover no report is lost with a connection.
Delivered == Punctual /\ "feed_loss" \notin Faults

LEMMA NewsInit ==
    ASSUME Delivered, AuditInit
    PROVE  NewsInv
<1>1. LossInv
  BY LossInit DEF Delivered
<1>2. venue = [id \in Ids |-> NoVenueOrder] /\ orders = [id \in Ids |-> NoRecord]
  BY DEF AuditInit, Init, Delivered, Punctual
<1>3. NoVenueOrder.state = "none" /\ NoVenueOrder.filled = 0 /\ NoRecord.filled = 0
  BY DEF NoVenueOrder, NoRecord
<1> QED
  BY <1>1, <1>2, <1>3 DEF NewsInv, NewsDue, StateDue, FillsDue

LEMMA NewsNext ==
    ASSUME Delivered, NewsInv, [AuditNext]_<<vars, auditVars>>
    PROVE  NewsInv'
<1>1. Inv /\ Truth /\ Followed /\ LossInv' /\ Inv' /\ Truth' /\ Followed'
  BY LossNext DEF NewsInv, LossInv, Delivered
<1>2. CASE UNCHANGED vars /\ lossy' = lossy
  <2>1. /\ UNCHANGED <<orders, venue, unlogged>>
        /\ \A id \in Ids : Due(id)' = Due(id)
    BY <1>2, TruthFrame DEF vars, registry, market, log
  <2> QED
    BY <1>1, <1>2, <2>1 DEF NewsInv, NewsDue, StateDue, FillsDue
<1>3. CASE OmsStep
  <2>1. Next /\ ~CrashRestart /\ lossy \subseteq lossy'
    BY <1>1, <1>3 DEF OmsStep, Truth, NoLate, CrashRestart
  <2>2. unlogged \subseteq unlogged'
    BY <1>1, <2>1, UnloggedGrows
  <2>3. ASSUME NEW id \in Ids \ (lossy' \cup unlogged')
        PROVE  StateDue(id)' /\ FillsDue(id)'
    <3>1. id \in Ids \ (lossy \cup unlogged) /\ id \notin unlogged' /\ id \notin lossy'
      BY <2>1, <2>2, <2>3
    <3>2. Follows(id) /\ Follows(id)' /\ StateDue(id) /\ FillsDue(id)
      BY <1>1, <3>1 DEF Followed, NewsInv, NewsDue
    <3> QED
      BY <1>1, <2>1, <3>1, <3>2, NewsStep DEF Delivered
  <2> QED
    BY <1>1, <2>3 DEF NewsInv, NewsDue
<1> QED
  BY <1>2, <1>3, AuditSteps

\* At rest an order whose answers have arrived is in the venue's state.
ConvergedUnlessLost ==
    Quiet => \A id \in Ids \ (lossy \cup unlogged) : Resolved(orders[id]) =>
        \/ orders[id].state = venue[id].state
        \/ Working(orders[id].state) /\ Working(venue[id].state)

\* Once every call has returned and every report is delivered, an acknowledged
\* order with no lost answer is in the venue's state, on both kinds of venue:
\* with any number of replaced legs, drain_raced_reports and
\* apply_arbitrated_report lose or misjudge no end of the current leg, and
\* every record that place, cancel or amend left behind has caught up.
THEOREM ConvergesUnlessLost == ASSUME Delivered PROVE AuditSpec => []ConvergedUnlessLost
<1>1. AuditInit => NewsInv
  BY NewsInit
<1>2. NewsInv /\ [AuditNext]_<<vars, auditVars>> => NewsInv'
  BY NewsNext
<1>3. ASSUME NewsInv PROVE ConvergedUnlessLost
  <2> SUFFICES ASSUME Quiet, NEW id \in Ids \ (lossy \cup unlogged), Resolved(orders[id])
               PROVE  \/ orders[id].state = venue[id].state
                      \/ Working(orders[id].state) /\ Working(venue[id].state)
    BY DEF ConvergedUnlessLost
  <2>1. Inv /\ Follows(id) /\ StateDue(id)
    BY <1>3 DEF NewsInv, LossInv, Followed, NewsDue
  <2>2. Due(id) = {}
    BY <2>1, QuietDue
  <2>3. orders[id].state \in {"Live", "PartiallyFilled", "Filled", "Canceled"}
    BY DEF Resolved, States
  <2>4. venue[id].state # "none"
    BY <2>1, <2>3 DEF Follows, Blank, Holds
  <2> QED
    BY <2>1, <2>2, <2>3, <2>4 DEF StateDue, Current
<1> QED
  BY <1>1, <1>2, <1>3, PTL DEF AuditSpec

-----------------------------------------------------------------------------
(* What the alarms of a calm pass mean *)

\* Moreover no append fails.
Faithful == Delivered /\ MaxAppendFails = 0

AllLogged == failsLeft = 0 /\ unlogged = {}

Excused(id) == id \in lossy \/ orders[id].state = "Pending" \/ venue[id].prior > 0

Serious == {"state_mismatch", "fill_mismatch", "version_gap", "venue_unknown"}

\* A calm pass pursues open orders and compares them as the venue has them,
\* and its serious alarms are about orders that something explains.
CalmAlarms ==
    calm => /\ \A id \in audit.work : id \in Ids /\ OpenOrder(id)
            /\ audit.pc = "compare" =>
                  audit.item \in Ids /\ OpenOrder(audit.item) /\ Fetched(audit.item)
            /\ \A a \in alerts : a.check \in Serious => a.id \in Ids /\ Excused(a.id)

AlarmInv == AuditInv /\ NewsInv /\ AllLogged /\ CalmAlarms

LEMMA LoggedKept ==
    ASSUME AllLogged, Next, ~CrashRestart
    PROVE  AllLogged'
<1>1. ASSUME NEW id, LogFails(id) PROVE FALSE
  BY <1>1 DEF LogFails, AllLogged
<1>2. ASSUME NEW id, NEW type, NEW r, append_event(id, type, r) \/ Logged(id, type, r)
      PROVE  AllLogged'
  BY <1>1, <1>2 DEF append_event, Logged, AllLogged
<1>3. UNCHANGED log => AllLogged'
  BY DEF log, AllLogged
<1>4. ASSUME NEW c \in Clients, Caller(c) PROVE AllLogged'
  <2>1. ASSUME NEW i \in Ids, NEW qty \in Quantities,
               PlaceRiskRejected(c, i, qty) \/ PlaceStaged(c, i, qty) \/ AmendSent(c, i, qty)
        PROVE  AllLogged'
    BY <1>2, <1>3, <2>1 DEF PlaceRiskRejected, PlaceStaged, AmendSent
  <2>2. ASSUME NEW i \in Ids, NEW qty \in Quantities, PlaceNotPersisted(c, i, qty)
        PROVE  FALSE
    BY <2>2 DEF PlaceNotPersisted, AllLogged
  <2>3. ASSUME NEW i \in Ids, CancelSent(c, i) PROVE AllLogged'
    BY <1>3, <2>3 DEF CancelSent
  <2>4. PlaceAccepted(c) \/ AmendAccepted(c) => AllLogged'
    BY <1>1, <1>2 DEF PlaceAccepted, AmendAccepted
  <2>5. PlaceRefused(c) \/ CancelAccepted(c) => AllLogged'
    BY <1>2, <1>3 DEF PlaceRefused, CancelAccepted
  <2>6. PlaceUnresolved(c) \/ CancelFailed(c) \/ AmendFailed(c) => AllLogged'
    BY <1>3 DEF PlaceUnresolved, CancelFailed, AmendFailed
  <2>7. Drain(c) => AllLogged'
    BY <1>2, <1>3 DEF Drain, ApplyReport
  <2> QED
    BY <1>4, <2>1, <2>2, <2>3, <2>4, <2>5, <2>6, <2>7 DEF Caller
<1>5. Reader => AllLogged'
  BY <1>2, <1>3 DEF Reader, ReportBuffered, ReportUnknown, ReportArbitrated, ApplyReport
<1>6. ASSUME NEW t \in Recons, Reconciler(t) PROVE AllLogged'
  <2>1. ASSUME NEW e \in recon[t].listing,
               ListedSkipped(t, e) \/ ListedAdopted(t, e) \/ ListedRefreshed(t, e)
        PROVE  AllLogged'
    BY <1>2, <1>3, <2>1 DEF ListedSkipped, ListedAdopted, ListedRefreshed
  <2>2. ASSUME NEW i \in Ids, ReconLookup(t, i) \/ ReconLookupFails(t, i) PROVE AllLogged'
    BY <1>3, <2>2 DEF ReconLookup, ReconLookupFails
  <2>3. ReconList(t) \/ ReconWorklist(t) \/ ReconDone(t) => AllLogged'
    BY <1>3 DEF ReconList, ReconWorklist, ReconDone
  <2>4. ReconFound(t) \/ ReconAbsent(t) \/ ReconAbsentLogged(t) => AllLogged'
    BY <1>2, <1>3 DEF ReconFound, ReconAbsent, ReconAbsentLogged
  <2> QED
    BY <1>6, <2>1, <2>2, <2>3, <2>4 DEF Reconciler
<1>7. Venue => AllLogged'
  BY <1>3, VenueFrame
<1> QED
  BY <1>4, <1>5, <1>6, <1>7 DEF Next

\* An alarm about an order has its id and one of its checks.
LEMMA AlarmOf ==
    ASSUME NEW id, NEW checks, NEW a \in Alarm(id, checks)
    PROVE  a.id = id /\ a.check \in checks
BY DEF Alarm

\* The leg chain of a record that nothing excuses has no gap.
LEMMA NoGap ==
    ASSUME NewsInv, NEW id \in Ids, "version_gap" \in audit_record_local(orders[id])
    PROVE  Excused(id)
<1> SUFFICES ASSUME id \notin lossy, orders[id].state # "Pending" PROVE FALSE
  BY DEF Excused
<1>1. Follows(id)
  BY DEF NewsInv, LossInv, Followed
<1>2. orders[id].legs = <<>> \/ Complete(orders[id])
  BY <1>1 DEF Follows, Blank, Holds
<1>3. \/ \E i \in DOMAIN orders[id].legs : orders[id].legs[i].version # i
      \/ orders[id].legs # <<>> /\ orders[id].legs[Len(orders[id].legs)].id # orders[id].xid
  BY DEF audit_record_local
<1>4. orders[id].legs = <<>> => DOMAIN orders[id].legs = {}
  OBVIOUS
<1> QED
  BY <1>2, <1>3, <1>4 DEF Complete

\* An open order that the venue does not have is Pending, or lost an answer.
LEMMA AbsentExcused ==
    ASSUME NewsInv, NEW id \in Ids, OpenOrder(id), venue[id].state = "none"
    PROVE  Excused(id)
<1>1. id \notin lossy => Follows(id)
  BY DEF NewsInv, LossInv, Followed
<1> QED
  BY <1>1 DEF Follows, Blank, Holds, OpenOrder, known, is_terminal, Excused

\* At rest the state and the fills of an order that nothing excuses agree.
LEMMA MismatchExcused ==
    ASSUME NewsInv, AllLogged, Quiet, NEW id \in Ids, venue[id].state # "none",
           venue[id].state # orders[id].state \/ venue[id].filled # orders[id].filled
    PROVE  Excused(id)
<1> SUFFICES ASSUME id \notin lossy, orders[id].state # "Pending", ~(venue[id].prior > 0) PROVE FALSE
  BY DEF Excused
<1>1. Inv /\ StateDue(id) /\ FillsDue(id)
  BY DEF NewsInv, LossInv, NewsDue, AllLogged
<1>2. Due(id) = {}
  BY <1>1, QuietDue
<1>3. venue[id].prior = 0
  BY <1>1 DEF Inv, TypeOK, VenueOrder
<1> QED
  BY <1>1, <1>2, <1>3 DEF StateDue, FillsDue, Current

\* What a step of the auditor leaves alone.
LEMMA AlarmFrame ==
    ASSUME UNCHANGED vars, lossy' = lossy
    PROVE  /\ UNCHANGED <<orders, venue, unlogged, failsLeft>>
           /\ \A id \in Ids : (OpenOrder(id) => OpenOrder(id)') /\ (Excused(id) => Excused(id)')
<1>1. UNCHANGED <<orders, venue, unlogged, failsLeft>>
  BY DEF vars, registry, market, log
<1> QED
  BY <1>1 DEF OpenOrder, Excused

LEMMA StartsAlarms ==
    ASSUME AlarmInv, AuditStarts
    PROVE  CalmAlarms'
<1> DEFINE w == [IdleAudit EXCEPT !.pc = "lookup", !.work = AuditWorklist]
<1>1. audit' = w /\ UNCHANGED vars /\ lossy' = lossy
  BY DEF AuditStarts
<1>2. w.pc = "lookup" /\ w.work = AuditWorklist
  BY DEF IdleAudit
<1> HIDE DEF w
<1>3. \A id \in AuditWorklist : id \in Ids /\ OpenOrder(id)
  BY DEF AuditWorklist, OpenOrder
<1>4. ASSUME NEW a \in alerts', a.check \in Serious
      PROVE  a.id \in Ids /\ Excused(a.id)
  <2>1. CASE \E i \in Ids : a \in Alarm(i, audit_record_local(orders[i]))
    <3>1. PICK i \in Ids : a \in Alarm(i, audit_record_local(orders[i]))
      BY <2>1
    <3>2. a.id = i /\ a.check \in audit_record_local(orders[i])
      BY <3>1, AlarmOf
    <3>3. a.check = "version_gap"
      BY <1>4, <3>2 DEF audit_record_local, Serious
    <3> QED
      BY <3>2, <3>3, NoGap DEF AlarmInv
  <2>2. CASE \E i \in DOMAIN notes : a \in Alarm(notes[i], {"unknown_leg_report"})
    BY <1>4, <2>2, AlarmOf DEF Serious
  <2> DEFINE A == {Alarm(id, audit_record_local(orders[id])) : id \in {i \in Ids : known(orders[i])}}
             B == {Alarm(notes[i], {"unknown_leg_report"}) : i \in DOMAIN notes}
  <2>3. alerts' = (UNION A) \cup (UNION B)
    BY DEF AuditStarts
  <2>4. a \in UNION A => \E i \in Ids : a \in Alarm(i, audit_record_local(orders[i]))
    OBVIOUS
  <2>5. a \in UNION B => \E i \in DOMAIN notes : a \in Alarm(notes[i], {"unknown_leg_report"})
    OBVIOUS
  <2> HIDE DEF A, B
  <2> QED
    BY <2>1, <2>2, <2>3, <2>4, <2>5
<1> QED
  BY <1>1, <1>2, <1>3, <1>4, AlarmFrame DEF CalmAlarms

LEMMA LookupAlarms ==
    ASSUME AlarmInv, NEW id \in Ids, AuditLookup(id)
    PROVE  CalmAlarms'
<1>1. /\ audit' = [pc |-> "compare", work |-> audit.work \ {id}, item |-> id, found |-> {SnapshotOf(id)}]
      /\ UNCHANGED <<alerts, calm, lossy>> /\ UNCHANGED vars /\ venue[id].state # "none"
      /\ audit.pc = "lookup" /\ id \in audit.work
  BY DEF AuditLookup
<1>2. Fetched(id)' /\ audit'.item = id /\ audit'.work = audit.work \ {id}
  BY <1>1, AlarmFrame DEF Fetched, SnapshotOf
<1> QED
  BY <1>1, <1>2, AlarmFrame DEF CalmAlarms, AlarmInv

LEMMA LookupFailsAlarms ==
    ASSUME AlarmInv, NEW id \in Ids, AuditLookupFails(id)
    PROVE  CalmAlarms'
<1>1. /\ audit' = [audit EXCEPT !.work = @ \ {id}] /\ UNCHANGED <<calm, lossy>> /\ UNCHANGED vars
      /\ audit.pc = "lookup" /\ id \in audit.work
  BY DEF AuditLookupFails
<1>2. audit'.pc = "lookup" /\ audit'.work = audit.work \ {id}
  BY <1>1 DEF AlarmInv, AuditInv, AuditTyped
<1>3. ASSUME calm, NEW a \in alerts', a.check \in Serious
      PROVE  a.id \in Ids /\ Excused(a.id)
  <2>1. CASE a \in alerts
    BY <1>3, <2>1 DEF AlarmInv, CalmAlarms
  <2>2. CASE a \in Alarm(id, {"lookup_failed"})
    BY <1>3, <2>2, AlarmOf DEF Serious
  <2>3. CASE venue[id].state = "none" /\ a \in Alarm(id, {"venue_unknown"})
    <3>1. a.id = id
      BY <2>3, AlarmOf
    <3>2. OpenOrder(id)
      BY <1>1, <1>3 DEF AlarmInv, CalmAlarms
    <3> QED
      BY <2>3, <3>1, <3>2, AbsentExcused DEF AlarmInv
  <2> QED
    BY <2>1, <2>2, <2>3 DEF AuditLookupFails
<1> QED
  BY <1>1, <1>2, <1>3, AlarmFrame DEF CalmAlarms, AlarmInv

LEMMA CompareAlarms ==
    ASSUME AlarmInv, AuditCompare
    PROVE  CalmAlarms'
<1> DEFINE w == [IdleAudit EXCEPT !.pc = "lookup", !.work = audit.work]
<1>1. audit' = w /\ UNCHANGED <<calm, lossy>> /\ UNCHANGED vars /\ audit.pc = "compare"
  BY DEF AuditCompare
<1>2. w.pc = "lookup" /\ w.work = audit.work
  BY DEF IdleAudit
<1> HIDE DEF w
<1>3. ASSUME calm, NEW a \in alerts', a.check \in Serious
      PROVE  a.id \in Ids /\ Excused(a.id)
  <2>1. PICK id : id = audit.item
    OBVIOUS
  <2>2. id \in Ids /\ Fetched(id) /\ Quiet
    BY <1>1, <1>3, <2>1 DEF AlarmInv, CalmAlarms, AuditInv, CalmPass, Undisturbed
  <2> DEFINE s == SnapshotOf(id)
  <2>3. alerts' = alerts \cup Alarm(id, audit_record_vs_snapshot(orders[id], s))
    BY <2>1, <2>2 DEF AuditCompare, Fetched
  <2>4. CASE a \in alerts
    BY <1>3, <2>4 DEF AlarmInv, CalmAlarms
  <2>5. CASE a \in Alarm(id, audit_record_vs_snapshot(orders[id], s))
    <3>1. a.id = id /\ a.check \in audit_record_vs_snapshot(orders[id], s)
      BY <2>5, AlarmOf
    <3>2. s.state = venue[id].state /\ s.filled = venue[id].filled
      BY DEF SnapshotOf
    <3> HIDE DEF s
    <3>3. s.state # orders[id].state \/ s.filled # orders[id].filled
      BY <1>3, <3>1 DEF audit_record_vs_snapshot, Serious
    <3> QED
      BY <2>2, <3>1, <3>2, <3>3, MismatchExcused DEF AlarmInv, Fetched
  <2> QED
    BY <2>3, <2>4, <2>5
<1> QED
  BY <1>1, <1>2, <1>3, AlarmFrame DEF CalmAlarms, AlarmInv

LEMMA OmsStepAlarms ==
    ASSUME AlarmInv, OmsStep
    PROVE  CalmAlarms'
<1> SUFFICES ASSUME calm'
             PROVE  CalmAlarms'
  BY DEF CalmAlarms
<1>1. /\ calm /\ Undisturbed' /\ ~Crashing /\ UNCHANGED <<audit, alerts>> /\ Next
      /\ lossy \subseteq lossy'
  BY DEF OmsStep
<1>2. /\ venue' = venue
      /\ \A id \in Ids : orders'[id] = orders[id] \/ (~known(orders[id]) /\ is_terminal(orders'[id].state))
  BY <1>1, CalmStep DEF AlarmInv, AuditInv, CalmPass
<1>3. \A id \in Ids : OpenOrder(id) => OpenOrder(id)'
  BY <1>2 DEF OpenOrder
<1>4. \A id \in Ids : Excused(id) => Excused(id)'
  BY <1>1, <1>2 DEF Excused, known
<1>5. ASSUME NEW id \in Ids, Fetched(id) PROVE Fetched(id)'
  BY <1>1, <1>2, <1>5 DEF Fetched, SnapshotOf
<1> QED
  BY <1>1, <1>3, <1>4, <1>5 DEF AlarmInv, CalmAlarms

LEMMA AlarmInit ==
    ASSUME Faithful, AuditInit
    PROVE  AlarmInv
<1>1. AllLogged /\ CalmAlarms
  BY DEF AuditInit, Init, Faithful, AllLogged, CalmAlarms
<1> QED
  BY <1>1, AuditInvInit, NewsInit DEF AlarmInv, Faithful

LEMMA AlarmNext ==
    ASSUME Faithful, AlarmInv, [AuditNext]_<<vars, auditVars>>
    PROVE  AlarmInv'
<1>1. AuditInv' /\ NewsInv'
  BY AuditInvNext, NewsNext DEF AlarmInv, Faithful
<1>2. AllLogged'
  <2>1. CASE UNCHANGED vars /\ lossy' = lossy
    BY <2>1, AlarmFrame DEF AlarmInv, AllLogged
  <2>2. CASE OmsStep
    <3>1. Next /\ ~CrashRestart
      BY <2>2 DEF OmsStep, AlarmInv, NewsInv, LossInv, Truth, NoLate, CrashRestart
    <3> QED
      BY <3>1, LoggedKept DEF AlarmInv
  <2> QED
    BY <2>1, <2>2, AuditSteps
<1>3. CASE AuditEnds
  BY <1>1, <1>2, <1>3 DEF AuditEnds, AlarmInv, CalmAlarms
<1>4. CASE UNCHANGED <<vars, auditVars>>
  <2>1. UNCHANGED vars /\ lossy' = lossy /\ UNCHANGED <<audit, alerts, calm>>
    BY <1>4 DEF auditVars
  <2>2. \A id \in Ids : Fetched(id) => Fetched(id)'
    BY <2>1, AlarmFrame DEF Fetched, SnapshotOf
  <2>3. CalmAlarms'
    BY <2>1, <2>2, AlarmFrame DEF AlarmInv, CalmAlarms
  <2> QED
    BY <1>1, <1>2, <2>3 DEF AlarmInv
<1> QED
  BY <1>1, <1>2, <1>3, <1>4, StartsAlarms, LookupAlarms, LookupFailsAlarms, CompareAlarms, OmsStepAlarms
     DEF AuditNext, AlarmInv

\* A calm pass of the auditor alarms about an order's state, fills, leg chain
\* or existence only when an answer of one of its calls was lost, its place is
\* unresolved, or a leg with fills was replaced: no race of calls, reports,
\* listings and lookups leaves a record that audit_record_local or
\* audit_record_vs_snapshot would complain about.  For any number of orders,
\* threads and amends, on both kinds of venue.
THEOREM AlarmsAreEarned == ASSUME Faithful PROVE AuditSpec => []AlarmsMeanLoss
<1>1. AuditInit => AlarmInv
  BY AlarmInit
<1>2. AlarmInv /\ [AuditNext]_<<vars, auditVars>> => AlarmInv'
  BY AlarmNext
<1>3. AlarmInv => AlarmsMeanLoss
  BY DEF AlarmInv, CalmAlarms, AlarmsMeanLoss, CalmEnd, Serious, Excused
<1> QED
  BY <1>1, <1>2, <1>3, PTL DEF AuditSpec

=============================================================================
