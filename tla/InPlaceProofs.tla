--------------------------- MODULE InPlaceProofs ---------------------------
(***************************************************************************)
(* What the registry knows of the orders of a venue that amends in place,  *)
(* for every number of orders, callers and reconciling threads.            *)
(*                                                                         *)
(* Whatever is lost, duplicated, delayed or restarted, what the gateway    *)
(* has on record or at hand about an order was true of it once: it holds   *)
(* no more fills than the venue and no end that the venue's order has not  *)
(* come to.  When moreover no report is lost, what is missing from a       *)
(* record is still on its way, and everything has arrived at rest.         *)
(***************************************************************************)
EXTENDS RoutesProofs

-----------------------------------------------------------------------------
(* What is true of the venue's order v *)

\* The observation of a state and fills, once made.
Backed(o, v) ==
    /\ v.state # "none" /\ o.filled <= v.filled /\ o.xid = 1
    /\ o.state \in {"Filled", "Canceled"} => v.state = o.state

TrueRecord(r, v) ==
    /\ r.filled <= v.filled
    /\ r.state \in {"Filled", "Canceled"} => v.state = r.state

OneLeg(r) == r.xid \in {0, 1} /\ \A i \in DOMAIN r.legs : r.legs[i].id = 1

\* The venue's order has one exchange order id and replaces nothing.
VenueShape(v) ==
    /\ v.prior = 0
    /\ v.state \in {"none", "Live", "PartiallyFilled", "Filled", "Canceled"}
    /\ IF v.state = "none" THEN v.filled = 0 /\ v.xid = 0 ELSE v.xid = 1

ReportsTrue == \A id \in Ids : \A r \in Due(id) : Backed(r, venue[id])

SnapshotsTrue ==
    \A t \in Recons :
        /\ \A e \in recon[t].listing : Backed(e.snap, venue[e.id])
        /\ recon[t].pc = "apply" => \A s \in recon[t].found : Backed(s, venue[recon[t].item])

RecordsTrue ==
    \A id \in Ids : TrueRecord(orders[id], venue[id]) /\ TrueRecord(disk[id], venue[id])

\* What a call that the venue has executed may tell.
AcksTrue ==
    \A c \in Clients : call[c].pc = "call" =>
        /\ call[c].ack \in {0, 1}
        /\ call[c].ack # 0 => venue[call[c].id].state # "none"
        /\ call[c].ack # 0 /\ call[c].op = "cancel" => venue[call[c].id].state = "Canceled"

Truth ==
    /\ \A id \in Ids : VenueShape(venue[id])
    /\ ReportsTrue
    /\ SnapshotsTrue
    /\ RecordsTrue
    /\ AcksTrue

-----------------------------------------------------------------------------
(* Nothing is lost *)

LateKnown == \A q \in late : known(orders[q.id])

VenueKnown == \A id \in Ids : venue[id].state # "none" => known(orders[id])

ResolvedExists == \A id \in Ids : Working(orders[id].state) => venue[id].state # "none"

NoLatePlace ==
    \A c \in Clients : PlaceOpen(c) =>
        /\ \A q \in late : q.op = "place" => q.id # call[c].id
        /\ call[c].ack = 0 => venue[call[c].id].state = "none"

FillsDue ==
    \A id \in Ids \ unlogged :
        orders[id].filled = venue[id].filled \/ \E r \in Due(id) : r.filled = venue[id].filled

EndDue ==
    \A id \in Ids \ unlogged : is_terminal(venue[id].state) =>
        \/ orders[id].state \in {venue[id].state, "Rejected"}
        \/ \E r \in Due(id) : r.state = venue[id].state

LiveDue ==
    \A id \in Ids \ unlogged : venue[id].state # "none" /\ orders[id].state = "Pending" =>
        \E r \in Due(id) : r.state = "Live"

\* In a queue of reports no cancel comes before the acknowledgement.
Led(q) ==
    \A i \in DOMAIN q : q[i].state = "Canceled" =>
        \E j \in DOMAIN q : j < i /\ q[j].state = "Live"

LiveAtHand(id) == \E r \in InBuffer(id) \cup InDrain(id) : r.state = "Live"

FeedLed(id) ==
    \A i \in DOMAIN feed : feed[i].id = id /\ feed[i].report.state = "Canceled" =>
        \/ LiveAtHand(id)
        \/ \E j \in DOMAIN feed : j < i /\ feed[j].id = id /\ feed[j].report.state = "Live"

Queued(id) ==
    /\ Led(raced[id])
    /\ \A c \in Drainers(id) : Led(call[c].raced)
    /\ FeedLed(id)

\* A Pending order cannot become Canceled: its acknowledgement comes first.
Sequenced == \A id \in Ids \ unlogged : orders[id].state = "Pending" => Queued(id)

OneLegged == \A id \in Ids : OneLeg(orders[id])

NoCrash == crashesLeft = 0

-----------------------------------------------------------------------------
(* The venue's orders only grow *)

\* An order stays, fills, and does not change once it has ended.
Grows(v, w) ==
    /\ IF v.state = "none" THEN w.state \in {"none", "Live"} ELSE w.state # "none"
    /\ w.filled >= v.filled
    /\ is_terminal(v.state) => w.state = v.state /\ w.filled = v.filled /\ w.prior = v.prior

Shaped == \A id \in Ids : VenueShape(venue[id])

VenueMoved(id, v) ==
    VenueMoves(id, v) /\ v \in VenueOrder /\ v.state # "none" /\ VenueShape(v) /\ Grows(venue[id], v)

\* A request moves an order; only a place makes one.
LEMMA ExecutesMoves ==
    ASSUME InPlace, TypeOK, Shaped, NEW op, NEW id \in Ids, NEW qty \in Nat, VenueExecutes(op, id, qty)
    PROVE  \E v : /\ VenueMoved(id, v)
                  /\ op = "cancel" => v.state = "Canceled"
                  /\ op # "place" => venue[id].state # "none"
<1>1. venue[id] \in VenueOrder /\ VenueShape(venue[id])
  BY DEF TypeOK, Shaped
<1>2. CASE op = "place" /\ venue[id].state = "none" /\ VenueMoves(id, NewVenueOrder(qty))
  <2> DEFINE v == NewVenueOrder(qty)
  <2>1. v.state = "Live" /\ v.filled = 0 /\ v.xid = 1 /\ v.prior = 0 /\ v \in VenueOrder
    BY DEF NewVenueOrder, NoVenueOrder, VenueOrder, VenueStates, States
  <2>2. VenueMoves(id, v)
    BY <1>2
  <2> HIDE DEF v
  <2>3. Grows(venue[id], v) /\ VenueShape(v)
    BY <1>1, <1>2, <2>1 DEF Grows, VenueShape, is_terminal
  <2> QED
    BY <1>2, <2>1, <2>2, <2>3 DEF VenueMoved
<1>3. CASE op = "cancel" /\ Working(venue[id].state)
                         /\ VenueMoves(id, [venue[id] EXCEPT !.state = "Canceled"])
  <2> DEFINE v == [venue[id] EXCEPT !.state = "Canceled"]
  <2>1. /\ v \in VenueOrder /\ v.state = "Canceled" /\ v.filled = venue[id].filled
        /\ v.xid = venue[id].xid /\ v.prior = venue[id].prior /\ venue[id].filled \in Nat
    BY <1>1 DEF VenueOrder, VenueStates, States
  <2>2. VenueMoves(id, v)
    BY <1>3
  <2> HIDE DEF v
  <2>3. Grows(venue[id], v) /\ VenueShape(v) /\ venue[id].state # "none"
    BY <1>1, <1>3, <2>1 DEF Grows, VenueShape, is_terminal, Working
  <2> QED
    BY <1>3, <2>1, <2>2, <2>3 DEF VenueMoved
<1>4. CASE op = "amend" /\ Working(venue[id].state) /\ VenueMoves(id, [venue[id] EXCEPT !.qty = qty])
  <2> DEFINE v == [venue[id] EXCEPT !.qty = qty]
  <2>1. /\ v \in VenueOrder /\ v.state = venue[id].state /\ v.filled = venue[id].filled
        /\ v.xid = venue[id].xid /\ v.prior = venue[id].prior /\ venue[id].filled \in Nat
    BY <1>1 DEF VenueOrder
  <2>2. VenueMoves(id, v)
    BY <1>4
  <2> HIDE DEF v
  <2>3. Grows(venue[id], v) /\ VenueShape(v) /\ venue[id].state # "none"
    BY <1>1, <1>4, <2>1 DEF Grows, VenueShape, is_terminal, Working
  <2> QED
    BY <1>4, <2>1, <2>2, <2>3 DEF VenueMoved
<1> QED
  BY <1>2, <1>3, <1>4 DEF VenueExecutes

\* So does a fill, or the end of an order by itself.
LEMMA SelfMoves ==
    ASSUME TypeOK, Shaped, NEW id \in Ids, VenueFill(id) \/ VenueCancel(id)
    PROVE  venue[id].state # "none" /\ \E v : VenueMoved(id, v)
<1>1. venue[id] \in VenueOrder /\ VenueShape(venue[id]) /\ Working(venue[id].state)
  BY DEF TypeOK, Shaped, VenueFill, VenueCancel
<1>2. CASE VenueFill(id)
  <2> DEFINE w == [venue[id] EXCEPT !.filled = @ + 1]
             s == IF w.filled = w.qty THEN "Filled" ELSE "PartiallyFilled"
             v == [w EXCEPT !.state = s]
  <2>1. w \in VenueOrder /\ w.filled = venue[id].filled + 1 /\ w.xid = venue[id].xid
          /\ w.prior = venue[id].prior /\ venue[id].filled \in Nat
    BY <1>1 DEF VenueOrder
  <2>2. VenueMoves(id, v)
    BY <1>2 DEF VenueFill
  <2>3. s \in {"Filled", "PartiallyFilled"}
    OBVIOUS
  <2> HIDE DEF w, s
  <2>4. /\ v \in VenueOrder /\ v.state = s /\ v.filled = venue[id].filled + 1
        /\ v.xid = venue[id].xid /\ v.prior = venue[id].prior
    BY <2>1, <2>3 DEF VenueOrder, VenueStates, States
  <2> HIDE DEF v
  <2>5. Grows(venue[id], v) /\ VenueShape(v) /\ v.state # "none"
    BY <1>1, <2>1, <2>3, <2>4 DEF Grows, VenueShape, is_terminal, Working
  <2> QED
    BY <1>1, <2>2, <2>4, <2>5 DEF VenueMoved, Working
<1>3. CASE VenueCancel(id)
  <2> DEFINE v == [venue[id] EXCEPT !.state = "Canceled"]
  <2>1. /\ v \in VenueOrder /\ v.state = "Canceled" /\ v.filled = venue[id].filled
        /\ v.xid = venue[id].xid /\ v.prior = venue[id].prior /\ venue[id].filled \in Nat
    BY <1>1 DEF VenueOrder, VenueStates, States
  <2>2. VenueMoves(id, v)
    BY <1>3 DEF VenueCancel
  <2> HIDE DEF v
  <2>3. Grows(venue[id], v) /\ VenueShape(v)
    BY <1>1, <2>1 DEF Grows, VenueShape, is_terminal, Working
  <2> QED
    BY <1>1, <2>1, <2>2, <2>3 DEF VenueMoved, Working
<1> QED
  BY <1>2, <1>3

LEMMA VenueStep ==
    ASSUME InPlace, Inv, Shaped, Next
    PROVE  \/ Elsewhere /\ venue' = venue
           \/ \E id \in Ids : \E v :
                 /\ VenueMoved(id, v)
                 /\ UNCHANGED <<registry, log, lock, recon, up, others>>
                 /\ \/ \E c \in Clients : VenueAnswers(c) /\ call[c].id = id
                    \/ UNCHANGED call /\ (venue[id].state = "none" => \E q \in late : q.op = "place" /\ q.id = id)
<1>1. TypeOK
  BY DEF Inv
<1>2. ASSUME NEW c \in Clients, Caller(c)
      PROVE  venue' = venue
  BY <1>2, CallerFrame
<1>3. ASSUME NEW t \in Recons, Reconciler(t)
      PROVE  venue' = venue
  BY <1>3, ReconcilerFrame
<1>4. Reader \/ FeedLoss \/ CrashRestart => venue' = venue
  BY DEF Reader, ReportBuffered, ReportUnknown, ReportArbitrated, FeedLoss, CrashRestart
<1>5. ASSUME NEW c \in Clients, VenueAnswers(c)
      PROVE  /\ call[c].id \in Ids /\ UNCHANGED <<registry, log, lock, recon, up, others>>
             /\ \E v : VenueMoved(call[c].id, v)
  <2>1. call[c].id \in Ids /\ call[c].qty \in Nat
    BY <1>5, AtKnownOrder DEF VenueAnswers
  <2> QED
    BY <1>1, <1>5, <2>1, ExecutesMoves DEF VenueAnswers
<1>6. ASSUME NEW q \in late, LateArrival(q)
      PROVE  /\ q.id \in Ids /\ UNCHANGED <<registry, log, lock, call, recon, up, others>>
             /\ \E v : VenueMoved(q.id, v)
             /\ venue[q.id].state = "none" => q.op = "place"
  <2>1. q.id \in Ids /\ q.qty \in Nat
    BY <1>1 DEF TypeOK, Request
  <2> QED
    BY <1>1, <1>6, <2>1, ExecutesMoves DEF LateArrival
<1>7. ASSUME NEW id \in Ids, VenueFill(id) \/ VenueCancel(id)
      PROVE  /\ UNCHANGED <<registry, log, lock, call, recon, up, others>>
             /\ venue[id].state # "none" /\ \E v : VenueMoved(id, v)
  BY <1>1, <1>7, SelfMoves DEF VenueFill, VenueCancel
<1>8. CASE Elsewhere
  BY <1>2, <1>3, <1>4, <1>8 DEF Elsewhere
<1> QED
  BY <1>5, <1>6, <1>7, <1>8 DEF Next, Venue, Elsewhere

\* No step lets an order shrink or come back.
LEMMA VenueGrows ==
    ASSUME InPlace, Inv, Shaped, Next
    PROVE  Shaped' /\ \A id \in Ids : Grows(venue[id], venue'[id])
<1>1. venue \in [Ids -> VenueOrder]
  BY DEF Inv, TypeOK
<1>2. \A id \in Ids : Grows(venue[id], venue[id])
  <2>1. \A id \in Ids : venue[id].filled \in Nat
    BY <1>1 DEF VenueOrder
  <2> QED
    BY <2>1 DEF Grows
<1>3. CASE venue' = venue
  BY <1>2, <1>3 DEF Shaped
<1>4. ASSUME NEW id \in Ids, NEW v, VenueMoved(id, v)
      PROVE  Shaped' /\ \A i \in Ids : Grows(venue[i], venue'[i])
  <2>1. \A i \in Ids : venue'[i] = IF i = id THEN v ELSE venue[i]
    BY <1>1, <1>4 DEF VenueMoved, VenueMoves
  <2>2. VenueShape(v) /\ Grows(venue[id], v)
    BY <1>4 DEF VenueMoved
  <2>3. Shaped'
    BY <2>1, <2>2 DEF Shaped
  <2> QED
    BY <1>2, <2>1, <2>2, <2>3
<1> QED
  BY <1>3, <1>4, VenueStep

\* What was true of an order stays true of it.
LEMMA TruthStays ==
    ASSUME NEW v \in VenueOrder, NEW w \in VenueOrder, Grows(v, w)
    PROVE  /\ \A o : o.filled \in Nat /\ Backed(o, v) => Backed(o, w)
           /\ \A r : r.filled \in Nat /\ TrueRecord(r, v) => TrueRecord(r, w)
<1>1. v.filled \in Nat /\ w.filled \in Nat
  BY DEF VenueOrder
<1> QED
  BY <1>1 DEF Grows, Backed, TrueRecord, is_terminal

-----------------------------------------------------------------------------
(* How reports travel *)

\* A report comes from a move of the venue's order, which it describes, and
\* stays due until it is applied or lost.
LEMMA ReportsTravel ==
    ASSUME InPlace, Inv, Shaped, Next, NEW id \in Ids
    PROVE  /\ \A r \in Due(id)' : r \in Due(id) \/ (venue'[id].state # "none" /\ r = NewsOf(id)')
           /\ \A r \in Due(id) : r \in Due(id)' \/ Applied(id, r) \/ Lost(id)
           /\ venue'[id] = venue[id] \/ NewsOf(id)' \in Due(id)'
<1>1. CASE Elsewhere /\ venue' = venue
  BY <1>1, ElsewhereDue
<1>2. ASSUME NEW i \in Ids, NEW v, VenueMoved(i, v), UNCHANGED registry,
             UNCHANGED call \/ \E c \in Clients : VenueAnswers(c)
      PROVE  /\ Due(id)' = Due(id) \cup (IF id = i THEN {NewsOf(id)'} ELSE {})
             /\ IF id = i THEN venue'[id].state # "none" ELSE venue'[id] = venue[id]
  <2>1. /\ venue \in [Ids -> VenueOrder] /\ feed \in Seq(FeedReport) /\ call \in [Clients -> Call]
        /\ venue' = [venue EXCEPT ![i] = v] /\ feed' = Append(feed, ReportOf(i, v))
        /\ v \in VenueOrder /\ v.state # "none"
    BY <1>2 DEF Inv, TypeOK, VenueMoved, VenueMoves
  <2>2. ReportOf(i, v) \in FeedReport
    BY <2>1, ReportOfTyped
  <2>3. ReportOf(i, v).id = i /\ NewsOf(i)' = ReportOf(i, v).report
    BY <2>1 DEF ReportOf, NewsOf
  <2>4. InFeed(id)' = InFeed(id) \cup (IF id = i THEN {NewsOf(id)'} ELSE {})
    BY <2>1, <2>2, <2>3, FeedAppended
  <2>5. InBuffer(id)' = InBuffer(id)
    BY <1>2 DEF registry, InBuffer
  <2>6. InDrain(id)' = InDrain(id)
    <3>1. CASE UNCHANGED call
      BY <3>1 DEF InDrain, Drainers, DrainedBy
    <3>2. ASSUME NEW c \in Clients, VenueAnswers(c)
          PROVE  InDrain(id)' = InDrain(id)
      <4>1. call[c].pc = "call" /\ \E n : call' = [call EXCEPT ![c].ack = n]
        BY <3>2 DEF VenueAnswers
      <4>2. call'[c].pc = "call" /\ \A d \in Clients \ {c} : call'[d] = call[d]
        BY <2>1, <4>1 DEF Call
      <4> QED
        BY <4>1, <4>2, DrainFrame
    <3> QED
      BY <1>2, <3>1, <3>2
  <2> QED
    BY <2>1, <2>4, <2>5, <2>6 DEF Due
<1> QED
  BY <1>1, <1>2, VenueStep

-----------------------------------------------------------------------------
(* Where a record's state and fills come from *)

\* The record r that takes the place of o while the venue has v: its state and
\* its fills are those of o or what the venue's order has come to, and it
\* learns of no other exchange order id.
SoundRecord(o, r, v) ==
    /\ \/ ~known(o) /\ r.state \in {"Pending", "Rejected"} /\ r.filled = 0
       \/ /\ \/ r.state \in {o.state, "Rejected"}
             \/ v.state # "none" /\ r.state \in {"Live", "PartiallyFilled", v.state}
          /\ r.filled = o.filled \/ (r.filled \in Nat /\ r.filled <= v.filled)
    /\ OneLeg(o) => OneLeg(r)

SoundStep == \A id \in Ids : SoundRecord(orders[id], orders'[id], venue[id])

\* The leg table of an order with one exchange order id.
LEMMA LegPushed ==
    ASSUME NEW r \in Record, OneLeg(r)
    PROVE  \A i \in DOMAIN push_leg(r, 1).legs : push_leg(r, 1).legs[i].id = 1
<1> DEFINE e == [version |-> Len(r.legs) + 1, id |-> 1]
           p == Append(r.legs, e)
<1>1. r.legs \in Seq(Leg) /\ Len(r.legs) \in Nat /\ DOMAIN r.legs = 1..Len(r.legs)
  BY LenProperties DEF Record
<1>2. e \in Leg /\ e.id = 1
  BY <1>1 DEF Leg
<1>3. push_leg(r, 1).legs = p
  BY DEF push_leg, Record
<1> HIDE DEF e
<1>4. /\ DOMAIN p = 1..(Len(r.legs) + 1) /\ p[Len(r.legs) + 1] = e
      /\ \A i \in 1..Len(r.legs) : p[i] = r.legs[i]
  BY <1>1, <1>2, AppendProperties, LenProperties
<1> HIDE DEF p
<1>5. \A i \in DOMAIN p : i \in DOMAIN r.legs \/ i = Len(r.legs) + 1
  BY <1>1, <1>4
<1>6. \A i \in DOMAIN p : p[i].id = 1
  BY <1>1, <1>2, <1>4, <1>5 DEF OneLeg
<1> QED
  BY <1>3, <1>6

LEMMA LegNoted ==
    ASSUME NEW r \in Record, OneLeg(r), NEW id \in {0, 1}
    PROVE  OneLeg(note_exchange_id(r, id))
<1>1. CASE id = 0 \/ id = r.xid
  BY <1>1 DEF note_exchange_id
<1>2. CASE ~(id = 0 \/ id = r.xid)
  <2> DEFINE s == [r EXCEPT !.xid = 1]
             p == push_leg(s, 1)
  <2>1. s \in Record /\ s.xid = 1 /\ s.legs = r.legs
    BY DEF Record
  <2>2. OneLeg(s)
    BY <2>1 DEF OneLeg
  <2>3. note_exchange_id(r, id) = p
    BY <1>2 DEF note_exchange_id
  <2> HIDE DEF s
  <2>4. p.xid = 1
    BY <2>1 DEF push_leg, Record
  <2>5. \A i \in DOMAIN p.legs : p.legs[i].id = 1
    BY <2>1, <2>2, LegPushed
  <2> HIDE DEF p
  <2> QED
    BY <2>3, <2>4, <2>5 DEF OneLeg
<1> QED
  BY <1>1, <1>2

LEMMA Noted ==
    ASSUME NEW r \in Record, NEW id \in {0, 1}
    PROVE  LET n == note_exchange_id(r, id) IN
           n \in Record /\ n.state = r.state /\ n.filled = r.filled /\ (OneLeg(r) => OneLeg(n))
<1>1. id \in Nat
  OBVIOUS
<1> QED
  BY <1>1, NoteExchangeId, LegNoted

LEMMA LegAmended ==
    ASSUME NEW r \in Record, OneLeg(r), NEW id \in {0, 1}
    PROVE  OneLeg(append_amend_leg(r, id))
<1>1. CASE id = 0
  BY <1>1 DEF append_amend_leg
<1>2. CASE id = 1
  <2> DEFINE p == push_leg(r, 1)
             q == [p EXCEPT !.xid = 1]
  <2>1. p \in Record /\ \A i \in DOMAIN p.legs : p.legs[i].id = 1
    BY PushLeg, LegPushed
  <2>2. append_amend_leg(r, id) = q
    BY <1>2 DEF append_amend_leg
  <2> HIDE DEF p
  <2>3. q.xid = 1 /\ q.legs = p.legs
    BY <2>1 DEF Record
  <2> HIDE DEF q
  <2> QED
    BY <2>1, <2>2, <2>3 DEF OneLeg
<1> QED
  BY <1>1, <1>2

\* The one id of its reports is that of the current leg.
LEMMA LegDrives ==
    ASSUME NEW r \in Record, OneLeg(r), NEW report, report.xid = 1
    PROVE  DrivesLifecycle(r, report)
<1> DEFINE n == leg_index_of(r, 1)
<1>1. r.legs \in Seq(Leg) /\ Len(r.legs) \in Nat /\ DOMAIN r.legs = 1..Len(r.legs)
  BY LenProperties DEF Record
<1>2. n \in 0..Len(r.legs) /\ \A i \in DOMAIN r.legs : r.legs[i].id = 1 => i <= n
  BY LegIndex
<1> HIDE DEF n
<1>3. CASE r.legs = <<>>
  BY <1>3 DEF DrivesLifecycle
<1>4. CASE r.legs # <<>>
  <2>1. Len(r.legs) # 0
    BY <1>1, <1>4, EmptySeq
  <2>2. Len(r.legs) \in DOMAIN r.legs
    BY <1>1, <2>1
  <2>3. n = Len(r.legs)
    BY <1>1, <1>2, <2>2 DEF OneLeg
  <2> QED
    BY <2>3 DEF DrivesLifecycle, n
<1> QED
  BY <1>3, <1>4

LEMMA SoundAt ==
    ASSUME TypeOK, NEW i \in Ids, NEW r, orders' = [orders EXCEPT ![i] = r],
           SoundRecord(orders[i], r, venue[i])
    PROVE  SoundStep
<1>1. orders'[i] = r /\ \A id \in Ids \ {i} : orders'[id] = orders[id]
  BY DEF TypeOK
<1>2. \A id \in Ids \ {i} : SoundRecord(orders[id], orders'[id], venue[id])
  BY <1>1 DEF SoundRecord
<1> QED
  BY <1>1, <1>2 DEF SoundStep

LEMMA SoundSame ==
    ASSUME orders' = orders
    PROVE  SoundStep
BY DEF SoundStep, SoundRecord

\* A true observation is sound.
LEMMA ObservationSound ==
    ASSUME NEW o \in Record, NEW r \in Record, r.state = o.state, r.filled = o.filled,
           OneLeg(o) => OneLeg(r), NEW s, s.state \in VenueStates, s.filled \in Nat, NEW v \in VenueOrder, Backed(s, v),
           NEW qty \in Nat, NEW lifecycle \in BOOLEAN
    PROVE  SoundRecord(o, apply_observation(r, s.state, s.filled, qty, lifecycle), v)
<1> DEFINE a == apply_observation(r, s.state, s.filled, qty, lifecycle)
<1>1. /\ a.state \in {r.state, s.state}
      /\ a.filled \in {r.filled, s.filled}
      /\ a.xid = r.xid /\ a.legs = r.legs
  BY Observation DEF apply_transition, HigherFill
<1> HIDE DEF a
<1>2. s.state \in {"Live", "PartiallyFilled", "Rejected"} \/ s.state = v.state
  BY DEF Backed, VenueStates, States
<1>3. SoundRecord(o, a, v)
  <2>1. OneLeg(r) => OneLeg(a)
    BY <1>1 DEF OneLeg
  <2> QED
    BY <1>1, <1>2, <2>1 DEF SoundRecord, Backed
<1> QED
  BY <1>3 DEF a

LEMMA ApplyReportSound ==
    ASSUME TypeOK, NEW i \in Ids, NEW report \in Report, Backed(report, venue[i]), ApplyReport(i, report)
    PROVE  SoundStep
<1> DEFINE a == Arbitrated(orders[i], report)
           d == DrivesLifecycle(orders[i], report)
           r == apply_observation(a, report.state, report.filled, 0, d)
<1>1. orders[i] \in Record /\ venue[i] \in VenueOrder
  BY DEF TypeOK
<1>2. /\ a \in Record /\ a.state = orders[i].state /\ a.filled = orders[i].filled
      /\ OneLeg(orders[i]) => OneLeg(a)
  BY <1>1, ArbitratedKeeps, LegNoted DEF Arbitrated, Backed
<1>3. report.state \in VenueStates /\ report.filled \in Nat /\ d \in BOOLEAN
  BY DEF Report, DrivesLifecycle
<1>4. orders' = [orders EXCEPT ![i] = r]
  BY DEF ApplyReport, apply_arbitrated_report
<1> HIDE DEF a, d
<1>5. SoundRecord(orders[i], r, venue[i])
  BY <1>1, <1>2, <1>3, ObservationSound
<1> HIDE DEF r
<1> QED
  BY <1>4, <1>5, SoundAt

\* The id that a failing amend adopts is one of the reports that raced it.
LEMMA NewestUnknownIn ==
    ASSUME NEW r \in Record, NEW q \in Seq(Report), \A k \in DOMAIN q : q[k].xid = 1
    PROVE  NewestUnknown(r, q) \in {0, 1}
<1> DEFINE unknown == {i \in DOMAIN q : q[i].xid # 0 /\ leg_index_of(r, q[i].xid) = 0}
<1>1. Len(q) \in Nat /\ DOMAIN q = 1..Len(q)
  BY LenProperties
<1>2. CASE r.legs = <<>> \/ unknown = {}
  BY <1>2 DEF NewestUnknown
<1>3. CASE ~(r.legs = <<>> \/ unknown = {})
  <2>1. unknown \subseteq 0..Len(q) /\ unknown # {} /\ unknown \subseteq DOMAIN q
    BY <1>1, <1>3
  <2>2. NewestUnknown(r, q) = q[Max(unknown)].xid
    BY <1>3 DEF NewestUnknown
  <2> HIDE DEF unknown
  <2>3. Max(unknown) \in unknown
    BY <1>1, <2>1, MaxOfBounded
  <2> QED
    BY <2>1, <2>2, <2>3
<1> QED
  BY <1>2, <1>3

\* The two critical sections of place, cancel and amend, and the drain.
LEMMA CallerSound ==
    ASSUME Inv, Truth, NEW c \in Clients, Caller(c)
    PROVE  SoundStep
<1> USE OmsAssumption DEF OmsAssumption
<1>0. TypeOK /\ orders \in [Ids -> Record]
  BY DEF Inv, TypeOK
<1>1. ASSUME NEW i \in Ids, NEW r, orders' = [orders EXCEPT ![i] = r],
             r.state \in {orders[i].state, "Rejected"}, r.filled = orders[i].filled,
             OneLeg(orders[i]) => OneLeg(r)
      PROVE  SoundStep
  BY <1>0, <1>1, SoundAt DEF SoundRecord
<1>2. ASSUME NEW i \in Ids, NEW qty \in Quantities, PlaceRiskRejected(c, i, qty)
      PROVE  SoundStep
  <2> DEFINE r == [NewRecord(qty) EXCEPT !.state = "Rejected", !.rejection = "risk"]
  <2>1. r.state = "Rejected" /\ r.filled = 0 /\ r.xid = 0 /\ r.legs = <<>>
    BY DEF NewRecord, NoRecord
  <2>2. orders' = [orders EXCEPT ![i] = r] /\ ~known(orders[i])
    BY <1>2 DEF PlaceRiskRejected
  <2> HIDE DEF r
  <2>3. OneLeg(r)
    BY <2>1 DEF OneLeg
  <2> QED
    BY <1>0, <2>1, <2>2, <2>3, SoundAt DEF SoundRecord
<1>3. ASSUME NEW i \in Ids, NEW qty \in Quantities, PlaceStaged(c, i, qty)
      PROVE  SoundStep
  <2>1. /\ NewRecord(qty).state = "Pending" /\ NewRecord(qty).filled = 0
        /\ NewRecord(qty).xid = 0 /\ NewRecord(qty).legs = <<>>
    BY DEF NewRecord, NoRecord
  <2>2. OneLeg(NewRecord(qty))
    BY <2>1 DEF OneLeg
  <2> QED
    BY <1>0, <1>3, <2>1, <2>2, SoundAt DEF PlaceStaged, SoundRecord
<1>4. ASSUME NEW i \in Ids, NEW qty \in Quantities, PlaceNotPersisted(c, i, qty) \/ AmendSent(c, i, qty)
      PROVE  SoundStep
  BY <1>4, SoundSame DEF PlaceNotPersisted, AmendSent, registry
<1>5. ASSUME NEW i \in Ids, CancelSent(c, i)
      PROVE  SoundStep
  BY <1>5, SoundSame DEF CancelSent, registry
<1>6. CASE PlaceUnresolved(c) \/ CancelFailed(c)
  BY <1>6, SoundSame DEF PlaceUnresolved, CancelFailed, registry
<1> DEFINE i == call[c].id
           o == orders[i]
<1>7. ASSUME call[c].pc # "idle"
      PROVE  i \in Ids /\ o \in Record /\ call[c].ack \in Nat
  BY <1>7, AtKnownOrder
<1>14. call[c].pc = "call" => call[c].ack \in {0, 1}
  BY DEF Truth, AcksTrue
<1>8. CASE PlaceAccepted(c)
  <2> DEFINE n == note_exchange_id(o, call[c].ack)
             r == [n EXCEPT !.state = apply_transition(@, "Live")]
  <2>1. /\ orders' = [orders EXCEPT ![i] = r] /\ call[c].pc = "call" /\ call[c].ack # 0
    BY <1>8 DEF PlaceAccepted, Returns
  <2>2. n \in Record /\ n.state = o.state /\ n.filled = o.filled /\ (OneLeg(o) => OneLeg(n))
    BY <1>7, <1>14, <2>1, Noted
  <2> HIDE DEF n
  <2>3. r.state \in {o.state, "Live"} /\ r.filled = o.filled /\ r.xid = n.xid /\ r.legs = n.legs
    BY <2>2 DEF Record, apply_transition
  <2>4. venue[i].state # "none"
    BY <2>1 DEF Truth, AcksTrue
  <2> HIDE DEF r
  <2>5. SoundRecord(o, r, venue[i])
    BY <2>2, <2>3, <2>4 DEF SoundRecord, OneLeg
  <2> QED
    BY <1>0, <1>7, <2>1, <2>5, SoundAt
<1>9. CASE PlaceRefused(c)
  <2> DEFINE r == [o EXCEPT !.state = "Rejected", !.rejection = "venue"]
  <2>1. (orders' = [orders EXCEPT ![i] = r] \/ orders' = orders) /\ call[c].pc = "call"
    BY <1>9 DEF PlaceRefused, Returns
  <2>2. r.state = "Rejected" /\ r.filled = o.filled /\ r.xid = o.xid /\ r.legs = o.legs
    BY <1>7, <2>1 DEF Record
  <2> HIDE DEF r
  <2>3. OneLeg(o) => OneLeg(r)
    BY <2>2 DEF OneLeg
  <2> QED
    BY <1>1, <1>7, <2>1, <2>2, <2>3, SoundSame
<1>10. CASE CancelAccepted(c)
  <2> DEFINE n == note_exchange_id(o, venue[i].xid)
             r == [n EXCEPT !.state = "Canceled"]
  <2>1. /\ orders' = [orders EXCEPT ![i] = r] \/ orders' = [orders EXCEPT ![i] = n]
        /\ call[c].pc = "call" /\ venue[i].state = "Canceled"
    BY <1>10 DEF CancelAccepted, Returns
  <2>2. n \in Record /\ n.state = o.state /\ n.filled = o.filled /\ (OneLeg(o) => OneLeg(n))
    <3>1. venue[i].xid = 1
      BY <1>7, <2>1 DEF Truth, VenueShape
    <3> QED
      BY <1>7, <2>1, <3>1, Noted
  <2> HIDE DEF n
  <2>3. r.state = "Canceled" /\ r.filled = o.filled /\ r.xid = n.xid /\ r.legs = n.legs
    BY <2>2 DEF Record
  <2> HIDE DEF r
  <2>5. SoundRecord(o, r, venue[i])
    BY <2>1, <2>2, <2>3 DEF SoundRecord, OneLeg
  <2> QED
    BY <1>0, <1>1, <1>7, <2>1, <2>2, <2>5, SoundAt
<1>11. CASE AmendAccepted(c)
  <2> DEFINE n == [o EXCEPT !.qty = call[c].qty]
             r == append_amend_leg(n, call[c].ack)
  <2>1. orders' = [orders EXCEPT ![i] = r] /\ call[c].pc = "call"
    BY <1>11 DEF AmendAccepted, Returns
  <2>2. /\ n \in Record /\ n.state = o.state /\ n.filled = o.filled
        /\ n.xid = o.xid /\ n.legs = o.legs
    BY <1>7, <2>1, AtKnownOrder DEF Record
  <2> HIDE DEF n
  <2>4. OneLeg(o) => OneLeg(n)
    BY <2>2 DEF OneLeg
  <2>3. r.state = o.state /\ r.filled = o.filled /\ (OneLeg(o) => OneLeg(r))
    BY <1>7, <1>14, <2>1, <2>2, <2>4, AppendAmendLeg, LegAmended, SMTT(30)
  <2> HIDE DEF r
  <2> QED
    BY <1>1, <1>7, <2>1, <2>3
<1>12. CASE AmendFailed(c)
  <2> DEFINE n == NewestUnknown(o, raced[i])
             r == note_exchange_id(o, n)
  <2>1. orders' = [orders EXCEPT ![i] = r] /\ call[c].pc = "call"
    BY <1>0, <1>12 DEF AmendFailed, Returns
  <2>2. n \in {0, 1}
    <3>1. raced[i] \in Seq(Report)
      BY <1>7, <2>1 DEF Inv, TypeOK
    <3>2. \A k \in DOMAIN raced[i] : raced[i][k].xid = 1
      BY <1>7, <2>1 DEF Truth, ReportsTrue, Due, InBuffer, Backed
    <3> QED
      BY <1>7, <2>1, <3>1, <3>2, NewestUnknownIn
  <2> HIDE DEF n
  <2>3. r.state = o.state /\ r.filled = o.filled /\ (OneLeg(o) => OneLeg(r))
    BY <1>7, <2>1, <2>2, Noted
  <2> HIDE DEF r
  <2> QED
    BY <1>1, <1>7, <2>1, <2>3
<1>13. CASE Drain(c)
  <2>1. call[c].pc = "drain" /\ ApplyReport(i, Head(call[c].raced))
    BY <1>13 DEF Drain
  <2>2. call[c].raced \in Seq(Report) /\ call[c].raced # <<>>
    BY <2>1, AtKnownOrder DEF Inv, LockOwned
  <2>3. Head(call[c].raced) \in Report /\ Head(call[c].raced) \in DrainedBy(c)
    BY <2>2, SplitSeq DEF DrainedBy
  <2>4. Head(call[c].raced) \in Due(i)
    BY <2>1, <2>3 DEF Due, InDrain, Drainers
  <2>5. Backed(Head(call[c].raced), venue[i])
    BY <1>7, <2>1, <2>4 DEF Truth, ReportsTrue
  <2> QED
    BY <1>0, <1>7, <2>1, <2>3, <2>5, ApplyReportSound
<1> QED
  BY <1>2, <1>3, <1>4, <1>5, <1>6, <1>8, <1>9, <1>10, <1>11, <1>12, <1>13 DEF Caller

\* A report from the feed, a listing entry and a lookup.
LEMMA ReaderSound ==
    ASSUME Inv, Truth, Reader
    PROVE  SoundStep
<1>1. CASE ReportBuffered \/ ReportUnknown
  BY <1>1, SoundSame DEF ReportBuffered, ReportUnknown, registry
<1>2. CASE ReportArbitrated
  <2>1. feed \in Seq(FeedReport) /\ feed # <<>> /\ ApplyReport(Head(feed).id, Head(feed).report) /\ TypeOK
    BY <1>2 DEF Inv, TypeOK, ReportArbitrated
  <2>2. Head(feed) \in FeedReport /\ 1 \in DOMAIN feed /\ feed[1] = Head(feed)
    BY <2>1, SplitSeq
  <2>3. Head(feed).id \in Ids /\ Head(feed).report \in Report
    BY <2>2 DEF FeedReport
  <2>4. Head(feed).report \in Due(Head(feed).id)
    BY <2>2 DEF Due, InFeed
  <2>5. Backed(Head(feed).report, venue[Head(feed).id])
    BY <2>3, <2>4 DEF Truth, ReportsTrue
  <2> QED
    BY <2>1, <2>3, <2>5, ApplyReportSound
<1> QED
  BY <1>1, <1>2 DEF Reader

LEMMA ReconcilerSound ==
    ASSUME Inv, Truth, NEW t \in Recons, Reconciler(t)
    PROVE  SoundStep
<1>0. TypeOK /\ orders \in [Ids -> Record] /\ venue \in [Ids -> VenueOrder] /\ recon[t] \in Recon
  BY DEF Inv, TypeOK
<1>1. CASE ReconList(t) \/ ReconWorklist(t) \/ ReconAbsentLogged(t) \/ ReconDone(t)
  BY <1>1, SoundSame DEF ReconList, ReconWorklist, ReconAbsentLogged, ReconDone, registry
<1>2. ASSUME NEW id \in Ids, ReconLookup(t, id) \/ ReconLookupFails(t, id)
      PROVE  SoundStep
  BY <1>2, SoundSame DEF ReconLookup, ReconLookupFails, registry
<1>3. ASSUME NEW i \in Ids, NEW n \in Record, n.state = orders[i].state, n.filled = orders[i].filled,
             OneLeg(orders[i]) => OneLeg(n), NEW s \in Snapshot, Backed(s, venue[i]),
             orders' = [orders EXCEPT ![i] = apply_observation(n, s.state, s.filled, s.qty, TRUE)]
      PROVE  SoundStep
  <2>1. s.state \in VenueStates /\ s.filled \in Nat /\ s.qty \in Nat
    BY DEF Snapshot
  <2>2. SoundRecord(orders[i], apply_observation(n, s.state, s.filled, s.qty, TRUE), venue[i])
    BY <1>0, <1>3, <2>1, ObservationSound
  <2> QED
    BY <1>0, <1>3, <2>2, SoundAt
<1>4. ASSUME NEW e \in recon[t].listing,
             ListedSkipped(t, e) \/ ListedAdopted(t, e) \/ ListedRefreshed(t, e)
      PROVE  SoundStep
  <2>1. e.id \in Ids /\ e.snap \in Snapshot /\ orders[e.id] \in Record
    BY <1>0, <1>4 DEF Recon, ListingEntry
  <2>2. Backed(e.snap, venue[e.id])
    BY <1>4 DEF Truth, SnapshotsTrue
  <2>3. CASE ListedSkipped(t, e)
    BY <2>3, SoundSame DEF ListedSkipped
  <2>4. CASE ListedAdopted(t, e)
    <3> DEFINE r == record_from_snapshot(e.snap)
    <3>1. r.state = e.snap.state /\ r.filled = e.snap.filled
      BY DEF record_from_snapshot, NoRecord
    <3>5. OneLeg(r)
      <4> DEFINE l == <<[version |-> 1, id |-> 1]>>
      <4>1. r.xid = 1 /\ r.legs = l
        BY <2>2 DEF record_from_snapshot, NoRecord, Backed
      <4>2. \A k \in DOMAIN l : l[k].id = 1
        OBVIOUS
      <4> HIDE DEF l
      <4> QED
        BY <4>1, <4>2 DEF OneLeg
    <3>2. orders' = [orders EXCEPT ![e.id] = r]
      BY <2>4 DEF ListedAdopted
    <3>3. e.snap.state \in VenueStates /\ e.snap.filled \in Nat
      BY <2>1 DEF Snapshot
    <3> HIDE DEF r
    <3>4. SoundRecord(orders[e.id], r, venue[e.id])
      BY <2>2, <3>1, <3>3, <3>5 DEF SoundRecord, Backed, VenueStates, States
    <3> QED
      BY <1>0, <2>1, <3>2, <3>4, SoundAt
  <2>5. CASE ListedRefreshed(t, e)
    <3> DEFINE n == IF orders[e.id].xid = 0 THEN note_exchange_id(orders[e.id], e.snap.xid) ELSE orders[e.id]
    <3>1. /\ n \in Record /\ n.state = orders[e.id].state /\ n.filled = orders[e.id].filled
          /\ OneLeg(orders[e.id]) => OneLeg(n)
      BY <2>1, <2>2, Noted DEF Snapshot, Backed
    <3>2. orders' = [orders EXCEPT ![e.id] = apply_observation(n, e.snap.state, e.snap.filled, e.snap.qty, TRUE)]
      BY <2>5 DEF ListedRefreshed, Refreshed
    <3> HIDE DEF n
    <3> QED
      BY <1>3, <2>1, <2>2, <3>1, <3>2
  <2> QED
    BY <1>4, <2>3, <2>4, <2>5
<1> DEFINE i == recon[t].item
<1>5. CASE ReconFound(t)
  <2>1. PICK s \in recon[t].found : orders' = [orders EXCEPT ![i] = Looked(orders[i], s)]
    BY <1>5 DEF ReconFound
  <2>2. recon[t].pc = "apply" /\ i \in Ids /\ s \in Snapshot /\ orders[i] \in Record
    BY <1>0, <1>5 DEF ReconFound, Recon, TypeOK
  <2>3. Backed(s, venue[i])
    BY <2>2 DEF Truth, SnapshotsTrue
  <2> DEFINE n == IF leg_index_of(orders[i], s.xid) = 0 THEN note_exchange_id(orders[i], s.xid) ELSE orders[i]
  <2>4. /\ n \in Record /\ n.state = orders[i].state /\ n.filled = orders[i].filled
        /\ OneLeg(orders[i]) => OneLeg(n)
    BY <2>2, <2>3, Noted DEF Snapshot, Backed
  <2>5. orders' = [orders EXCEPT ![i] = apply_observation(n, s.state, s.filled, s.qty, TRUE)]
    BY <2>1 DEF Looked
  <2> HIDE DEF n
  <2> QED
    BY <1>3, <2>2, <2>3, <2>4, <2>5
<1>6. CASE ReconAbsent(t)
  <2> DEFINE r == [orders[i] EXCEPT !.state = "Rejected", !.rejection = "venue_absent"]
  <2>1. (orders' = [orders EXCEPT ![i] = r] \/ orders' = orders) /\ recon[t].pc = "apply"
    BY <1>6 DEF ReconAbsent
  <2>2. i \in Ids /\ orders[i] \in Record
    BY <1>0, <2>1 DEF TypeOK
  <2>3. /\ r.state = "Rejected" /\ r.filled = orders[i].filled
        /\ r.xid = orders[i].xid /\ r.legs = orders[i].legs
    BY <2>2 DEF Record
  <2> HIDE DEF r
  <2>4. SoundRecord(orders[i], r, venue[i])
    BY <2>3 DEF SoundRecord, OneLeg
  <2> QED
    BY <1>0, <2>1, <2>2, <2>4, SoundAt, SoundSame
<1> QED
  BY <1>1, <1>2, <1>4, <1>5, <1>6 DEF Reconciler

\* Every step but a restart leaves sound records.
LEMMA RecordsSound ==
    ASSUME Inv, Truth, Next, ~CrashRestart
    PROVE  SoundStep
<1>1. CASE Venue
  BY <1>1, SoundSame DEF Venue, VenueAnswers, LateArrival, VenueFill, VenueCancel, FeedLoss, registry
<1> QED
  BY <1>1, CallerSound, ReaderSound, ReconcilerSound DEF Next

-----------------------------------------------------------------------------
(* What is on record or at hand stays true *)

\* A sound record is a true one.
LEMMA SoundIsTrue ==
    ASSUME NEW o \in Record, NEW r \in Record, NEW v \in VenueOrder, VenueShape(v),
           TrueRecord(o, v), SoundRecord(o, r, v)
    PROVE  TrueRecord(r, v)
<1>1. o.filled \in Nat /\ r.filled \in Nat /\ v.filled \in Nat
  BY DEF Record, VenueOrder
<1> QED
  BY <1>1 DEF TrueRecord, SoundRecord, VenueShape

\* What replaying an event makes of an entry was in the entry or in the event.
LEMMA ReplaySources ==
    ASSUME NEW d \in Record, NEW r \in Record, known(r), NEW type \in EventTypes
    PROVE  /\ replay(d, type, r).state \in {d.state, r.state, "Pending", "Live", "Rejected"}
           /\ replay(d, type, r).filled \in {d.filled, r.filled, 0}
<1> DEFINE e == replay(d, type, r)
<1>1. CASE type \in {"place_submitted", "place_accepted", "adopted"}
  <2>1. e = ReplayPlaced(type, r)
    BY <1>1 DEF replay
  <2> HIDE DEF e
  <2>2. NewRecord(r.qty).state = "Pending" /\ NewRecord(r.qty).filled = 0
    BY NoRecordTyped DEF Record
  <2>3. /\ type = "place_submitted" => e = NewRecord(r.qty)
        /\ type = "place_accepted" => e.state = "Live" /\ e.filled = 0
        /\ type = "adopted" => e.state = r.state /\ e.filled = r.filled
    BY <1>1, <2>1, ReplayPlacedTyped
  <2>4. e.state \in {r.state, "Pending", "Live"} /\ e.filled \in {r.filled, 0}
    BY <1>1, <2>2, <2>3
  <2> QED
    BY <2>4 DEF e
<1>2. CASE type = "rejected"
  <2>1. e = ReplayRejected(d, r)
    BY <1>2 DEF replay
  <2> QED
    BY <2>1, ReplayRejectedTyped
<1>3. CASE type = "amended"
  <2>1. e = IF known(d) THEN ReplayAmended(d, r) ELSE d
    BY <1>3 DEF replay
  <2> QED
    BY <2>1, ReplayAmendedTyped
<1>4. CASE type = "state"
  <2>1. e = IF known(d) THEN ReplayState(d, r) ELSE d
    BY <1>4 DEF replay
  <2> HIDE DEF e
  <2> DEFINE seen == apply_observation(d, r.state, r.filled, 0, TRUE)
  <2>2. r.state \in States /\ r.filled \in Nat /\ r.xid \in Nat
    BY DEF Record, known
  <2>3. seen.state = apply_transition(d.state, r.state) /\ seen.filled = HigherFill(d, r.filled)
    BY DEF apply_observation, Record
  <2>4. CASE known(d)
    <3>1. seen \in Record
      BY <2>2, <2>4, ApplyObservation
    <3>2. e = IF d.xid = 0 THEN note_exchange_id(seen, r.xid) ELSE seen
      BY <2>1, <2>4 DEF ReplayState
    <3> HIDE DEF seen
    <3>3. e.state = seen.state /\ e.filled = seen.filled
      BY <2>2, <3>1, <3>2, NoteExchangeId
    <3> QED
      BY <2>3, <3>3 DEF e, apply_transition, HigherFill
  <2> QED
    BY <2>1, <2>4 DEF e
<1> QED
  BY <1>1, <1>2, <1>3, <1>4 DEF EventTypes

\* Registry and log stay true of the venue's orders.
LEMMA RecordsTrueKept ==
    ASSUME InPlace, Inv, Truth, Next
    PROVE  RecordsTrue'
<1>1. /\ orders \in [Ids -> Record] /\ disk \in [Ids -> Record] /\ venue \in [Ids -> VenueOrder]
      /\ orders' \in [Ids -> Record] /\ disk' \in [Ids -> Record] /\ venue' \in [Ids -> VenueOrder]
  BY RegistryKept, MarketTyped DEF Inv, TypeOK
<1>2. /\ \A id \in Ids : TrueRecord(orders[id], venue[id]) /\ TrueRecord(disk[id], venue[id])
      /\ \A id \in Ids : VenueShape(venue[id]) /\ Grows(venue[id], venue'[id])
  BY VenueGrows DEF Truth, RecordsTrue, Shaped
<1>3. \A r \in Record : r.filled \in Nat
  BY DEF Record
<1>4. ASSUME NEW id \in Ids, NEW r \in Record, TrueRecord(r, venue[id])
      PROVE  TrueRecord(r, venue'[id])
  BY <1>1, <1>2, <1>3, <1>4, TruthStays
<1>5. CASE CrashRestart
  <2>1. orders' = disk /\ disk' = disk
    BY <1>5 DEF CrashRestart
  <2> QED
    BY <1>1, <1>2, <1>4, <2>1 DEF RecordsTrue
<1>6. CASE ~CrashRestart
  <2>1. \A id \in Ids : TrueRecord(orders'[id], venue[id])
    BY <1>1, <1>2, <1>6, RecordsSound, SoundIsTrue DEF SoundStep
  <2>2. \A id \in Ids : TrueRecord(disk'[id], venue[id])
    <3>1. CASE UNCHANGED disk
      BY <1>2, <3>1
    <3>2. ASSUME NEW i \in Ids, NEW r \in Record, Moved(i, r), NEW type \in EventTypes, Logged(i, type, r)
          PROVE  \A id \in Ids : TrueRecord(disk'[id], venue[id])
      <4> DEFINE e == replay(disk[i], type, r)
      <4>1. disk' = [disk EXCEPT ![i] = e] /\ r = orders'[i] /\ known(r)
        BY <1>1, <3>2 DEF Logged, Moved, Advances
      <4>2. /\ e.state \in {disk[i].state, r.state, "Pending", "Live", "Rejected"}
            /\ e.filled \in {disk[i].filled, r.filled, 0}
        BY <1>1, <4>1, ReplaySources
      <4> HIDE DEF e
      <4>3. TrueRecord(disk[i], venue[i]) /\ TrueRecord(r, venue[i]) /\ venue[i].filled \in Nat
        BY <1>1, <1>2, <2>1, <4>1 DEF VenueOrder
      <4>4. TrueRecord(e, venue[i])
        BY <4>2, <4>3 DEF TrueRecord
      <4> QED
        BY <1>1, <1>2, <4>1, <4>4
    <3> QED
      BY <1>6, <3>1, <3>2, RegistryStep DEF RegistryMoves, Moved, Written, LogFails, log
  <2> QED
    BY <1>1, <1>4, <2>1, <2>2 DEF RecordsTrue
<1> QED
  BY <1>5, <1>6

\* Reports on their way stay true.
LEMMA ReportsTrueKept ==
    ASSUME InPlace, Inv, Truth, Next
    PROVE  ReportsTrue'
<1> SUFFICES ASSUME NEW id \in Ids, NEW r \in Due(id)'
             PROVE  Backed(r, venue'[id])
  BY DEF ReportsTrue
<1>1. /\ venue[id] \in VenueOrder /\ venue'[id] \in VenueOrder /\ Grows(venue[id], venue'[id])
      /\ Shaped /\ VenueShape(venue'[id])
  BY MarketTyped, VenueGrows DEF Inv, TypeOK, Truth, Shaped
<1>2. CASE r \in Due(id)
  <2>1. Backed(r, venue[id])
    BY <1>2 DEF Truth, ReportsTrue
  <2>2. r.filled \in Nat
    BY <1>2, DueTyped DEF Report
  <2> QED
    BY <1>1, <2>1, <2>2, TruthStays
<1>3. CASE venue'[id].state # "none" /\ r = NewsOf(id)'
  <2>1. r.state = venue'[id].state /\ r.filled = venue'[id].filled /\ r.xid = venue'[id].xid
    BY <1>3 DEF NewsOf, ReportOf
  <2>2. venue'[id].filled \in Nat
    BY <1>1 DEF VenueOrder
  <2> QED
    BY <1>1, <1>3, <2>1, <2>2 DEF Backed, VenueShape
<1> QED
  BY <1>1, <1>2, <1>3, ReportsTravel

\* A call that the venue executes is acknowledged with its order's id.
LEMMA AnswerFacts ==
    ASSUME InPlace, Inv, Shaped, NEW c \in Clients, VenueAnswers(c)
    PROVE  /\ call[c].pc = "call" /\ call'[c].pc = "call" /\ call'[c].op = call[c].op
           /\ call'[c].id = call[c].id /\ call[c].id \in Ids
           /\ call'[c].ack = 1 /\ venue'[call[c].id].state # "none"
           /\ call[c].op = "cancel" => venue'[call[c].id].state = "Canceled"
           /\ call[c].op # "place" => venue[call[c].id].state # "none"
           /\ \A d \in Clients \ {c} : call'[d] = call[d]
<1>1. TypeOK /\ call \in [Clients -> Call] /\ venue \in [Ids -> VenueOrder]
  BY DEF Inv, TypeOK
<1>2. PICK id : id = call[c].id
  OBVIOUS
<1>3. id \in Ids /\ call[c].qty \in Nat /\ call[c].pc = "call"
  BY <1>2, AtKnownOrder DEF VenueAnswers
<1>4. PICK v : /\ VenueMoved(id, v)
               /\ call[c].op = "cancel" => v.state = "Canceled"
               /\ call[c].op # "place" => venue[id].state # "none"
  BY <1>1, <1>2, <1>3, ExecutesMoves DEF VenueAnswers
<1>5. venue'[id] = v /\ v.state # "none" /\ v.xid = 1
  BY <1>1, <1>3, <1>4 DEF VenueMoved, VenueMoves, VenueShape
<1>6. call' = [call EXCEPT ![c].ack = 1]
  BY <1>2, <1>5 DEF VenueAnswers
<1>7. /\ call'[c].pc = call[c].pc /\ call'[c].op = call[c].op /\ call'[c].id = call[c].id
      /\ call'[c].ack = 1 /\ \A d \in Clients \ {c} : call'[d] = call[d]
  BY <1>1, <1>6 DEF Call
<1> QED
  BY <1>2, <1>3, <1>4, <1>5, <1>7

\* The answers of open calls stay true.
LEMMA AcksTrueKept ==
    ASSUME InPlace, Inv, Truth, Next
    PROVE  AcksTrue'
<1> SUFFICES ASSUME NEW c \in Clients, call'[c].pc = "call"
             PROVE  /\ call'[c].ack \in {0, 1}
                    /\ call'[c].ack # 0 => venue'[call'[c].id].state # "none"
                    /\ call'[c].ack # 0 /\ call'[c].op = "cancel" => venue'[call'[c].id].state = "Canceled"
  BY DEF AcksTrue
<1>0. Shaped /\ \A id \in Ids : Grows(venue[id], venue'[id])
  BY VenueGrows DEF Truth, Shaped
<1>1. CASE call'[c] = call[c]
  <2>1. call[c].id \in Ids
    BY <1>1, AtKnownOrder
  <2> QED
    BY <1>0, <1>1, <2>1 DEF Truth, AcksTrue, Grows, is_terminal
<1>2. CASE Elsewhere
  BY <1>1, <1>2, CallsElsewhere
<1>3. ASSUME NEW d \in Clients, VenueAnswers(d)
      PROVE  call'[c] = call[c] \/ (c = d /\ VenueAnswers(c))
  BY <1>0, <1>3, AnswerFacts
<1>4. CASE VenueAnswers(c)
  BY <1>0, <1>4, AnswerFacts
<1>5. CASE UNCHANGED call
  BY <1>1, <1>5
<1> QED
  BY <1>0, <1>1, <1>2, <1>3, <1>4, <1>5, VenueStep

\* The snapshots of a reconciling thread are true of the present orders.
SnapshotsBacked(x) ==
    /\ \A e \in x.listing : Backed(e.snap, venue[e.id])
    /\ x.pc = "apply" => \A s \in x.found : Backed(s, venue[x.item])

LEMMA FreshSnapshot ==
    ASSUME TypeOK, Shaped, NEW id \in Ids, venue[id].state # "none"
    PROVE  Backed(SnapshotOf(id), venue[id])
<1>1. venue[id].filled \in Nat /\ VenueShape(venue[id])
  BY DEF TypeOK, VenueOrder, Shaped
<1> QED
  BY <1>1 DEF SnapshotOf, Backed, VenueShape

\* Each step of a reconciling thread leaves it with such snapshots.
LEMMA ReconcilerSnapshots ==
    ASSUME Inv, Truth, NEW t \in Recons, Reconciler(t)
    PROVE  \E x : recon' = [recon EXCEPT ![t] = x] /\ SnapshotsBacked(x)
<1> DEFINE y == recon[t]
<1>1. TypeOK /\ recon \in [Recons -> Recon] /\ y \in Recon /\ Shaped /\ SnapshotsBacked(y)
  BY DEF Inv, TypeOK, Truth, SnapshotsTrue, SnapshotsBacked, Shaped
<1>2. CASE ReconList(t)
  <2>1. PICK listing \in {OpenOrders, {}} :
          recon' = [recon EXCEPT ![t] = [IdleRecon EXCEPT !.pc = "listed", !.listing = listing]]
    BY <1>2 DEF ReconList
  <2> DEFINE x == [IdleRecon EXCEPT !.pc = "listed", !.listing = listing]
  <2>2. x.pc = "listed" /\ x.listing = listing
    BY DEF IdleRecon
  <2>3. ASSUME NEW e \in OpenOrders PROVE Backed(e.snap, venue[e.id])
    <3>1. PICK id \in Ids : Working(venue[id].state) /\ e = [id |-> id, snap |-> SnapshotOf(id)]
      BY <2>3 DEF OpenOrders
    <3>2. venue[id].state # "none" /\ e.id = id /\ e.snap = SnapshotOf(id)
      BY <3>1 DEF Working
    <3> QED
      BY <1>1, <3>2, FreshSnapshot
  <2>4. recon' = [recon EXCEPT ![t] = x]
    BY <2>1
  <2> HIDE DEF x
  <2>5. SnapshotsBacked(x)
    BY <2>1, <2>2, <2>3 DEF SnapshotsBacked
  <2> QED
    BY <2>4, <2>5
<1>3. ASSUME NEW e, Listed(t, e)
      PROVE  \E x : recon' = [recon EXCEPT ![t] = x] /\ SnapshotsBacked(x)
  <2> DEFINE x == [y EXCEPT !.listing = @ \ {e}]
  <2>1. recon' = [recon EXCEPT ![t] = x]
    BY <1>1, <1>3 DEF Listed
  <2>2. x.pc = y.pc /\ x.listing \subseteq y.listing /\ x.found = y.found /\ x.item = y.item
    BY <1>1 DEF Recon
  <2> HIDE DEF x
  <2>3. SnapshotsBacked(x)
    BY <1>1, <2>2 DEF SnapshotsBacked
  <2> QED
    BY <2>1, <2>3
<1>4. ASSUME NEW x, recon' = [recon EXCEPT ![t] = x], x.pc # "apply", x.listing = y.listing
      PROVE  \E z : recon' = [recon EXCEPT ![t] = z] /\ SnapshotsBacked(z)
  <2>1. SnapshotsBacked(x)
    BY <1>1, <1>4 DEF SnapshotsBacked
  <2> QED
    BY <1>4, <2>1
<1>5. CASE ReconWorklist(t)
  <2> DEFINE w == {id \in Ids \ flying : known(orders[id]) /\ ~is_terminal(orders[id].state)}
             x == [y EXCEPT !.pc = "lookup", !.work = w]
  <2>1. recon' = [recon EXCEPT ![t] = x]
    BY <1>1, <1>5 DEF ReconWorklist
  <2> HIDE DEF w
  <2>2. x.pc = "lookup" /\ x.listing = y.listing
    BY <1>1 DEF Recon
  <2> HIDE DEF x
  <2> QED
    BY <1>4, <2>1, <2>2
<1>6. ASSUME NEW id \in Ids, ReconLookup(t, id)
      PROVE  \E x : recon' = [recon EXCEPT ![t] = x] /\ SnapshotsBacked(x)
  <2> DEFINE f == IF venue[id].state = "none" THEN {} ELSE {SnapshotOf(id)}
             x == [y EXCEPT !.pc = "apply", !.work = @ \ {id}, !.item = id, !.found = f]
  <2>1. recon' = [recon EXCEPT ![t] = x]
    BY <1>1, <1>6 DEF ReconLookup
  <2>2. \A s \in f : Backed(s, venue[id])
    BY <1>1, FreshSnapshot
  <2> HIDE DEF f
  <2>3. x.pc = "apply" /\ x.listing = y.listing /\ x.item = id /\ x.found = f
    BY <1>1 DEF Recon
  <2> HIDE DEF x
  <2>4. SnapshotsBacked(x)
    BY <1>1, <2>2, <2>3 DEF SnapshotsBacked
  <2> QED
    BY <2>1, <2>4
<1>7. ASSUME NEW id \in Ids, ReconLookupFails(t, id)
      PROVE  \E x : recon' = [recon EXCEPT ![t] = x] /\ SnapshotsBacked(x)
  <2> DEFINE x == [y EXCEPT !.work = @ \ {id}]
  <2>1. recon' = [recon EXCEPT ![t] = x]
    BY <1>1, <1>7 DEF ReconLookupFails
  <2>2. x.pc = "lookup" /\ x.listing = y.listing
    BY <1>1, <1>7 DEF Recon, ReconLookupFails
  <2> HIDE DEF x
  <2> QED
    BY <1>4, <2>1, <2>2
<1>8. ASSUME NextItem(t)
      PROVE  \E x : recon' = [recon EXCEPT ![t] = x] /\ SnapshotsBacked(x)
  <2> DEFINE x == [y EXCEPT !.pc = "lookup", !.item = None, !.found = {}]
  <2>1. recon' = [recon EXCEPT ![t] = x]
    BY <1>1, <1>8 DEF NextItem
  <2>2. x.pc = "lookup" /\ x.listing = y.listing
    BY <1>1 DEF Recon
  <2> HIDE DEF x
  <2> QED
    BY <1>4, <2>1, <2>2
<1>9. ASSUME recon' = [recon EXCEPT ![t].pc = "absent"]
      PROVE  \E x : recon' = [recon EXCEPT ![t] = x] /\ SnapshotsBacked(x)
  <2> DEFINE x == [y EXCEPT !.pc = "absent"]
  <2>1. recon' = [recon EXCEPT ![t] = x]
    BY <1>1, <1>9
  <2>2. x.pc = "absent" /\ x.listing = y.listing
    BY <1>1 DEF Recon
  <2> HIDE DEF x
  <2> QED
    BY <1>4, <2>1, <2>2
<1>10. CASE ReconDone(t)
  <2>1. SnapshotsBacked(IdleRecon)
    BY DEF SnapshotsBacked, IdleRecon
  <2> QED
    BY <1>10, <2>1 DEF ReconDone
<1> QED
  BY <1>2, <1>3, <1>5, <1>6, <1>7, <1>8, <1>9, <1>10
     DEF Reconciler, ListedSkipped, ListedAdopted, ListedRefreshed, ReconFound, ReconAbsent,
         ReconAbsentLogged

LEMMA SnapshotsTrueKept ==
    ASSUME InPlace, Inv, Truth, Next
    PROVE  SnapshotsTrue'
<1>1. /\ recon \in [Recons -> Recon] /\ \A t \in Recons : recon'[t] \in Recon
      /\ \A t \in Recons : recon'[t].pc = "apply" => recon'[t].item \in Ids
  BY TypeKept DEF Inv, TypeOK
<1>2. /\ venue \in [Ids -> VenueOrder] /\ venue' \in [Ids -> VenueOrder]
      /\ \A id \in Ids : Grows(venue[id], venue'[id])
  BY VenueGrows, MarketTyped DEF Inv, TypeOK, Truth, Shaped
<1>3. \A t \in Recons : SnapshotsBacked(recon'[t])
  <2>1. ASSUME UNCHANGED recon
        PROVE  \A t \in Recons : SnapshotsBacked(recon'[t])
    BY <2>1 DEF Truth, SnapshotsTrue, SnapshotsBacked
  <2>2. ASSUME NEW u \in Recons, Reconciler(u)
        PROVE  \A t \in Recons : SnapshotsBacked(recon'[t])
    <3>1. PICK x : recon' = [recon EXCEPT ![u] = x] /\ SnapshotsBacked(x)
      BY <2>2, ReconcilerSnapshots
    <3>2. \A t \in Recons : SnapshotsBacked(recon[t])
      BY DEF Truth, SnapshotsTrue, SnapshotsBacked
    <3> QED
      BY <1>1, <3>1, <3>2
  <2>3. ASSUME NEW c \in Clients, Caller(c)
        PROVE  UNCHANGED recon
    BY <2>3 DEF Caller, PlaceRiskRejected, PlaceStaged, PlaceNotPersisted, AmendSent, CancelSent,
       PlaceAccepted, PlaceRefused, PlaceUnresolved, CancelAccepted, CancelFailed, AmendAccepted,
       AmendFailed, Drain
  <2>4. Reader \/ Venue => UNCHANGED recon
    BY DEF Reader, ReportBuffered, ReportUnknown, ReportArbitrated, Venue, VenueAnswers, LateArrival,
       VenueFill, VenueCancel, FeedLoss
  <2>5. CASE CrashRestart
    <3>1. \A t \in Recons : recon'[t] = IdleRecon
      BY <2>5 DEF CrashRestart
    <3> QED
      BY <3>1 DEF SnapshotsBacked, IdleRecon
  <2> QED
    BY <2>1, <2>2, <2>3, <2>4, <2>5 DEF Next
<1>4. ASSUME NEW t \in Recons, NEW e \in recon'[t].listing
      PROVE  Backed(e.snap, venue'[e.id])
  <2>1. e.id \in Ids /\ e.snap.filled \in Nat
    BY <1>1, <1>4 DEF Recon, ListingEntry, Snapshot
  <2>2. Backed(e.snap, venue[e.id])
    BY <1>3, <1>4 DEF SnapshotsBacked
  <2> QED
    BY <1>2, <2>1, <2>2, TruthStays
<1>5. ASSUME NEW t \in Recons, recon'[t].pc = "apply", NEW s \in recon'[t].found
      PROVE  Backed(s, venue'[recon'[t].item])
  <2>1. recon'[t].item \in Ids /\ s.filled \in Nat
    BY <1>1, <1>5 DEF Recon, Snapshot
  <2>2. Backed(s, venue[recon'[t].item])
    BY <1>3, <1>5 DEF SnapshotsBacked
  <2> QED
    BY <1>2, <2>1, <2>2, TruthStays
<1> QED
  BY <1>4, <1>5 DEF SnapshotsTrue

\* At the start there is nothing to be wrong about.
LEMMA TruthInit ==
    ASSUME Init
    PROVE  Truth
<1>1. PICK F \in SUBSET Foreign, qty \in [Foreign -> Quantities] :
        venue = [id \in Ids |-> IF id \in F THEN NewVenueOrder(qty[id]) ELSE NoVenueOrder]
  BY DEF Init
<1>2. /\ \A q : VenueShape(NewVenueOrder(q)) /\ NewVenueOrder(q).filled = 0
      /\ VenueShape(NoVenueOrder) /\ NoVenueOrder.filled = 0
  BY DEF VenueShape, NewVenueOrder, NoVenueOrder
<1>3. \A id \in Ids : VenueShape(venue[id]) /\ venue[id].filled = 0
  BY <1>1, <1>2
<1>4. \A id \in Ids : Due(id) = {}
  <2>1. feed = <<>> /\ (\A id \in Ids : raced[id] = <<>>) /\ \A c \in Clients : call[c] = IdleCall
    BY DEF Init
  <2>2. DOMAIN feed = {} /\ (\A id \in Ids : DOMAIN raced[id] = {}) /\ \A id \in Ids : Drainers(id) = {}
    BY <2>1, IdleTyped DEF Drainers
  <2> QED
    BY <2>2 DEF Due, InFeed, InBuffer, InDrain
<1>5. SnapshotsTrue
  BY DEF Init, SnapshotsTrue, IdleRecon
<1>6. RecordsTrue
  <2>1. \A id \in Ids : orders[id] = NoRecord /\ disk[id] = NoRecord
    BY DEF Init
  <2>2. NoRecord.state = "none" /\ NoRecord.filled = 0
    BY DEF NoRecord
  <2> QED
    BY <1>3, <2>1, <2>2 DEF RecordsTrue, TrueRecord
<1>7. AcksTrue
  BY IdleTyped DEF Init, AcksTrue
<1> QED
  BY <1>3, <1>4, <1>5, <1>6, <1>7 DEF Truth, ReportsTrue

\* Every step keeps what is on record or at hand true.
LEMMA TruthKept ==
    ASSUME InPlace, Inv, Truth, [Next]_vars
    PROVE  Truth'
<1>1. CASE Next
  BY <1>1, VenueGrows, ReportsTrueKept, SnapshotsTrueKept, RecordsTrueKept, AcksTrueKept DEF Truth, Shaped
<1>2. CASE UNCHANGED vars
  <2>1. UNCHANGED <<orders, disk, venue, feed, raced, call, recon>>
    BY <1>2 DEF vars, registry, log, market
  <2>2. \A id \in Ids : Due(id)' = Due(id)
    BY <2>1 DEF Due, InFeed, InBuffer, InDrain, Drainers, DrainedBy
  <2>3. ReportsTrue'
    BY <2>1, <2>2 DEF Truth, ReportsTrue
  <2>4. SnapshotsTrue' /\ RecordsTrue' /\ AcksTrue'
    BY <2>1 DEF Truth, SnapshotsTrue, RecordsTrue, AcksTrue
  <2> QED
    BY <2>1, <2>3, <2>4 DEF Truth
<1> QED
  BY <1>1, <1>2

-----------------------------------------------------------------------------
(* A cancel that was answered stands *)

CanceledTrue == canceled \subseteq Ids /\ \A id \in canceled : venue[id].state = "Canceled"

\* DELETE is answered 200 only for an order that the venue has canceled.
LEMMA CanceledTrueKept ==
    ASSUME InPlace, Inv, Truth, CanceledTrue, [RoutesNext]_<<vars, routeVars>>
    PROVE  CanceledTrue'
<1>1. ASSUME NEW id \in Ids, venue[id].state = "Canceled"
      PROVE  venue'[id].state = "Canceled"
  <2>1. CASE Next
    <3>1. Grows(venue[id], venue'[id])
      BY <2>1, VenueGrows DEF Truth, Shaped
    <3> QED
      BY <1>1, <3>1 DEF Grows, is_terminal
  <2>2. CASE UNCHANGED vars
    BY <1>1, <2>2 DEF vars, market
  <2> QED
    BY <2>1, <2>2, RoutesStep
<1>2. CASE UNCHANGED canceled
  BY <1>1, <1>2 DEF CanceledTrue
<1>3. ASSUME NEW id \in Ids, venue[id].state = "Canceled", TellCanceled(id)
      PROVE  CanceledTrue'
  BY <1>1, <1>3 DEF CanceledTrue, TellCanceled
<1>4. ASSUME NEW c \in Clients, DeleteAnswered(c)
      PROVE  CanceledTrue'
  <2>1. /\ call[c].pc = "call" /\ venue[call[c].id].state = "Canceled"
        /\ TellCanceled(call[c].id)
    BY <1>4 DEF DeleteAnswered, CancelAccepted, Returns
  <2>2. call[c].id \in Ids
    BY <2>1, AtKnownOrder
  <2> QED
    BY <1>3, <2>1, <2>2
<1>5. ASSUME NEW c \in Clients, NEW id \in Ids, DeleteRetried(c, id)
      PROVE  CanceledTrue'
  <2>1. venue[id].state = "Canceled"
    BY <1>5 DEF DeleteRetried, Truth, RecordsTrue, TrueRecord
  <2> QED
    BY <1>3, <1>5, <2>1 DEF DeleteRetried
<1>6. ASSUME NEW c \in Clients, PostAnswered(c)
      PROVE  UNCHANGED canceled
  BY <1>6 DEF PostAnswered, Tell
<1>7. ASSUME NEW c \in Clients, NEW id \in Ids, PostRetried(c, id)
      PROVE  UNCHANGED canceled
  BY <1>7 DEF PostRetried, Tell
<1>8. Aside \/ (\E q \in late : ArrivesLate(q)) => UNCHANGED canceled
  BY DEF Aside, ArrivesLate
<1> QED
  BY <1>2, <1>4, <1>5, <1>6, <1>7, <1>8 DEF RoutesNext, routeVars

\* When DELETE has been answered 200 (the first time, or on a retry from the
\* record) nothing more is executed for the order, on a venue that amends in
\* place: for any number of orders and threads, under lost acknowledgements,
\* late requests, lost reports, failing appends and restarts.
THEOREM CancelStands == ASSUME InPlace PROVE RoutesSpec => CanceledIsFinal
<1> DEFINE Step == \A id \in canceled : venue'[id].filled = venue[id].filled
                                          /\ venue'[id].prior = venue[id].prior
           IInv == Inv /\ Truth /\ CanceledTrue
<1>1. RoutesInit => IInv
  BY InitInv, TruthInit DEF RoutesInit, CanceledTrue
<1>2. IInv /\ [RoutesNext]_<<vars, routeVars>> => IInv'
  BY RoutesStep, NextInv, TruthKept, CanceledTrueKept
<1>3. ASSUME IInv, [RoutesNext]_<<vars, routeVars>>
      PROVE  [Step]_<<vars, routeVars>>
  <2> SUFFICES ASSUME NEW id \in canceled
               PROVE  venue'[id].filled = venue[id].filled /\ venue'[id].prior = venue[id].prior
    OBVIOUS
  <2>1. id \in Ids /\ venue[id].state = "Canceled"
    BY <1>3 DEF CanceledTrue
  <2>2. CASE Next
    <3>1. Grows(venue[id], venue'[id])
      BY <1>3, <2>1, <2>2, VenueGrows DEF Truth, Shaped
    <3> QED
      BY <2>1, <3>1 DEF Grows, is_terminal
  <2>3. CASE UNCHANGED vars
    BY <2>3 DEF vars, market
  <2> QED
    BY <1>3, <2>2, <2>3, RoutesStep
<1> HIDE DEF IInv
<1>4. RoutesSpec => [][Step]_<<vars, routeVars>>
  BY <1>1, <1>2, <1>3, PTL DEF RoutesSpec
<1> QED
  BY <1>4 DEF CanceledIsFinal

-----------------------------------------------------------------------------
(* Nothing is lost.  From here on the gateway starts with an empty venue,  *)
(* keeps its feed and does not restart; acknowledgements may get lost,     *)
(* requests come late, appends fail and orders end by themselves.          *)

Reliable == InPlace /\ Foreign = {} /\ "feed_loss" \notin Faults /\ MaxCrashes = 0

\* There is neither a restart nor a lost report.
LEMMA NoCrashKept ==
    ASSUME Inv, Reliable, NoCrash, Next
    PROVE  NoCrash' /\ ~CrashRestart /\ ~FeedLoss
<1>1. ~CrashRestart /\ ~FeedLoss
  BY DEF NoCrash, CrashRestart, FeedLoss, Reliable
<1>2. Reader => UNCHANGED crashesLeft
  BY DEF Reader, ReportBuffered, ReportUnknown, ReportArbitrated, others
<1>3. Venue => UNCHANGED crashesLeft
  BY VenueFrame DEF others
<1> QED
  BY <1>1, <1>2, <1>3, CallerFrame, ReconcilerFrame DEF Next, NoCrash

\* What the gateway has asked for, it knows.
Asked == LateKnown /\ VenueKnown /\ NoLatePlace

LEMMA AskedKept ==
    ASSUME Inv, Truth, InPlace, Asked, Next, ~CrashRestart
    PROVE  Asked'
<1>0. /\ TypeOK /\ Shaped /\ late \subseteq Request /\ venue \in [Ids -> VenueOrder]
      /\ \A q \in late : q.id \in Ids
  BY DEF Inv, TypeOK, Truth, Shaped, Request
<1>1. \A id \in Ids : known(orders[id]) => known(orders'[id])
  BY RegistryKept DEF Advances
<1>2. LateKnown'
  <2> SUFFICES ASSUME NEW q \in late' PROVE known(orders'[q.id])
    BY DEF LateKnown
  <2>1. CASE q \in late
    BY <1>0, <1>1, <2>1 DEF Asked, LateKnown
  <2>2. ASSUME NEW c \in Clients, call[c].pc = "call", q.id = call[c].id
        PROVE  known(orders'[q.id])
    BY <1>1, <2>2, AtKnownOrder
  <2> QED
    BY <2>1, <2>2, LateStep
<1>3. ASSUME NEW id \in Ids, venue[id].state = "none", venue'[id].state # "none"
      PROVE  \/ \E c \in Clients : VenueAnswers(c) /\ call[c].id = id
             \/ \E q \in late : q.op = "place" /\ q.id = id
  <2>1. PICK i \in Ids : \E v :
                 /\ VenueMoved(i, v)
                 /\ \/ \E c \in Clients : VenueAnswers(c) /\ call[c].id = i
                    \/ UNCHANGED call /\ (venue[i].state = "none" => \E q \in late : q.op = "place" /\ q.id = i)
    BY <1>0, <1>3, VenueStep
  <2>2. i = id
    BY <1>0, <1>3, <2>1 DEF VenueMoved, VenueMoves
  <2> QED
    BY <1>3, <2>1, <2>2
<1>4. VenueKnown'
  <2> SUFFICES ASSUME NEW id \in Ids, venue'[id].state # "none" PROVE known(orders'[id])
    BY DEF VenueKnown
  <2>1. CASE venue[id].state # "none"
    BY <1>1, <2>1 DEF Asked, VenueKnown
  <2>2. ASSUME NEW c \in Clients, VenueAnswers(c), call[c].id = id
        PROVE  known(orders'[id])
    BY <1>1, <2>2, AtKnownOrder DEF VenueAnswers
  <2>3. ASSUME NEW q \in late, q.id = id
        PROVE  known(orders'[id])
    BY <1>1, <2>3 DEF Asked, LateKnown
  <2> QED
    BY <1>3, <2>1, <2>2, <2>3
<1>5. NoLatePlace'
  <2> SUFFICES ASSUME NEW c \in Clients, PlaceOpen(c)'
               PROVE  /\ \A q \in late' : q.op = "place" => q.id # call'[c].id
                      /\ call'[c].ack = 0 => venue'[call'[c].id].state = "none"
    BY DEF NoLatePlace, PlaceOpen
  <2>1. CASE PlaceOpen(c) /\ call'[c].id = call[c].id /\ (call'[c].ack = 0 => call[c].ack = 0)
    <3>1. call[c].id \in Ids /\ call[c].pc = "call" /\ call'[c].pc = "call"
      BY <2>1, AtKnownOrder DEF PlaceOpen
    <3>2. /\ \A q \in late : q.op = "place" => q.id # call[c].id
          /\ call[c].ack = 0 => venue[call[c].id].state = "none"
      BY <2>1 DEF Asked, NoLatePlace
    <3>3. ASSUME NEW q \in late', q.op = "place", q.id = call[c].id PROVE FALSE
      <4>1. PICK d \in Clients : call[d].pc = "call" /\ call'[d].pc # "call" /\ q.id = call[d].id
        BY <3>2, <3>3, LateStep
      <4>2. d = c
        BY <2>1, <3>3, <4>1 DEF Inv, PlaceAlone
      <4> QED
        BY <3>1, <4>1, <4>2
    <3>4. ASSUME call'[c].ack = 0, venue'[call[c].id].state # "none" PROVE FALSE
      <4>1. venue[call[c].id].state = "none"
        BY <2>1, <3>2, <3>4
      <4>2. PICK d \in Clients : VenueAnswers(d) /\ call[d].id = call[c].id
        BY <1>3, <3>1, <3>2, <3>4, <4>1
      <4>3. d = c
        BY <2>1, <4>2 DEF Inv, PlaceAlone, VenueAnswers
      <4>4. call'[c].ack = 1
        BY <1>0, <4>2, <4>3, AnswerFacts
      <4> QED
        BY <3>4, <4>4
    <3> QED
      BY <2>1, <3>3, <3>4
  <2>2. ASSUME NEW id \in Ids, NEW qty \in Quantities, PlaceStaged(c, id, qty), call'[c].id = id
        PROVE  /\ \A q \in late' : q.op = "place" => q.id # call'[c].id
               /\ call'[c].ack = 0 => venue'[call'[c].id].state = "none"
    BY <2>2 DEF PlaceStaged, market, Asked, LateKnown, VenueKnown
  <2>3. CASE Elsewhere
    BY <2>1, <2>2, <2>3, CallsElsewhere DEF PlaceOpen
  <2>4. CASE UNCHANGED call
    BY <2>1, <2>4 DEF PlaceOpen
  <2>5. ASSUME NEW d \in Clients, VenueAnswers(d)
        PROVE  PlaceOpen(c) /\ call'[c].id = call[c].id /\ (call'[c].ack = 0 => call[c].ack = 0)
    BY <1>0, <2>5, AnswerFacts DEF PlaceOpen
  <2> QED
    BY <1>0, <2>1, <2>3, <2>4, <2>5, VenueStep
<1> QED
  BY <1>2, <1>4, <1>5 DEF Asked

\* A report that is due is not lost, unless an append of its order fails.
LEMMA NotLost ==
    ASSUME Inv, Truth, Asked, Reliable, NoCrash, Next,
           NEW id \in Ids \ unlogged', NEW r \in Due(id)
    PROVE  r \in Due(id)' \/ Applied(id, r)
<1>1. venue[id].state # "none"
  BY DEF Truth, ReportsTrue, Backed
<1>2. known(orders[id])
  BY <1>1 DEF Asked, VenueKnown
<1>3. ASSUME NEW c \in Clients, PlaceRefused(c), call[c].id = id PROVE FALSE
  BY <1>1, <1>3 DEF Asked, NoLatePlace, PlaceRefused, Returns, PlaceOpen
<1>4. ~Lost(id)
  BY <1>2, <1>3, NoCrashKept DEF Lost
<1> QED
  BY <1>4, ReportsTravel DEF Truth, Shaped, Reliable

\* Fills that are not on record are on their way.
LEMMA FillsDueKept ==
    ASSUME Inv, Truth, Asked, Reliable, NoCrash, FillsDue, Next
    PROVE  FillsDue'
<1> SUFFICES ASSUME NEW id \in Ids \ unlogged'
             PROVE  \/ orders'[id].filled = venue'[id].filled
                    \/ \E r \in Due(id)' : r.filled = venue'[id].filled
  BY DEF FillsDue
<1>1. InPlace /\ ~CrashRestart /\ id \notin unlogged /\ Shaped
  BY NoCrashKept, UnloggedGrows DEF Reliable, Truth, Shaped
<1>2. CASE venue'[id] # venue[id]
  <2>1. NewsOf(id)' \in Due(id)'
    BY <1>1, <1>2, ReportsTravel
  <2>2. NewsOf(id)'.filled = venue'[id].filled
    BY DEF NewsOf, ReportOf
  <2> QED
    BY <2>1, <2>2
<1>3. CASE venue'[id] = venue[id]
  <2>1. /\ orders[id].filled \in Nat /\ orders'[id].filled \in Nat /\ venue[id].filled \in Nat
        /\ orders'[id].filled <= venue[id].filled
    BY <1>1, <1>3, RegistryKept, RecordsTrueKept DEF Inv, TypeOK, Record, VenueOrder, RecordsTrue, TrueRecord
  <2>2. CASE orders[id].filled = venue[id].filled
    <3>1. orders'[id].filled >= orders[id].filled
      BY <1>1, <2>1, RegistryKept DEF Advances, Inv, BlankUnknown
    <3> QED
      BY <1>3, <2>1, <2>2, <3>1
  <2>3. ASSUME NEW r \in Due(id), r.filled = venue[id].filled
        PROVE  \/ orders'[id].filled = venue'[id].filled
               \/ \E s \in Due(id)' : s.filled = venue'[id].filled
    <3>1. r \in Report /\ r.filled \in Nat
      BY DueTyped DEF Report
    <3>2. CASE r \in Due(id)'
      BY <1>3, <2>3, <3>2
    <3>3. CASE ApplyReport(id, r)
      <4>1. orders'[id].filled = HigherFill(orders[id], r.filled)
        BY <3>1, <3>3, ReportApplied
      <4>2. orders'[id].filled >= r.filled
        BY <2>1, <3>1, <4>1 DEF HigherFill
      <4> QED
        BY <1>3, <2>1, <2>3, <4>2
    <3> QED
      BY <3>2, <3>3, NotLost DEF Applied
  <2> QED
    BY <1>1, <2>2, <2>3 DEF FillsDue
<1> QED
  BY <1>2, <1>3

Steady == Inv /\ Truth /\ Asked /\ NoCrash /\ FillsDue

LEMMA SteadyInit ==
    ASSUME Init, Reliable
    PROVE  Steady
<1>1. /\ late = {} /\ crashesLeft = 0
      /\ \A id \in Ids : orders[id] = NoRecord
      /\ \A c \in Clients : call[c] = IdleCall
  BY DEF Init, Reliable
<1>2. \A id \in Ids : venue[id] = NoVenueOrder
  BY DEF Init, Reliable
<1>3. NoRecord.filled = 0 /\ NoVenueOrder.filled = 0 /\ NoVenueOrder.state = "none"
  BY DEF NoRecord, NoVenueOrder
<1>4. Asked
  BY <1>1, <1>2, <1>3, IdleTyped DEF Asked, LateKnown, VenueKnown, NoLatePlace, PlaceOpen
<1> QED
  BY <1>1, <1>2, <1>3, <1>4, InitInv, TruthInit DEF Steady, NoCrash, FillsDue

LEMMA SteadyKept ==
    ASSUME Reliable, Steady, [Next]_vars
    PROVE  Steady'
<1>1. CASE Next
  BY <1>1, NextInv, TruthKept, NoCrashKept, AskedKept, FillsDueKept DEF Steady, Reliable
<1>2. CASE UNCHANGED vars
  <2>1. UNCHANGED <<orders, unlogged, venue, feed, raced, call, late, crashesLeft>>
    BY <1>2 DEF vars, registry, log, market, others
  <2>2. \A id \in Ids : Due(id)' = Due(id)
    BY <2>1 DEF Due, InFeed, InBuffer, InDrain, Drainers, DrainedBy
  <2>3. Asked' /\ NoCrash'
    BY <2>1 DEF Steady, Asked, LateKnown, VenueKnown, NoLatePlace, PlaceOpen, NoCrash
  <2>4. FillsDue'
    BY <2>1, <2>2 DEF Steady, FillsDue
  <2> QED
    BY <2>3, <2>4, NextInv, TruthKept DEF Steady, Reliable
<1> QED
  BY <1>1, <1>2

\* Once every call has returned and every report is delivered, the record of
\* an acknowledged order has every fill of the venue (apply_observation keeps
\* the higher count, drain_raced_reports gives back what raced a call): for
\* any number of orders and threads, on a venue that amends in place, with
\* lost acknowledgements, late requests and orders that end by themselves.
THEOREM AllFillsCounted == ASSUME Reliable PROVE Spec => []FillsCounted
<1>1. Init => Steady
  BY SteadyInit
<1>2. Steady /\ [Next]_vars => Steady'
  BY SteadyKept
<1>3. ASSUME Steady PROVE FillsCounted
  <2> SUFFICES ASSUME Quiet, NEW id \in Ids \ unlogged
               PROVE  orders[id].filled = venue[id].prior + venue[id].filled
    BY DEF FillsCounted
  <2>1. orders[id].filled = venue[id].filled
    BY <1>3, QuietDue DEF Steady, FillsDue
  <2>2. venue[id].prior = 0 /\ venue[id].filled \in Nat
    BY <1>3 DEF Steady, Inv, TypeOK, VenueOrder, Truth, VenueShape
  <2> QED
    BY <2>1, <2>2
<1> QED
  BY <1>1, <1>2, <1>3, PTL DEF Spec

-----------------------------------------------------------------------------
(* Queues *)

LEMMA LedAppend ==
    ASSUME NEW q \in Seq(Report), NEW e \in Report, Led(q),
           e.state = "Canceled" => \E j \in DOMAIN q : q[j].state = "Live"
    PROVE  Led(Append(q, e))
<1> DEFINE a == Append(q, e)
<1>1. /\ DOMAIN q = 1..Len(q) /\ Len(q) \in Nat /\ DOMAIN a = 1..(Len(q) + 1)
      /\ \A i \in 1..Len(q) : a[i] = q[i]
      /\ a[Len(q) + 1] = e
  BY AppendProperties, LenProperties
<1> HIDE DEF a
<1>2. \A j \in DOMAIN q : j \in DOMAIN a /\ a[j] = q[j] /\ j < Len(q) + 1
  BY <1>1
<1>3. \A i \in DOMAIN a : i \in DOMAIN q \/ (i = Len(q) + 1 /\ a[i] = e)
  BY <1>1
<1>4. Led(a)
  <2> SUFFICES ASSUME NEW i \in DOMAIN a, a[i].state = "Canceled"
               PROVE  \E j \in DOMAIN a : j < i /\ a[j].state = "Live"
    BY DEF Led
  <2>1. CASE i \in DOMAIN q
    <3>1. PICK j \in DOMAIN q : j < i /\ q[j].state = "Live"
      BY <1>2, <2>1 DEF Led
    <3> QED
      BY <1>2, <3>1
  <2>2. CASE i = Len(q) + 1 /\ a[i] = e
    <3>1. PICK j \in DOMAIN q : q[j].state = "Live"
      BY <2>2
    <3> QED
      BY <1>2, <2>2, <3>1
  <2> QED
    BY <1>3, <2>1, <2>2
<1> QED
  BY <1>4 DEF a

LEMMA LedTail ==
    ASSUME NEW q \in Seq(Report), q # <<>>, Led(q), Head(q).state # "Live"
    PROVE  Led(Tail(q))
<1> DEFINE b == Tail(q)
<1>1. /\ q[1] = Head(q)
      /\ \A i \in DOMAIN b : i \in Nat /\ i >= 1 /\ i + 1 \in DOMAIN q /\ b[i] = q[i + 1]
      /\ \A i \in DOMAIN q : i \in Nat /\ (i = 1 \/ (i - 1 \in DOMAIN b /\ b[i - 1] = q[i]))
  BY SplitSeq
<1> HIDE DEF b
<1>2. Led(b)
  <2> SUFFICES ASSUME NEW i \in DOMAIN b, b[i].state = "Canceled"
               PROVE  \E j \in DOMAIN b : j < i /\ b[j].state = "Live"
    BY DEF Led
  <2>1. i \in Nat /\ i + 1 \in DOMAIN q /\ q[i + 1].state = "Canceled"
    BY <1>1
  <2>2. PICK j \in DOMAIN q : j < i + 1 /\ q[j].state = "Live"
    BY <2>1 DEF Led
  <2>3. j # 1 /\ j \in Nat
    BY <1>1, <2>2
  <2>4. j - 1 \in DOMAIN b /\ b[j - 1] = q[j]
    BY <1>1, <2>2, <2>3
  <2>5. j - 1 < i
    BY <2>1, <2>2, <2>3
  <2> QED
    BY <2>2, <2>4, <2>5
<1> QED
  BY <1>2 DEF b

LEMMA FeedLedSame ==
    ASSUME NEW id, feed' = feed, FeedLed(id), LiveAtHand(id) => LiveAtHand(id)'
    PROVE  FeedLed(id)'
BY DEF FeedLed

LEMMA FeedLedAppend ==
    ASSUME feed \in Seq(FeedReport), NEW e \in FeedReport, feed' = Append(feed, e), NEW id, FeedLed(id),
           LiveAtHand(id) => LiveAtHand(id)',
           e.id = id /\ e.report.state = "Canceled" =>
               LiveAtHand(id) \/ \E r \in InFeed(id) : r.state = "Live"
    PROVE  FeedLed(id)'
<1>1. /\ DOMAIN feed = 1..Len(feed) /\ Len(feed) \in Nat /\ DOMAIN feed' = 1..(Len(feed) + 1)
      /\ \A i \in 1..Len(feed) : feed'[i] = feed[i]
      /\ feed'[Len(feed) + 1] = e
  BY AppendProperties, LenProperties
<1>2. \A j \in DOMAIN feed : j \in DOMAIN feed' /\ feed'[j] = feed[j] /\ j < Len(feed) + 1
  BY <1>1
<1>3. \A i \in DOMAIN feed' : i \in DOMAIN feed \/ (i = Len(feed) + 1 /\ feed'[i] = e)
  BY <1>1
<1> SUFFICES ASSUME NEW i \in DOMAIN feed', feed'[i].id = id, feed'[i].report.state = "Canceled",
                    ~LiveAtHand(id)'
             PROVE  \E j \in DOMAIN feed' : j < i /\ feed'[j].id = id /\ feed'[j].report.state = "Live"
  BY DEF FeedLed
<1>4. CASE i \in DOMAIN feed
  <2>1. PICK j \in DOMAIN feed : j < i /\ feed[j].id = id /\ feed[j].report.state = "Live"
    BY <1>2, <1>4 DEF FeedLed
  <2> QED
    BY <1>2, <2>1
<1>5. CASE i = Len(feed) + 1 /\ feed'[i] = e
  <2>1. PICK r \in InFeed(id) : r.state = "Live"
    BY <1>5
  <2>2. PICK j \in DOMAIN feed : feed[j].id = id /\ feed[j].report = r
    BY DEF InFeed
  <2> QED
    BY <1>2, <1>5, <2>1, <2>2
<1> QED
  BY <1>3, <1>4, <1>5

LEMMA FeedLedTail ==
    ASSUME feed \in Seq(FeedReport), feed # <<>>, feed' = Tail(feed), NEW id, FeedLed(id),
           LiveAtHand(id) => LiveAtHand(id)',
           Head(feed).id = id /\ Head(feed).report.state = "Live" => LiveAtHand(id)'
    PROVE  FeedLed(id)'
<1>1. /\ feed[1] = Head(feed)
      /\ \A i \in DOMAIN feed' : i \in Nat /\ i >= 1 /\ i + 1 \in DOMAIN feed /\ feed'[i] = feed[i + 1]
      /\ \A i \in DOMAIN feed : i \in Nat /\ (i = 1 \/ (i - 1 \in DOMAIN feed' /\ feed'[i - 1] = feed[i]))
  BY SplitSeq
<1> SUFFICES ASSUME NEW i \in DOMAIN feed', feed'[i].id = id, feed'[i].report.state = "Canceled",
                    ~LiveAtHand(id)'
             PROVE  \E j \in DOMAIN feed' : j < i /\ feed'[j].id = id /\ feed'[j].report.state = "Live"
  BY DEF FeedLed
<1>2. i \in Nat /\ i + 1 \in DOMAIN feed /\ feed[i + 1].id = id /\ feed[i + 1].report.state = "Canceled"
  BY <1>1
<1>3. PICK j \in DOMAIN feed : j < i + 1 /\ feed[j].id = id /\ feed[j].report.state = "Live"
  BY <1>2 DEF FeedLed
<1>4. j # 1 /\ j \in Nat
  BY <1>1, <1>3
<1>5. j - 1 \in DOMAIN feed' /\ feed'[j - 1] = feed[j]
  BY <1>1, <1>4
<1>6. j - 1 < i
  BY <1>2, <1>3, <1>4
<1> QED
  BY <1>3, <1>5, <1>6

\* The calls that drain hold a queue; the other threads hold none.
LEMMA DrainersFrame ==
    ASSUME NEW c \in Clients, call[c].pc # "drain", call'[c].pc # "drain",
           \A d \in Clients \ {c} : call'[d] = call[d], NEW id
    PROVE  Drainers(id)' = Drainers(id) /\ \A d \in Drainers(id) : call'[d].raced = call[d].raced
BY DEF Drainers

\* A step that leaves the queues of an order alone.
LEMMA QueuedSame ==
    ASSUME NEW id, Queued(id), feed' = feed, raced'[id] = raced[id], Drainers(id)' = Drainers(id),
           \A d \in Drainers(id) : call'[d].raced = call[d].raced
    PROVE  Queued(id)'
<1>1. InBuffer(id)' = InBuffer(id) /\ InDrain(id)' = InDrain(id)
  BY DEF InBuffer, InDrain, DrainedBy
<1>2. FeedLed(id)'
  BY <1>1, FeedLedSame DEF Queued, LiveAtHand
<1> QED
  BY <1>2 DEF Queued

-----------------------------------------------------------------------------
(* An order that ends on the venue ends in the registry *)

\* A report of an order with one exchange order id drives its lifecycle.
LEMMA AppliedDrives ==
    ASSUME Inv, Truth, OneLegged, NEW id \in Ids, NEW r \in Due(id), ApplyReport(id, r)
    PROVE  orders'[id].state = apply_transition(orders[id].state, r.state)
<1>1. r \in Report /\ r.xid = 1
  BY DueTyped DEF Truth, ReportsTrue, Backed
<1>2. DrivesLifecycle(orders[id], r)
  BY <1>1, LegDrives DEF Inv, TypeOK, OneLegged
<1> QED
  BY <1>1, <1>2, ReportApplied

\* Records have one leg, and a working record an order on the venue.
LEMMA RecordShapeKept ==
    ASSUME Inv, Truth, Reliable, NoCrash, ResolvedExists, OneLegged, Next
    PROVE  ResolvedExists' /\ OneLegged'
<1>1. ~CrashRestart /\ InPlace /\ Shaped
  BY NoCrashKept DEF Reliable, Truth, Shaped
<1>2. \A id \in Ids : SoundRecord(orders[id], orders'[id], venue[id]) /\ Grows(venue[id], venue'[id])
  BY <1>1, RecordsSound, VenueGrows DEF SoundStep
<1>3. OneLegged'
  BY <1>2 DEF OneLegged, SoundRecord
<1>4. ASSUME NEW id \in Ids, Working(orders'[id].state)
      PROVE  venue'[id].state # "none"
  <2>1. venue[id].state # "none"
    BY <1>2, <1>4 DEF SoundRecord, ResolvedExists, Working
  <2> QED
    BY <1>2, <2>1 DEF Grows
<1> QED
  BY <1>3, <1>4 DEF ResolvedExists

\* A Pending order was Pending, or is new and not on the venue.
LEMMA WasPending ==
    ASSUME Inv, Truth, Asked, Reliable, NoCrash, Next, NEW id \in Ids, orders'[id].state = "Pending"
    PROVE  \/ orders[id].state = "Pending"
           \/ venue'[id].state = "none"
<1>1. ~CrashRestart /\ InPlace /\ Shaped
  BY NoCrashKept DEF Reliable, Truth, Shaped
<1>2. CASE known(orders[id])
  <2>1. orders'[id].state = orders[id].state \/ can_transition(orders[id].state, orders'[id].state)
    BY <1>1, <1>2, RegistryKept DEF Advances
  <2> QED
    BY <2>1 DEF can_transition, LegalTransitions
<1>3. CASE ~known(orders[id])
  <2>1. venue[id].state = "none" /\ orders' # orders
    BY <1>3 DEF Asked, VenueKnown, known
  <2>2. venue' = venue
    BY <1>1, <2>1, VenueStep DEF registry
  <2> QED
    BY <2>1, <2>2
<1> QED
  BY <1>2, <1>3

\* The acknowledgement of a Pending order on the venue is on its way.
LEMMA LiveDueKept ==
    ASSUME Inv, Truth, Asked, Reliable, NoCrash, OneLegged, LiveDue, Next
    PROVE  LiveDue'
<1> SUFFICES ASSUME NEW id \in Ids \ unlogged', venue'[id].state # "none", orders'[id].state = "Pending"
             PROVE  \E r \in Due(id)' : r.state = "Live"
  BY DEF LiveDue
<1>1. ~CrashRestart /\ InPlace /\ Shaped /\ id \notin unlogged
  BY NoCrashKept, UnloggedGrows DEF Reliable, Truth, Shaped
<1>2. orders[id].state = "Pending"
  BY WasPending
<1>3. CASE venue[id].state = "none"
  <2>1. venue'[id].state = "Live"
    BY <1>1, <1>3, VenueGrows DEF Grows
  <2>2. NewsOf(id)' \in Due(id)' /\ NewsOf(id)'.state = "Live"
    BY <1>1, <1>3, <2>1, ReportsTravel DEF NewsOf, ReportOf
  <2> QED
    BY <2>2
<1>4. CASE venue[id].state # "none"
  <2>1. PICK r \in Due(id) : r.state = "Live"
    BY <1>1, <1>2, <1>4 DEF LiveDue
  <2>2. ~ApplyReport(id, r)
    BY <1>2, <2>1, AppliedDrives DEF apply_transition, can_transition, LegalTransitions, States
  <2> QED
    BY <2>1, <2>2, NotLost DEF Applied
<1> QED
  BY <1>3, <1>4

\* A cancel is not applied to a Pending order.
LEMMA NotApplied ==
    ASSUME Inv, NEW id \in Ids, Queued(id), NEW r, Applied(id, r)
    PROVE  r.state # "Canceled"
<1>1. CASE ReportArbitrated /\ Head(feed).id = id /\ Head(feed).report = r
  <2>1. feed \in Seq(FeedReport) /\ feed # <<>> /\ lock = None /\ id \notin flying
    BY <1>1 DEF Inv, TypeOK, ReportArbitrated
  <2>2. 1 \in DOMAIN feed /\ feed[1] = Head(feed) /\ \A j \in DOMAIN feed : ~(j < 1)
    <3>1. 1 \in DOMAIN feed /\ feed[1] = Head(feed)
      BY <2>1, SplitSeq
    <3>2. DOMAIN feed = 1..Len(feed) /\ Len(feed) \in Nat
      BY <2>1, LenProperties
    <3> QED
      BY <3>1, <3>2
  <2>3. InBuffer(id) = {}
    <3>1. raced[id] = <<>>
      BY <2>1 DEF Inv, OneOpenCall
    <3>2. DOMAIN raced[id] = {}
      BY <3>1
    <3> QED
      BY <3>2 DEF InBuffer
  <2>4. InDrain(id) = {}
    <3>1. Drainers(id) = {}
      BY <2>1, OmsAssumption DEF Drainers, Inv, LockOwned, OmsAssumption, Threads
    <3> QED
      BY <3>1 DEF InDrain
  <2> QED
    BY <1>1, <2>2, <2>3, <2>4 DEF Queued, FeedLed, LiveAtHand
<1>2. ASSUME NEW c \in Clients, Drain(c), call[c].id = id, Head(call[c].raced) = r
      PROVE  r.state # "Canceled"
  <2>1. call[c].raced \in Seq(Report) /\ call[c].raced # <<>> /\ c \in Drainers(id)
    BY <1>2, AtKnownOrder DEF Drain, Inv, LockOwned, Drainers
  <2> DEFINE q == call[c].raced
  <2>2. Led(q) /\ q \in Seq(Report) /\ q # <<>> /\ Head(q) = r
    BY <1>2, <2>1 DEF Queued
  <2> HIDE DEF q
  <2>3. 1 \in DOMAIN q /\ q[1] = r
    BY <2>2, SplitSeq
  <2>4. DOMAIN q = 1..Len(q) /\ Len(q) \in Nat
    BY <2>2, LenProperties
  <2>5. \A j \in DOMAIN q : ~(j < 1)
    BY <2>4
  <2> QED
    BY <2>2, <2>3, <2>5 DEF Led
<1> QED
  BY <1>1, <1>2 DEF Applied

\* The end of an order is on record or on its way.
LEMMA EndDueKept ==
    ASSUME Inv, Truth, Asked, Reliable, NoCrash, OneLegged, Sequenced, EndDue, Next
    PROVE  EndDue'
<1> SUFFICES ASSUME NEW id \in Ids \ unlogged', is_terminal(venue'[id].state)
             PROVE  \/ orders'[id].state \in {venue'[id].state, "Rejected"}
                    \/ \E r \in Due(id)' : r.state = venue'[id].state
  BY DEF EndDue
<1>1. ~CrashRestart /\ InPlace /\ Shaped /\ id \notin unlogged
  BY NoCrashKept, UnloggedGrows DEF Reliable, Truth, Shaped
<1>2. CASE venue'[id] # venue[id]
  <2>1. NewsOf(id)' \in Due(id)' /\ NewsOf(id)'.state = venue'[id].state
    BY <1>1, <1>2, ReportsTravel DEF NewsOf, ReportOf
  <2> QED
    BY <2>1
<1>3. CASE venue'[id] = venue[id]
  <2>1. venue[id].state \in {"Filled", "Canceled"} /\ known(orders[id])
    BY <1>1, <1>3 DEF Shaped, VenueShape, is_terminal, Asked, VenueKnown
  <2>2. orders'[id].state = orders[id].state \/ can_transition(orders[id].state, orders'[id].state)
    BY <1>1, <2>1, RegistryKept DEF Advances
  <2>3. CASE orders[id].state \in {venue[id].state, "Rejected"}
    BY <1>3, <2>1, <2>2, <2>3 DEF can_transition, LegalTransitions
  <2>4. ASSUME NEW r \in Due(id), r.state = venue[id].state
        PROVE  \/ orders'[id].state \in {venue[id].state, "Rejected"}
               \/ \E s \in Due(id)' : s.state = venue[id].state
    <3>1. CASE r \in Due(id)'
      BY <2>4, <3>1
    <3>2. CASE Applied(id, r)
      <4>1. orders'[id].state = apply_transition(orders[id].state, r.state)
        BY <3>2, AppliedDrives DEF Applied
      <4>2. orders[id].state \in States /\ TrueRecord(orders[id], venue[id])
        BY <2>1 DEF Inv, TypeOK, Record, known, Truth, RecordsTrue
      <4>3. CASE orders[id].state \in {"Filled", "Canceled", "Rejected"}
        BY <2>3, <4>2, <4>3, <1>3 DEF TrueRecord
      <4>4. CASE orders[id].state \in {"Live", "PartiallyFilled"}
        BY <2>1, <2>4, <4>1, <4>4 DEF apply_transition, can_transition, LegalTransitions, States
      <4>5. CASE orders[id].state = "Pending" /\ r.state = "Filled"
        BY <2>4, <4>1, <4>5 DEF apply_transition, can_transition, LegalTransitions, States
      <4>6. CASE orders[id].state = "Pending" /\ r.state = "Canceled"
        <5>1. Queued(id)
          BY <1>1, <4>6 DEF Sequenced
        <5> QED
          BY <3>2, <4>6, <5>1, NotApplied
      <4> QED
        BY <2>1, <2>4, <4>2, <4>3, <4>4, <4>5, <4>6 DEF States
    <3> QED
      BY <3>1, <3>2, NotLost
  <2> QED
    BY <1>1, <1>3, <2>3, <2>4 DEF EndDue
<1> QED
  BY <1>2, <1>3

\* The acknowledgement takes an order out of Pending.
LEMMA LiveApplied ==
    ASSUME Inv, Truth, OneLegged, NEW id \in Ids, NEW r \in Due(id), ApplyReport(id, r),
           orders[id].state = "Pending", orders'[id].state = "Pending"
    PROVE  r.state # "Live"
BY AppliedDrives DEF apply_transition, can_transition, LegalTransitions, States

\* The queues of an order that stays Pending, step by step: a drain, ...
LEMMA DrainQueued ==
    ASSUME Inv, Truth, OneLegged, NEW id \in Ids, NEW c \in Clients, Drain(c), Queued(id),
           orders[id].state = "Pending", orders'[id].state = "Pending"
    PROVE  Queued(id)'
<1>0. PICK x : x = call[c].id
  OBVIOUS
<1> DEFINE q == call[c].raced
<1>1. x \in Ids /\ q \in Seq(Report) /\ q # <<>> /\ TypeOK /\ call[c].pc = "drain"
  BY <1>0, AtKnownOrder DEF Inv, Drain, LockOwned
<1>2. Tail(q) \in Seq(Report) /\ Head(q) \in DrainedBy(c) /\ Settle(c, Tail(q)) /\ ApplyReport(x, Head(q))
  <2>1. Tail(q) \in Seq(Report) /\ 1 \in DOMAIN q /\ q[1] = Head(q)
    BY <1>1, SplitSeq
  <2> QED
    BY <1>0, <2>1 DEF Drain, DrainedBy
<1>3. x = id => c \in Drainers(id) /\ Led(q) /\ Head(q).state # "Live"
  <2>1. x = id => c \in Drainers(id) /\ Led(q)
    BY <1>0, <1>1 DEF Drainers, Queued
  <2>2. x = id => Head(q) \in Due(id)
    BY <1>2, <2>1 DEF Due, InDrain
  <2> QED
    BY <1>2, <2>1, <2>2, LiveApplied
<1>4. UNCHANGED <<raced, feed>>
  BY DEF Drain, market
<1>5. DrainedBy(c) = {q[i] : i \in DOMAIN q}
  BY DEF DrainedBy
<1> HIDE DEF q
<1>6. /\ \A d \in Clients \ {c} : call'[d] = call[d]
      /\ call'[c].pc = "drain" => call'[c].id = x /\ call'[c].raced = Tail(q)
      /\ call'[c].pc # "drain" => Tail(q) = <<>>
  BY <1>0, <1>1, <1>2, SettleFacts
<1>7. ASSUME NEW d \in Drainers(id)' PROVE Led(call'[d].raced)
  <2>1. CASE d = c
    <3>1. call'[c].raced = Tail(q) /\ x = id
      BY <1>6, <1>7, <2>1 DEF Drainers
    <3> QED
      BY <1>1, <1>3, <2>1, <3>1, LedTail
  <2>2. CASE d # c
    <3>1. d \in Drainers(id) /\ call'[d] = call[d]
      BY <1>6, <1>7, <2>2 DEF Drainers
    <3> QED
      BY <3>1 DEF Queued
  <2> QED
    BY <2>1, <2>2
<1>8. ASSUME NEW r \in InDrain(id), r.state = "Live" PROVE r \in InDrain(id)'
  <2>1. PICK d \in Drainers(id) : r \in DrainedBy(d)
    BY DEF InDrain
  <2>2. CASE d # c
    <3>1. d \in Drainers(id)' /\ DrainedBy(d)' = DrainedBy(d)
      BY <1>6, <2>1, <2>2 DEF Drainers, DrainedBy
    <3> QED
      BY <2>1, <3>1 DEF InDrain
  <2>3. CASE d = c
    <3>1. x = id
      BY <1>0, <2>1, <2>3 DEF Drainers
    <3>2. PICK i \in DOMAIN q : q[i] = r
      BY <1>5, <2>1, <2>3
    <3>3. q[1] = Head(q) /\ (i = 1 \/ (i - 1 \in DOMAIN Tail(q) /\ Tail(q)[i - 1] = q[i]))
      BY <1>1, SplitSeq
    <3>4. i - 1 \in DOMAIN Tail(q) /\ Tail(q)[i - 1] = r
      BY <1>3, <1>8, <3>1, <3>2, <3>3
    <3>5. call'[c].pc = "drain"
      <4>1. ASSUME Tail(q) = <<>> PROVE DOMAIN Tail(q) = {}
        BY <4>1
      <4> QED
        BY <1>6, <3>4, <4>1
    <3>6. c \in Drainers(id)' /\ call'[c].raced = Tail(q)
      BY <1>6, <3>1, <3>5 DEF Drainers
    <3>7. r \in DrainedBy(c)'
      BY <3>4, <3>6 DEF DrainedBy
    <3> QED
      BY <3>6, <3>7 DEF InDrain
  <2> QED
    BY <2>2, <2>3
<1>9. LiveAtHand(id) => LiveAtHand(id)'
  <2>1. InBuffer(id)' = InBuffer(id)
    BY <1>4 DEF InBuffer
  <2> QED
    BY <1>8, <2>1 DEF LiveAtHand
<1>10. FeedLed(id)'
  BY <1>4, <1>9, FeedLedSame DEF Queued
<1> QED
  BY <1>4, <1>7, <1>10 DEF Queued

\* ... any other caller, ...
LEMMA CallerQueued ==
    ASSUME Inv, Truth, Asked, OneLegged, NEW id \in Ids \ unlogged', NEW c \in Clients, Caller(c),
           Queued(id), orders[id].state = "Pending", orders'[id].state = "Pending",
           venue'[id].state # "none"
    PROVE  Queued(id)'
<1> USE OmsAssumption DEF OmsAssumption, Ops
<1>0. call \in [Clients -> Call] /\ TypeOK /\ feed' = feed /\ venue' = venue
  BY CallerFrame DEF Inv, TypeOK
<1>1. ASSUME call[c].pc # "drain", call'[c].pc # "drain", \A d \in Clients \ {c} : call'[d] = call[d],
             raced'[id] = raced[id]
      PROVE  Queued(id)'
  BY <1>0, <1>1, DrainersFrame, QueuedSame
<1>2. ASSUME NEW i \in Ids, NEW qty \in Quantities,
             PlaceRiskRejected(c, i, qty) \/ PlaceNotPersisted(c, i, qty)
      PROVE  Queued(id)'
  <2>1. UNCHANGED <<raced, call>>
    BY <1>2 DEF PlaceRiskRejected, PlaceNotPersisted, registry
  <2> QED
    BY <1>0, <2>1, QueuedSame DEF Drainers
<1>3. ASSUME NEW i \in Ids, NEW op \in Ops, NEW qty \in Nat, OpenCall(c, op, i, qty), call[c].pc = "idle",
             UNCHANGED raced \/ (i \notin flying /\ OpenRaced(i))
      PROVE  Queued(id)'
  <2>1. raced' = raced
    BY <1>3 DEF OpenRaced, Inv, TypeOK, OneOpenCall
  <2>2. call'[c].pc = "call" /\ \A d \in Clients \ {c} : call'[d] = call[d]
    BY <1>0, <1>3, OpenCallFacts
  <2> QED
    BY <1>1, <1>3, <2>1, <2>2
<1>4. ASSUME NEW i \in Ids, NEW qty \in Quantities, PlaceStaged(c, i, qty) \/ AmendSent(c, i, qty)
      PROVE  Queued(id)'
  <2>1. i \notin flying /\ qty \in Nat
    BY <1>4, FlyingKnown DEF PlaceStaged, AmendSent
  <2>2. /\ call[c].pc = "idle" /\ OpenRaced(i)
        /\ OpenCall(c, "place", i, qty) \/ OpenCall(c, "amend", i, qty)
    BY <1>4 DEF PlaceStaged, AmendSent, Enters
  <2> QED
    BY <1>3, <2>1, <2>2
<1>5. ASSUME NEW i \in Ids, CancelSent(c, i)
      PROVE  Queued(id)'
  <2>1. call[c].pc = "idle" /\ OpenCall(c, "cancel", i, 0) /\ UNCHANGED raced
    BY <1>5 DEF CancelSent, Enters, registry
  <2> QED
    BY <1>3, <2>1
<1>6. ASSUME call[c].pc = "call", Finish(c), CloseRaced(call[c].id) \/ UNCHANGED raced,
             id # call[c].id \/ UNCHANGED raced
      PROVE  Queued(id)'
  <2>1. <<>> \in Seq(Report) /\ call[c].id \in Ids /\ raced \in [Ids -> Seq(Report)]
    BY <1>6, AtKnownOrder DEF Inv, TypeOK
  <2>2. call'[c].pc = "idle" /\ \A d \in Clients \ {c} : call'[d] = call[d]
    BY <1>0, <1>6, <2>1, SettleFacts DEF Finish
  <2>3. raced'[id] = raced[id]
    BY <1>6, <2>1 DEF CloseRaced
  <2> QED
    BY <1>1, <1>6, <2>2, <2>3
<1>7. ASSUME call[c].pc = "call", Settle(c, raced[call[c].id]), CloseRaced(call[c].id)
      PROVE  Queued(id)'
  <2>0. PICK x : x = call[c].id
    OBVIOUS
  <2> DEFINE q == raced[x]
  <2>1. x \in Ids /\ raced \in [Ids -> Seq(Report)] /\ q \in Seq(Report) /\ Settle(c, q)
    BY <1>7, <2>0, AtKnownOrder DEF Inv, TypeOK
  <2>2. raced'[x] = <<>> /\ \A i \in Ids \ {x} : raced'[i] = raced[i]
    BY <1>7, <2>0, <2>1 DEF CloseRaced
  <2>3. x = id => Led(q)
    BY DEF Queued
  <2> HIDE DEF q
  <2>4. /\ \A d \in Clients \ {c} : call'[d] = call[d]
        /\ call'[c].pc = "drain" => call'[c].id = x /\ call'[c].raced = q
        /\ call'[c].pc # "drain" => q = <<>>
    BY <1>0, <2>0, <2>1, SettleFacts
  <2>5. Led(raced'[id])
    <3>1. CASE id = x
      <4>1. DOMAIN raced'[id] = {}
        BY <2>2, <3>1
      <4> QED
        BY <4>1 DEF Led
    <3>2. CASE id # x
      BY <2>2, <3>2 DEF Queued
    <3> QED
      BY <3>1, <3>2
  <2>6. ASSUME NEW d \in Drainers(id)' PROVE Led(call'[d].raced)
    BY <1>7, <2>3, <2>4, <2>6 DEF Drainers, Queued
  <2>7. Due(id)' = Due(id)
    BY <1>0, <1>7, SettleDue
  <2>8. LiveAtHand(id) => LiveAtHand(id)'
    <3>1. CASE id # x
      <4>1. InBuffer(id)' = InBuffer(id)
        BY <2>2, <3>1 DEF InBuffer
      <4>2. Drainers(id)' = Drainers(id) /\ \A d \in Drainers(id) : d \in Clients \ {c}
        BY <1>7, <2>4, <3>1 DEF Drainers
      <4>3. \A d \in Drainers(id) : DrainedBy(d)' = DrainedBy(d)
        BY <2>4, <4>2 DEF DrainedBy
      <4> QED
        BY <4>1, <4>2, <4>3 DEF LiveAtHand, InDrain
    <3>2. CASE id = x
      <4>1. InBuffer(id) = {q[i] : i \in DOMAIN q}
        BY <3>2 DEF InBuffer, q
      <4>2. \A d \in Drainers(id) : d \in Drainers(id)' /\ DrainedBy(d)' = DrainedBy(d)
        BY <1>7, <2>4 DEF Drainers, DrainedBy
      <4>3. InDrain(id) \subseteq InDrain(id)'
        BY <4>2 DEF InDrain
      <4>4. CASE call'[c].pc = "drain"
        <5>1. c \in Drainers(id)' /\ DrainedBy(c)' = InBuffer(id)
          BY <2>4, <3>2, <4>1, <4>4 DEF Drainers, DrainedBy
        <5> QED
          BY <4>3, <5>1 DEF LiveAtHand, InDrain
      <4>5. CASE call'[c].pc # "drain"
        <5>1. DOMAIN q = {}
          BY <2>4, <4>5
        <5> QED
          BY <4>1, <4>3, <5>1 DEF LiveAtHand
      <4> QED
        BY <4>4, <4>5
    <3> QED
      BY <3>1, <3>2
  <2>9. FeedLed(id)'
    BY <1>0, <2>8, FeedLedSame DEF Queued
  <2> QED
    BY <2>5, <2>6, <2>9 DEF Queued
<1>8. CASE PlaceUnresolved(c) \/ AmendFailed(c)
  BY <1>7, <1>8 DEF PlaceUnresolved, AmendFailed, Returns
<1>9. CASE PlaceAccepted(c) \/ AmendAccepted(c)
  <2>1. /\ call[c].pc = "call" /\ CloseRaced(call[c].id)
        /\ Settle(c, raced[call[c].id]) \/ (LogFails(call[c].id) /\ Finish(c))
    BY <1>9 DEF PlaceAccepted, AmendAccepted, Returns
  <2>2. LogFails(call[c].id) => id # call[c].id
    BY DEF LogFails
  <2> QED
    BY <1>6, <1>7, <2>1, <2>2
<1>10. CASE PlaceRefused(c)
  <2>1. call[c].pc = "call" /\ CloseRaced(call[c].id) /\ Finish(c) /\ call[c].op = "place" /\ call[c].ack = 0
    BY <1>10 DEF PlaceRefused, Returns
  <2>2. id # call[c].id
    BY <1>0, <2>1 DEF Asked, NoLatePlace, PlaceOpen
  <2> QED
    BY <1>6, <2>1, <2>2
<1>11. CASE CancelAccepted(c) \/ CancelFailed(c)
  <2>1. call[c].pc = "call" /\ UNCHANGED raced /\ Finish(c)
    BY <1>11 DEF CancelAccepted, CancelFailed, Returns, registry
  <2> QED
    BY <1>6, <2>1
<1>12. CASE Drain(c)
  BY <1>12, DrainQueued
<1> QED
  BY <1>2, <1>4, <1>5, <1>8, <1>9, <1>10, <1>11, <1>12 DEF Caller

\* ... the feed thread, ...
LEMMA ReaderQueued ==
    ASSUME Inv, Truth, OneLegged, NEW id \in Ids, Reader, Queued(id),
           orders[id].state = "Pending", orders'[id].state = "Pending"
    PROVE  Queued(id)'
<1>1. /\ feed \in Seq(FeedReport) /\ feed # <<>> /\ feed' = Tail(feed) /\ lock = None /\ UNCHANGED call
      /\ raced \in [Ids -> Seq(Report)]
  BY DEF Inv, TypeOK, Reader, ReportBuffered, ReportUnknown, ReportArbitrated
<1>2. PICK h : h = Head(feed)
  OBVIOUS
<1>3. h.id \in Ids /\ h.report \in Report
  <2>1. h \in FeedReport
    BY <1>1, <1>2, SplitSeq
  <2> QED
    BY <2>1 DEF FeedReport
<1>4. Drainers(id) = {} /\ Drainers(id)' = {} /\ InDrain(id) = {} /\ InDrain(id)' = {}
  <2>1. Drainers(id) = {}
    BY <1>1, OmsAssumption DEF Drainers, Inv, LockOwned, OmsAssumption, Threads
  <2>2. Drainers(id)' = {}
    BY <1>1, <2>1 DEF Drainers
  <2> QED
    BY <2>1, <2>2 DEF InDrain
<1>5. ASSUME raced'[id] = raced[id], h.id = id => h.report.state # "Live"
      PROVE  Queued(id)'
  <2>1. LiveAtHand(id)' = LiveAtHand(id)
    BY <1>4, <1>5 DEF LiveAtHand, InBuffer
  <2>2. FeedLed(id)'
    BY <1>1, <1>2, <1>5, <2>1, FeedLedTail DEF Queued
  <2> QED
    BY <1>4, <1>5, <2>2 DEF Queued
<1>6. CASE ReportBuffered /\ h.id = id
  <2>1. raced' = [raced EXCEPT ![id] = Append(@, h.report)]
    BY <1>2, <1>6 DEF ReportBuffered
  <2>2. InBuffer(id)' = InBuffer(id) \cup {h.report}
    BY <1>1, <1>3, <2>1, BufferAppended
  <2>3. 1 \in DOMAIN feed /\ feed[1] = h /\ \A j \in DOMAIN feed : ~(j < 1)
    <3>1. 1 \in DOMAIN feed /\ feed[1] = h
      BY <1>1, <1>2, SplitSeq
    <3>2. DOMAIN feed = 1..Len(feed) /\ Len(feed) \in Nat
      BY <1>1, LenProperties
    <3> QED
      BY <3>1, <3>2
  <2>4. h.report.state = "Canceled" => LiveAtHand(id)
    BY <1>6, <2>3 DEF Queued, FeedLed
  <2>5. h.report.state = "Canceled" => \E j \in DOMAIN raced[id] : raced[id][j].state = "Live"
    BY <1>4, <2>4 DEF LiveAtHand, InBuffer
  <2>6. Led(Append(raced[id], h.report))
    BY <1>1, <1>3, <2>5, LedAppend DEF Queued
  <2>7. Led(raced'[id])
    BY <1>1, <2>1, <2>6
  <2>8. LiveAtHand(id) => LiveAtHand(id)'
    BY <1>4, <2>2 DEF LiveAtHand
  <2>9. h.report.state = "Live" => LiveAtHand(id)'
    BY <2>2 DEF LiveAtHand
  <2>10. FeedLed(id)'
    BY <1>1, <1>2, <2>8, <2>9, FeedLedTail DEF Queued
  <2> QED
    BY <1>4, <2>7, <2>10 DEF Queued
<1>7. CASE ReportBuffered /\ h.id # id
  <2>1. raced'[id] = raced[id]
    BY <1>1, <1>2, <1>7 DEF ReportBuffered
  <2> QED
    BY <1>5, <1>7, <2>1
<1>8. CASE ReportUnknown
  <2>1. raced'[id] = raced[id] /\ h.id # id
    BY <1>2, <1>8 DEF ReportUnknown, registry, known
  <2> QED
    BY <1>5, <2>1
<1>9. CASE ReportArbitrated
  <2>1. raced'[id] = raced[id] /\ ApplyReport(h.id, h.report)
    BY <1>2, <1>9 DEF ReportArbitrated
  <2>2. h.id = id => h.report \in Due(id)
    BY <1>1, <1>2, FeedTaken DEF Due
  <2>3. h.id = id => h.report.state # "Live"
    BY <2>1, <2>2, LiveApplied
  <2> QED
    BY <1>5, <2>1, <2>3
<1> QED
  BY <1>6, <1>7, <1>8, <1>9 DEF Reader

\* ... and the venue.
LEMMA VenueQueued ==
    ASSUME InPlace, Inv, Truth, LiveDue, NEW id \in Ids \ unlogged, Queued(id),
           orders[id].state = "Pending", NEW x \in Ids, NEW v, VenueMoved(x, v), UNCHANGED registry,
           UNCHANGED call \/ \E c \in Clients : VenueAnswers(c)
    PROVE  Queued(id)'
<1>1. /\ raced' = raced /\ feed \in Seq(FeedReport) /\ feed' = Append(feed, ReportOf(x, v))
      /\ venue \in [Ids -> VenueOrder] /\ v \in VenueOrder
  BY DEF registry, VenueMoved, VenueMoves, Inv, TypeOK
<1>2. PICK e : e = ReportOf(x, v)
  OBVIOUS
<1>3. e \in FeedReport /\ e.id = x /\ e.report.state = v.state
  <2>1. v.state \in VenueStates /\ v.filled \in Nat /\ v.xid \in Nat
    BY <1>1 DEF VenueMoved, VenueOrder
  <2> QED
    BY <1>2, <2>1 DEF ReportOf, FeedReport, Report
<1>4. Drainers(id)' = Drainers(id) /\ \A d \in Drainers(id) : call'[d].raced = call[d].raced
  <2>1. CASE UNCHANGED call
    BY <2>1 DEF Drainers
  <2>2. ASSUME NEW c \in Clients, VenueAnswers(c)
        PROVE  Drainers(id)' = Drainers(id) /\ \A d \in Drainers(id) : call'[d].raced = call[d].raced
    <3>1. call[c].pc = "call" /\ call'[c].pc = "call" /\ \A d \in Clients \ {c} : call'[d] = call[d]
      BY <2>2, AnswerFacts DEF Truth, Shaped
    <3> QED
      BY <3>1, DrainersFrame
  <2> QED
    BY <2>1, <2>2
<1>5. LiveAtHand(id)' = LiveAtHand(id)
  <2>1. InBuffer(id)' = InBuffer(id) /\ InDrain(id)' = InDrain(id)
    BY <1>1, <1>4 DEF InBuffer, InDrain, DrainedBy
  <2> QED
    BY <2>1 DEF LiveAtHand
<1>6. ASSUME e.id = id, e.report.state = "Canceled"
      PROVE  LiveAtHand(id) \/ \E r \in InFeed(id) : r.state = "Live"
  <2>1. venue[id].state # "none"
    BY <1>3, <1>6 DEF VenueMoved, Grows
  <2>2. PICK r \in Due(id) : r.state = "Live"
    BY <2>1 DEF LiveDue
  <2> QED
    BY <2>2 DEF Due, LiveAtHand
<1>7. FeedLed(id)'
  BY <1>1, <1>2, <1>3, <1>5, <1>6, FeedLedAppend DEF Queued
<1> QED
  BY <1>1, <1>4, <1>7 DEF Queued

\* A Pending order cannot become Canceled before it is acknowledged.
LEMMA SequencedKept ==
    ASSUME Inv, Truth, Asked, Reliable, NoCrash, OneLegged, LiveDue, Sequenced, Next
    PROVE  Sequenced'
<1> SUFFICES ASSUME NEW id \in Ids \ unlogged', orders'[id].state = "Pending"
             PROVE  Queued(id)'
  BY DEF Sequenced
<1>1. ~CrashRestart /\ ~FeedLoss /\ InPlace /\ Shaped /\ id \in Ids \ unlogged
  BY NoCrashKept, UnloggedGrows DEF Reliable, Truth, Shaped
<1>2. CASE venue'[id].state = "none"
  <2>1. Due(id)' = {}
    BY <1>1, <1>2, ReportsTrueKept DEF ReportsTrue, Backed
  <2>2. InFeed(id)' = {} /\ InBuffer(id)' = {} /\ InDrain(id)' = {}
    BY <2>1 DEF Due
  <2>3. DOMAIN raced'[id] = {} /\ \A i \in DOMAIN feed' : feed'[i].id # id
    BY <2>2 DEF InFeed, InBuffer
  <2>4. \A d \in Drainers(id)' : DOMAIN call'[d].raced = {}
    BY <2>2, SMTT(30) DEF InDrain, DrainedBy
  <2> QED
    BY <2>3, <2>4 DEF Queued, Led, FeedLed
<1>3. CASE venue'[id].state # "none"
  <2>1. orders[id].state = "Pending" /\ Queued(id)
    BY <1>1, <1>3, WasPending DEF Sequenced
  <2>2. ASSUME NEW c \in Clients, Caller(c) PROVE Queued(id)'
    BY <1>3, <2>1, <2>2, CallerQueued
  <2>3. CASE Reader
    BY <1>1, <2>1, <2>3, ReaderQueued
  <2>4. ASSUME NEW t \in Recons, Reconciler(t) PROVE Queued(id)'
    <3>1. UNCHANGED <<raced, feed, call>>
      BY <2>4, ReconcilerFrame DEF market
    <3> QED
      BY <2>1, <3>1, QueuedSame DEF Drainers
  <2>5. ASSUME NEW x \in Ids, NEW v, VenueMoved(x, v), UNCHANGED registry,
               UNCHANGED call \/ \E c \in Clients : VenueAnswers(c)
        PROVE  Queued(id)'
    BY <1>1, <2>1, <2>5, VenueQueued
  <2> QED
    BY <1>1, <2>2, <2>3, <2>4, <2>5, VenueStep DEF Elsewhere
<1> QED
  BY <1>2, <1>3

-----------------------------------------------------------------------------

Settled == Steady /\ ResolvedExists /\ OneLegged /\ LiveDue /\ Sequenced /\ EndDue

LEMMA SettledInit ==
    ASSUME Init, Reliable
    PROVE  Settled
<1>1. \A id \in Ids : orders[id] = NoRecord /\ venue[id] = NoVenueOrder
  BY DEF Init, Reliable
<1>2. /\ NoRecord.state = "none" /\ NoRecord.xid = 0 /\ NoRecord.legs = <<>>
      /\ NoVenueOrder.state = "none"
  BY DEF NoRecord, NoVenueOrder
<1>3. DOMAIN NoRecord.legs = {}
  BY <1>2
<1>4. ResolvedExists /\ LiveDue /\ Sequenced /\ EndDue
  BY <1>1, <1>2 DEF ResolvedExists, Working, LiveDue, Sequenced, EndDue, is_terminal
<1>5. OneLegged
  BY <1>1, <1>2, <1>3 DEF OneLegged, OneLeg
<1> QED
  BY <1>4, <1>5, SteadyInit DEF Settled

LEMMA SettledKept ==
    ASSUME Reliable, Settled, [Next]_vars
    PROVE  Settled'
<1>0. Steady' /\ Inv /\ Truth /\ Asked /\ NoCrash
  BY SteadyKept DEF Settled, Steady
<1>1. CASE Next
  BY <1>0, <1>1, RecordShapeKept, LiveDueKept, SequencedKept, EndDueKept DEF Settled
<1>2. CASE UNCHANGED vars
  <2>1. UNCHANGED <<orders, unlogged, venue, feed, raced, call>>
    BY <1>2 DEF vars, registry, log, market
  <2>2. ASSUME NEW id \in Ids
        PROVE  Due(id)' = Due(id) /\ (Queued(id) => Queued(id)')
    <3>1. Due(id)' = Due(id)
      BY <2>1 DEF Due, InFeed, InBuffer, InDrain, Drainers, DrainedBy
    <3>2. Queued(id) => Queued(id)'
      BY <2>1, QueuedSame DEF Drainers
    <3> QED
      BY <3>1, <3>2
  <2>3. ResolvedExists' /\ OneLegged'
    BY <2>1 DEF Settled, ResolvedExists, OneLegged
  <2>4. LiveDue' /\ Sequenced' /\ EndDue'
    BY <2>1, <2>2 DEF Settled, LiveDue, Sequenced, EndDue
  <2> QED
    BY <1>0, <2>3, <2>4 DEF Settled
<1> QED
  BY <1>1, <1>2

\* Once every call has returned and every report is delivered, an acknowledged
\* order is in the venue's state: no end that the venue has reported is lost to
\* or misjudged after a race with place, cancel, amend, a listing or a lookup
\* (on_execution_report, drain_raced_reports, apply_arbitrated_report).  For any
\* number of orders and threads, on a venue that amends in place.
THEOREM RegistryConverges == ASSUME Reliable PROVE Spec => []Converged
<1>1. Init => Settled
  BY SettledInit
<1>2. Settled /\ [Next]_vars => Settled'
  BY SettledKept
<1>3. ASSUME Settled PROVE Converged
  <2> SUFFICES ASSUME Quiet, NEW id \in Ids \ unlogged, Resolved(orders[id])
               PROVE  \/ orders[id].state = venue[id].state
                      \/ Working(orders[id].state) /\ Working(venue[id].state)
    BY DEF Converged
  <2>1. Due(id) = {}
    BY <1>3, QuietDue DEF Settled, Steady
  <2>2. orders[id].state \in {"Live", "PartiallyFilled", "Filled", "Canceled"}
    BY DEF Resolved, States
  <2>3. VenueShape(venue[id]) /\ TrueRecord(orders[id], venue[id])
    BY <1>3 DEF Settled, Steady, Truth, RecordsTrue
  <2>4. CASE orders[id].state \in {"Filled", "Canceled"}
    BY <2>3, <2>4 DEF TrueRecord
  <2>5. CASE orders[id].state \in {"Live", "PartiallyFilled"}
    <3>1. venue[id].state # "none"
      BY <1>3, <2>5 DEF Settled, ResolvedExists, Working
    <3>2. ~is_terminal(venue[id].state)
      BY <1>3, <2>1, <2>5, <3>1 DEF Settled, EndDue, is_terminal
    <3> QED
      BY <2>3, <2>5, <3>1, <3>2 DEF VenueShape, Working, is_terminal
  <2> QED
    BY <2>2, <2>4, <2>5
<1> QED
  BY <1>1, <1>2, <1>3, PTL DEF Spec

=============================================================================
