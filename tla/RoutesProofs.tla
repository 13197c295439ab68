---------------------------- MODULE RoutesProofs ----------------------------
(***************************************************************************)
(* What a client is told of a place stays true, for every number of orders *)
(* and threads, on both kinds of venue, under every fault and every bound. *)
(***************************************************************************)
EXTENDS Routes, OmsProofs

\* The routes add answers to the steps of the OMS and no step of their own.
LEMMA RoutesStep ==
    ASSUME [RoutesNext]_<<vars, routeVars>>
    PROVE  [Next]_vars
<1>1. ASSUME NEW c \in Clients, PostAnswered(c) PROVE Next
  BY <1>1 DEF PostAnswered, Caller, Next
<1>2. ASSUME NEW c \in Clients, DeleteAnswered(c) PROVE Next
  BY <1>2 DEF DeleteAnswered, Caller, Next
<1>3. ASSUME NEW c \in Clients, NEW id \in Ids, PostRetried(c, id) \/ DeleteRetried(c, id)
      PROVE  UNCHANGED vars
  BY <1>3 DEF PostRetried, DeleteRetried
<1>4. ASSUME NEW q \in late, ArrivesLate(q) PROVE Next
  BY <1>4 DEF ArrivesLate, Venue, Next
<1>5. ASSUME Aside PROVE Next
  <2>1. ASSUME NEW c \in Clients, Unanswered(c) PROVE Caller(c)
    BY <2>1 DEF Unanswered, Caller
  <2> QED
    BY <1>5, <2>1 DEF Aside, Venue, Next
<1> QED
  BY <1>1, <1>2, <1>3, <1>4, <1>5 DEF RoutesNext

-----------------------------------------------------------------------------
(* What the gateway has heard of an order on the venue *)

Exists(id) == venue[id].state # "none"

FeedTells(id) == \E k \in DOMAIN feed : feed[k].id = id

BufferTells(id) == raced[id] # <<>>

CallTells(id) ==
    \E c \in Clients : /\ call[c].id = id
                       /\ call[c].pc = "drain" \/ (call[c].pc = "call" /\ call[c].ack # 0)

ReconTells(id) ==
    \E t \in Recons : \/ \E e \in recon[t].listing : e.id = id
                      \/ recon[t].pc = "apply" /\ recon[t].found # {} /\ recon[t].item = id

Heard(id) == FeedTells(id) \/ BufferTells(id) \/ CallTells(id) \/ ReconTells(id)

Observed == \A id \in Ids : Heard(id) => Exists(id)

\* The venue makes or changes one order, and what it reports is about it.
VenueTouches(id) ==
    /\ Exists(id)'
    /\ \A i \in Ids \ {id} : venue'[i] = venue[i]
    /\ \A k \in DOMAIN feed' : feed'[k].id = id \/ (k \in DOMAIN feed /\ feed'[k] = feed[k])

LEMMA MovesTouch ==
    ASSUME TypeOK, NEW id \in Ids, NEW v \in VenueOrder, v.state # "none", VenueMoves(id, v)
    PROVE  VenueTouches(id)
<1>1. venue \in [Ids -> VenueOrder] /\ feed \in Seq(FeedReport) /\ ReportOf(id, v) \in FeedReport
  BY ReportOfTyped DEF TypeOK
<1>2. ReportOf(id, v).id = id
  BY DEF ReportOf
<1>3. /\ venue'[id] = v /\ \A i \in Ids \ {id} : venue'[i] = venue[i]
      /\ feed' = Append(feed, ReportOf(id, v))
  BY <1>1 DEF VenueMoves
<1>4. /\ Len(feed) \in Nat /\ DOMAIN feed = 1..Len(feed) /\ DOMAIN feed' = 1..(Len(feed) + 1)
      /\ \A i \in 1..Len(feed) : feed'[i] = feed[i]
      /\ feed'[Len(feed) + 1] = ReportOf(id, v)
  BY <1>1, <1>3, AppendProperties, LenProperties
<1>5. \A k \in DOMAIN feed' : k \in DOMAIN feed \/ k = Len(feed) + 1
  BY <1>4
<1> QED
  BY <1>2, <1>3, <1>4, <1>5 DEF VenueTouches, Exists

LEMMA ReplaceTouches ==
    ASSUME TypeOK, NEW id \in Ids, NEW qty \in Nat, VenueReplaces(id, qty)
    PROVE  VenueTouches(id)
<1> DEFINE old == [venue[id] EXCEPT !.state = "Canceled"]
           new == [NewVenueOrder(qty) EXCEPT !.xid = old.xid + 1, !.prior = old.prior + old.filled]
           q == <<ReportOf(id, old), ReportOf(id, new)>>
<1>1. venue \in [Ids -> VenueOrder] /\ feed \in Seq(FeedReport)
  BY DEF TypeOK
<1>2. old \in VenueOrder /\ old.state # "none"
  BY <1>1 DEF VenueOrder, VenueStates, States
<1>3. venue' = [venue EXCEPT ![id] = new] /\ feed' = feed \o q
  BY DEF VenueReplaces
<1> HIDE DEF old
<1>4. old.xid + 1 \in Nat /\ old.prior + old.filled \in Nat
  BY <1>2 DEF VenueOrder
<1>5. new \in VenueOrder /\ new.state # "none"
  BY <1>4 DEF NewVenueOrder, NoVenueOrder, VenueOrder, VenueStates, States
<1> HIDE DEF new
<1>6. q \in Seq(FeedReport) /\ Len(q) = 2 /\ q[1].id = id /\ q[2].id = id
  <2>1. ReportOf(id, old) \in FeedReport /\ ReportOf(id, new) \in FeedReport
    BY <1>2, <1>5, ReportOfTyped
  <2>2. ReportOf(id, old).id = id /\ ReportOf(id, new).id = id
    BY DEF ReportOf
  <2> QED
    BY <2>1, <2>2
<1> HIDE DEF q
<1>7. /\ DOMAIN feed = 1..Len(feed) /\ Len(feed) \in Nat /\ DOMAIN feed' = 1..(Len(feed) + 2)
      /\ \A k \in 1..(Len(feed) + 2) : feed'[k] = IF k <= Len(feed) THEN feed[k] ELSE q[k - Len(feed)]
  <2>1. /\ feed \o q \in Seq(FeedReport) /\ Len(feed \o q) = Len(feed) + Len(q)
        /\ \A k \in 1..(Len(feed) + Len(q)) :
              (feed \o q)[k] = IF k <= Len(feed) THEN feed[k] ELSE q[k - Len(feed)]
    BY <1>1, <1>6, ConcatProperties
  <2>2. Len(feed) \in Nat /\ DOMAIN feed = 1..Len(feed)
    BY <1>1, LenProperties
  <2>3. DOMAIN (feed \o q) = 1..Len(feed \o q)
    BY <2>1, LenProperties
  <2> QED
    BY <1>3, <1>6, <2>1, <2>2, <2>3
<1>8. \A k \in DOMAIN feed' : k \in DOMAIN feed \/ k = Len(feed) + 1 \/ k = Len(feed) + 2
  BY <1>7
<1>9. feed'[Len(feed) + 1] = q[1] /\ feed'[Len(feed) + 2] = q[2]
  BY <1>7
<1>10. \A k \in DOMAIN feed : feed'[k] = feed[k]
  BY <1>7
<1> QED
  BY <1>1, <1>3, <1>5, <1>6, <1>8, <1>9, <1>10 DEF VenueTouches, Exists

LEMMA ExecutesTouch ==
    ASSUME TypeOK, NEW op, NEW id \in Ids, NEW qty \in Nat, VenueExecutes(op, id, qty)
    PROVE  VenueTouches(id) /\ (Exists(id) \/ op = "place")
<1> DEFINE v == venue[id]
<1>1. v \in VenueOrder
  BY DEF TypeOK
<1>2. NewVenueOrder(qty) \in VenueOrder /\ NewVenueOrder(qty).state # "none"
  BY DEF NewVenueOrder, NoVenueOrder, VenueOrder, VenueStates, States
<1>3. [v EXCEPT !.state = "Canceled"] \in VenueOrder /\ [v EXCEPT !.state = "Canceled"].state # "none"
  BY <1>1 DEF VenueOrder, VenueStates, States
<1>4. Working(v.state) => [v EXCEPT !.qty = qty] \in VenueOrder /\ [v EXCEPT !.qty = qty].state # "none"
  BY <1>1 DEF VenueOrder, Working
<1>5. op = "place" \/ Working(v.state)
  BY DEF VenueExecutes
<1>6. \/ VenueMoves(id, NewVenueOrder(qty))
      \/ VenueMoves(id, [v EXCEPT !.state = "Canceled"])
      \/ Working(v.state) /\ VenueMoves(id, [v EXCEPT !.qty = qty])
      \/ VenueReplaces(id, qty)
  BY DEF VenueExecutes
<1> HIDE DEF v
<1>7. VenueTouches(id)
  BY <1>2, <1>3, <1>4, <1>6, MovesTouch, ReplaceTouches
<1> QED
  BY <1>5, <1>7 DEF v, Working, Exists

\* The answer to an open call touches the order of the call.
LEMMA AnswerTouches ==
    ASSUME Inv, NEW c \in Clients, VenueAnswers(c)
    PROVE  \E id \in Ids : /\ id = call[c].id /\ VenueTouches(id)
                           /\ Exists(id) \/ PlaceOpen(c)
<1>1. call[c].pc = "call" /\ VenueExecutes(call[c].op, call[c].id, call[c].qty)
  BY DEF VenueAnswers
<1>2. call[c].id \in Ids /\ call[c].qty \in Nat /\ call[c].op \in Ops /\ TypeOK
  BY <1>1, AtKnownOrder DEF Inv, TypeOK, Call
<1>3. PICK op \in Ops, id \in Ids, qty \in Nat : op = call[c].op /\ id = call[c].id /\ qty = call[c].qty
  BY <1>2
<1>4. VenueExecutes(op, id, qty)
  BY <1>1, <1>3
<1>5. VenueTouches(id) /\ (Exists(id) \/ op = "place")
  BY <1>2, <1>4, ExecutesTouch
<1> QED
  BY <1>1, <1>3, <1>5 DEF PlaceOpen

\* An order appears on the venue by the call that places it, or late.
LEMMA VenueActs ==
    ASSUME Inv, Venue
    PROVE  \/ UNCHANGED venue /\ feed' = <<>>
           \/ \E id \in Ids :
                 /\ VenueTouches(id)
                 /\ \/ Exists(id)
                    \/ \E c \in Clients : PlaceOpen(c) /\ call[c].id = id
                    \/ \E q \in late : LateArrival(q) /\ q.id = id
<1>0. TypeOK /\ venue \in [Ids -> VenueOrder]
  BY DEF Inv, TypeOK
<1>1. ASSUME NEW c \in Clients, VenueAnswers(c)
      PROVE  \E id \in Ids : /\ id = call[c].id /\ VenueTouches(id)
                             /\ Exists(id) \/ PlaceOpen(c)
  BY <1>0, <1>1, AnswerTouches
<1>2. ASSUME NEW q \in late, LateArrival(q)
      PROVE  q.id \in Ids /\ VenueTouches(q.id)
  <2>1. q.id \in Ids /\ q.qty \in Nat
    BY <1>0 DEF TypeOK, Request
  <2> QED
    BY <1>0, <1>2, <2>1, ExecutesTouch DEF LateArrival
<1>3. ASSUME NEW id \in Ids, VenueFill(id) \/ VenueCancel(id)
      PROVE  VenueTouches(id) /\ Exists(id)
  <2>1. Working(venue[id].state) /\ venue[id] \in VenueOrder
    BY <1>0, <1>3 DEF VenueFill, VenueCancel
  <2>2. CASE VenueCancel(id)
    <3> DEFINE w == [venue[id] EXCEPT !.state = "Canceled"]
    <3>1. w \in VenueOrder /\ w.state # "none" /\ VenueMoves(id, w)
      BY <2>1, <2>2 DEF VenueCancel, VenueOrder, VenueStates, States
    <3> HIDE DEF w
    <3> QED
      BY <1>0, <2>1, <3>1, MovesTouch DEF Working, Exists
  <2>3. CASE VenueFill(id)
    <3> DEFINE v == [venue[id] EXCEPT !.filled = @ + 1]
               w == [v EXCEPT !.state = IF v.filled = v.qty THEN "Filled" ELSE "PartiallyFilled"]
    <3>1. VenueMoves(id, w)
      BY <2>3 DEF VenueFill
    <3>2. v \in VenueOrder
      BY <2>1 DEF VenueOrder
    <3> HIDE DEF v
    <3>3. w \in VenueOrder /\ w.state # "none"
      BY <3>2 DEF VenueOrder, VenueStates, States
    <3> HIDE DEF w
    <3> QED
      BY <1>0, <2>1, <3>1, <3>3, MovesTouch DEF Working, Exists
  <2> QED
    BY <1>3, <2>2, <2>3
<1>4. CASE FeedLoss
  BY <1>4 DEF FeedLoss
<1> QED
  BY <1>1, <1>2, <1>3, <1>4 DEF Venue

-----------------------------------------------------------------------------
(* Everything the gateway hears is about orders that exist *)

\* What a reconciling thread holds after a step is what it held, or what the
\* venue says now.
LEMMA ReconHolds ==
    ASSUME Inv, NEW t \in Recons, Reconciler(t)
    PROVE  /\ \A s \in Recons \ {t} : recon'[s] = recon[s]
           /\ recon'[t].listing \subseteq recon[t].listing \cup OpenOrders
           /\ recon'[t].pc = "apply" =>
                 /\ recon'[t].item \in recon[t].work
                 /\ recon'[t].found = {} <=> ~Exists(recon'[t].item)
           /\ recon'[t].pc = "absent" => ReconAbsent(t)
           /\ recon[t].pc = "absent" => ReconAbsentLogged(t)
<1> DEFINE y == recon[t]
<1>1. recon \in [Recons -> Recon] /\ y \in Recon
  BY DEF Inv, TypeOK
<1>2. CASE ReconList(t)
  <2>1. PICK listing \in {OpenOrders, {}} :
          recon' = [recon EXCEPT ![t] = [IdleRecon EXCEPT !.pc = "listed", !.listing = listing]]
    BY <1>2 DEF ReconList
  <2>2. y.pc = "idle"
    BY <1>2 DEF ReconList
  <2>3. recon'[t].pc = "listed" /\ recon'[t].listing = listing
    BY <1>1, <2>1 DEF IdleRecon
  <2>4. \A s \in Recons \ {t} : recon'[s] = recon[s]
    BY <1>1, <2>1
  <2> QED
    BY <2>2, <2>3, <2>4
<1>3. ASSUME NEW e \in y.listing, Listed(t, e)
      PROVE  /\ \A s \in Recons \ {t} : recon'[s] = recon[s]
             /\ recon'[t].listing \subseteq recon[t].listing
             /\ recon'[t].pc = "listed" /\ recon[t].pc = "listed"
  BY <1>1, <1>3 DEF Listed, Recon
<1>4. CASE ReconWorklist(t) \/ ReconDone(t)
  <2>1. y.pc \in {"listed", "lookup"}
    BY <1>4 DEF ReconWorklist, ReconDone
  <2>2. /\ \A s \in Recons \ {t} : recon'[s] = recon[s]
        /\ recon'[t].pc \in {"lookup", "idle"} /\ recon'[t].listing \subseteq y.listing
    BY <1>1, <1>4 DEF ReconWorklist, ReconDone, IdleRecon, Recon
  <2> QED
    BY <2>1, <2>2
<1>5. ASSUME NEW id \in Ids, ReconLookup(t, id)
      PROVE  /\ \A s \in Recons \ {t} : recon'[s] = recon[s]
             /\ recon'[t].listing = y.listing
             /\ recon'[t].pc = "apply" /\ y.pc = "lookup" /\ recon'[t].item = id /\ id \in y.work
             /\ recon'[t].found = IF venue[id].state = "none" THEN {} ELSE {SnapshotOf(id)}
  BY <1>1, <1>5 DEF ReconLookup, Recon
<1>6. ASSUME NEW id \in Ids, ReconLookupFails(t, id)
      PROVE  /\ \A s \in Recons \ {t} : recon'[s] = recon[s]
             /\ recon'[t].listing = y.listing
             /\ recon'[t].pc = "lookup" /\ y.pc = "lookup"
  BY <1>1, <1>6 DEF ReconLookupFails, Recon
<1>7. NextItem(t) => /\ \A s \in Recons \ {t} : recon'[s] = recon[s]
                     /\ recon'[t].listing = y.listing /\ recon'[t].pc = "lookup"
  BY <1>1 DEF NextItem, Recon
<1>8. CASE ReconFound(t)
  <2>1. NextItem(t) /\ y.pc = "apply"
    BY <1>8 DEF ReconFound
  <2> QED
    BY <1>7, <2>1
<1>9. CASE ReconAbsent(t)
  <2>1. y.pc = "apply" /\ (NextItem(t) \/ recon' = [recon EXCEPT ![t].pc = "absent"])
    BY <1>9 DEF ReconAbsent
  <2>2. recon' = [recon EXCEPT ![t].pc = "absent"] =>
           /\ \A s \in Recons \ {t} : recon'[s] = recon[s]
           /\ recon'[t].listing = y.listing /\ recon'[t].pc = "absent"
    BY <1>1 DEF Recon
  <2> QED
    BY <1>7, <1>9, <2>1, <2>2
<1>10. CASE ReconAbsentLogged(t)
  <2>1. NextItem(t)
    BY <1>10 DEF ReconAbsentLogged
  <2> QED
    BY <1>7, <1>10, <2>1
<1>11. ASSUME NEW e \in y.listing, ListedSkipped(t, e) \/ ListedAdopted(t, e) \/ ListedRefreshed(t, e)
       PROVE  Listed(t, e)
  BY <1>11 DEF ListedSkipped, ListedAdopted, ListedRefreshed
<1>12. ASSUME NEW e \in y.listing, ListedSkipped(t, e) \/ ListedAdopted(t, e) \/ ListedRefreshed(t, e)
       PROVE  /\ \A s \in Recons \ {t} : recon'[s] = recon[s]
              /\ recon'[t].listing \subseteq recon[t].listing
              /\ recon'[t].pc = "listed" /\ recon[t].pc = "listed"
  BY <1>3, <1>11, <1>12
<1>13. ASSUME NEW id \in Ids, ReconLookup(t, id)
       PROVE  /\ \A s \in Recons \ {t} : recon'[s] = recon[s]
              /\ recon'[t].listing = y.listing
              /\ recon'[t].pc = "apply" /\ y.pc = "lookup" /\ recon'[t].item \in y.work
              /\ recon'[t].found = {} <=> ~Exists(recon'[t].item)
  BY <1>5, <1>13 DEF Exists
<1> QED
  BY <1>2, <1>4, <1>6, <1>8, <1>9, <1>10, <1>12, <1>13 DEF Reconciler

\* What a call has heard after a step of its thread was known to it before,
\* or is in the buffer of raced reports.
LEMMA CallHears ==
    ASSUME Inv, NEW c \in Clients, Caller(c), NEW id \in Ids, CallTells(id)'
    PROVE  CallTells(id) \/ BufferTells(id)
<1> USE OmsAssumption DEF OmsAssumption
<1>1. PICK d \in Clients : /\ call'[d].id = id
                           /\ call'[d].pc = "drain" \/ (call'[d].pc = "call" /\ call'[d].ack # 0)
  BY DEF CallTells
<1>0. call \in [Clients -> Call]
  BY DEF Inv, TypeOK
<1>2. ASSUME NEW q \in Seq(Report), Settle(c, q), call[c].pc # "idle",
             q # <<>> => call[c].pc = "drain" \/ q = raced[call[c].id]
      PROVE  CallTells(id) \/ BufferTells(id)
  <2>1. /\ q = <<>> => call'[c].pc = "idle"
        /\ q # <<>> => call'[c].pc = "drain" /\ call'[c].id = call[c].id
        /\ \A b \in Clients \ {c} : call'[b] = call[b]
    BY <1>2, SettleFacts DEF Inv
  <2>2. CASE d # c
    BY <1>1, <2>1, <2>2 DEF CallTells
  <2>3. CASE d = c
    BY <1>1, <1>2, <2>1, <2>3 DEF CallTells, BufferTells
  <2> QED
    BY <2>2, <2>3
<1>3. ASSUME NEW op \in Ops, NEW i \in Ids, NEW qty \in Nat, OpenCall(c, op, i, qty)
      PROVE  CallTells(id)
  <2>1. call' = [call EXCEPT ![c] = [IdleCall EXCEPT !.pc = "call", !.op = op, !.id = i, !.qty = qty]]
    BY <1>3 DEF OpenCall
  <2>2. /\ call'[c].pc = "call" /\ call'[c].ack = 0
        /\ \A b \in Clients \ {c} : call'[b] = call[b]
    BY <1>0, <2>1 DEF IdleCall
  <2> QED
    BY <1>1, <2>2 DEF CallTells
<1>4. UNCHANGED call => CallTells(id)
  BY <1>1 DEF CallTells
<1>5. ASSUME NEW i \in Ids, NEW qty \in Quantities,
             PlaceRiskRejected(c, i, qty) \/ PlaceNotPersisted(c, i, qty)
      PROVE  UNCHANGED call
  BY <1>5 DEF PlaceRiskRejected, PlaceNotPersisted
<1>6. ASSUME NEW i \in Ids, NEW qty \in Quantities, PlaceStaged(c, i, qty) \/ AmendSent(c, i, qty)
      PROVE  CallTells(id)
  <2>1. OpenCall(c, "place", i, qty) \/ OpenCall(c, "amend", i, qty)
    BY <1>6 DEF PlaceStaged, AmendSent
  <2> QED
    BY <1>3, <2>1 DEF Ops
<1>7. ASSUME NEW i \in Ids, CancelSent(c, i) PROVE CallTells(id)
  BY <1>3, <1>7 DEF CancelSent, Ops
<1>8. CASE PlaceAccepted(c) \/ PlaceRefused(c) \/ PlaceUnresolved(c) \/ AmendAccepted(c) \/ AmendFailed(c)
  <2>1. call[c].pc = "call" /\ (Settle(c, raced[call[c].id]) \/ Settle(c, <<>>))
    BY <1>8 DEF PlaceAccepted, PlaceRefused, PlaceUnresolved, AmendAccepted, AmendFailed, Returns, Finish
  <2>2. raced[call[c].id] \in Seq(Report) /\ <<>> \in Seq(Report)
    BY <2>1, AtKnownOrder DEF Inv, TypeOK
  <2> QED
    BY <1>2, <2>1, <2>2
<1>9. CASE CancelAccepted(c) \/ CancelFailed(c)
  <2>1. call[c].pc = "call" /\ Settle(c, <<>>)
    BY <1>9 DEF CancelAccepted, CancelFailed, Returns, Finish
  <2>2. <<>> \in Seq(Report)
    OBVIOUS
  <2> QED
    BY <1>2, <2>1, <2>2
<1>10. CASE Drain(c)
  <2>1. call[c].pc = "drain" /\ call[c].raced # <<>> /\ Settle(c, Tail(call[c].raced))
    BY <1>10 DEF Drain, Inv, LockOwned
  <2>2. Tail(call[c].raced) \in Seq(Report)
    BY <2>1, AtKnownOrder, HeadTailProperties
  <2> QED
    BY <1>2, <2>1, <2>2
<1> QED
  BY <1>4, <1>5, <1>6, <1>7, <1>8, <1>9, <1>10 DEF Caller

\* A caller never fills a buffer of raced reports and leaves the
\* reconciling threads alone.
LEMMA CallerBuffers ==
    ASSUME Inv, NEW c \in Clients, Caller(c)
    PROVE  UNCHANGED recon /\ \A id \in Ids : raced'[id] \in {raced[id], <<>>}
<1>0. /\ raced \in [Ids -> Seq(Report)]
      /\ UNCHANGED registry => UNCHANGED raced
      /\ \A i \in Ids : OpenRaced(i) \/ CloseRaced(i) => \A id \in Ids : raced'[id] \in {raced[id], <<>>}
  BY DEF Inv, TypeOK, registry, OpenRaced, CloseRaced
<1>1. ASSUME NEW i \in Ids, NEW qty \in Quantities,
             \/ PlaceRiskRejected(c, i, qty) \/ PlaceNotPersisted(c, i, qty)
             \/ PlaceStaged(c, i, qty) \/ AmendSent(c, i, qty)
      PROVE  UNCHANGED recon /\ (OpenRaced(i) \/ UNCHANGED raced)
  BY <1>0, <1>1 DEF PlaceRiskRejected, PlaceNotPersisted, PlaceStaged, AmendSent
<1>2. ASSUME NEW i \in Ids, CancelSent(c, i)
      PROVE  UNCHANGED <<recon, raced>>
  BY <1>0, <1>2 DEF CancelSent
<1>3. CASE PlaceAccepted(c) \/ PlaceRefused(c) \/ PlaceUnresolved(c) \/ AmendAccepted(c) \/ AmendFailed(c)
  <2>1. call[c].pc = "call" /\ UNCHANGED recon /\ CloseRaced(call[c].id)
    BY <1>3 DEF PlaceAccepted, PlaceRefused, PlaceUnresolved, AmendAccepted, AmendFailed, Returns
  <2> QED
    BY <1>0, <2>1, AtKnownOrder
<1>4. CASE CancelAccepted(c) \/ CancelFailed(c) \/ Drain(c)
  BY <1>0, <1>4 DEF CancelAccepted, CancelFailed, Drain
<1> QED
  BY <1>0, <1>1, <1>2, <1>3, <1>4 DEF Caller

\* An order that the venue has made stays on record there, and whatever the
\* gateway hears is about such an order.
LEMMA ObservedKept ==
    ASSUME Inv, Observed, Next
    PROVE  Observed' /\ \A id \in Ids : Exists(id) => Exists(id)'
<1> USE DEF Exists
<1>0. /\ venue \in [Ids -> VenueOrder] /\ feed \in Seq(FeedReport) /\ raced \in [Ids -> Seq(Report)]
      /\ call \in [Clients -> Call] /\ recon \in [Recons -> Recon]
  BY DEF Inv, TypeOK
<1>1. ASSUME NEW c \in Clients, Caller(c)
      PROVE  Observed' /\ UNCHANGED venue
  <2>1. UNCHANGED <<venue, feed, recon>>
    BY <1>1, CallerFrame, CallerBuffers
  <2>2. ASSUME NEW id \in Ids, Heard(id)' PROVE Heard(id)
    <3>1. FeedTells(id)' => FeedTells(id)
      BY <2>1 DEF FeedTells
    <3>2. ReconTells(id)' => ReconTells(id)
      BY <2>1 DEF ReconTells
    <3>3. BufferTells(id)' => BufferTells(id)
      BY <1>1, CallerBuffers DEF BufferTells
    <3>4. CallTells(id)' => CallTells(id) \/ BufferTells(id)
      BY <1>1, CallHears
    <3> QED
      BY <2>2, <3>1, <3>2, <3>3, <3>4 DEF Heard
  <2> QED
    BY <2>1, <2>2 DEF Observed
<1>2. CASE Reader
  <2>1. feed # <<>> /\ feed' = Tail(feed) /\ UNCHANGED <<venue, call, recon>>
    BY <1>2 DEF Reader, ReportBuffered, ReportUnknown, ReportArbitrated
  <2>2. \/ UNCHANGED raced
        \/ raced' = [raced EXCEPT ![Head(feed).id] = Append(@, Head(feed).report)]
    BY <1>2 DEF Reader, ReportBuffered, ReportUnknown, ReportArbitrated, registry
  <2>3. ASSUME NEW id \in Ids, Heard(id)' PROVE Heard(id)
    <3>1. FeedTells(id)' => FeedTells(id)
      <4>1. \A i \in DOMAIN Tail(feed) : i + 1 \in DOMAIN feed /\ Tail(feed)[i] = feed[i + 1]
        BY <1>0, <2>1, SplitSeq
      <4> QED
        BY <2>1, <4>1 DEF FeedTells
    <3>2. ReconTells(id)' => ReconTells(id)
      BY <2>1 DEF ReconTells
    <3>3. BufferTells(id)' => BufferTells(id) \/ FeedTells(id)
      <4>1. 1 \in DOMAIN feed /\ feed[1] = Head(feed)
        BY <1>0, <2>1, SplitSeq
      <4> QED
        BY <1>0, <2>2, <4>1 DEF BufferTells, FeedTells
    <3>4. CallTells(id)' => CallTells(id)
      BY <2>1 DEF CallTells
    <3> QED
      BY <2>3, <3>1, <3>2, <3>3, <3>4 DEF Heard
  <2> QED
    BY <2>1, <2>3 DEF Observed
<1>3. ASSUME NEW t \in Recons, Reconciler(t)
      PROVE  Observed' /\ UNCHANGED venue
  <2>1. UNCHANGED <<venue, feed, raced, call>>
    BY <1>3, ReconcilerFrame
  <2>2. ASSUME NEW id \in Ids, Heard(id)' PROVE Heard(id) \/ Exists(id)
    <3>1. FeedTells(id)' => FeedTells(id)
      BY <2>1 DEF FeedTells
    <3>2. BufferTells(id)' => BufferTells(id)
      BY <2>1 DEF BufferTells
    <3>3. CallTells(id)' => CallTells(id)
      BY <2>1 DEF CallTells
    <3>4. ReconTells(id)' => ReconTells(id) \/ Exists(id)
      <4>1. \A e \in OpenOrders : Exists(e.id)
        BY DEF OpenOrders, Working
      <4>2. /\ \A s \in Recons \ {t} : recon'[s] = recon[s]
            /\ recon'[t].listing \subseteq recon[t].listing \cup OpenOrders
            /\ recon'[t].pc = "apply" /\ recon'[t].found # {} => Exists(recon'[t].item)
        BY <1>3, ReconHolds
      <4>3. SUFFICES ASSUME NEW s \in Recons,
                            \/ \E e \in recon'[s].listing : e.id = id
                            \/ recon'[s].pc = "apply" /\ recon'[s].found # {} /\ recon'[s].item = id
                     PROVE  ReconTells(id) \/ Exists(id)
        BY DEF ReconTells
      <4>4. CASE s # t
        BY <4>2, <4>3, <4>4 DEF ReconTells
      <4>5. CASE s = t
        BY <4>1, <4>2, <4>3, <4>5 DEF ReconTells
      <4> QED
        BY <4>4, <4>5
    <3> QED
      BY <2>2, <3>1, <3>2, <3>3, <3>4 DEF Heard
  <2> QED
    BY <2>1, <2>2 DEF Observed
<1>4. CASE Venue
  <2>1. UNCHANGED <<raced, recon>>
    BY <1>4, VenueFrame DEF registry
  <2>2. \A id \in Ids : BufferTells(id)' => BufferTells(id)
    BY <2>1 DEF BufferTells
  <2>3. \A id \in Ids : ReconTells(id)' => ReconTells(id)
    BY <2>1 DEF ReconTells
  <2>4. \/ UNCHANGED venue /\ feed' = <<>>
        \/ \E id \in Ids : VenueTouches(id)
    BY <1>4, VenueActs
  <2>5. \A id \in Ids : Exists(id) => Exists(id)'
    BY <2>4 DEF VenueTouches
  <2>6. \A id \in Ids : FeedTells(id)' => FeedTells(id) \/ Exists(id)'
    <3>1. CASE feed' = <<>>
      BY <3>1 DEF FeedTells
    <3>2. ASSUME NEW i \in Ids, VenueTouches(i)
          PROVE  \A id \in Ids : FeedTells(id)' => FeedTells(id) \/ Exists(id)'
      BY <3>2 DEF FeedTells, VenueTouches
    <3> QED
      BY <2>4, <3>1, <3>2
  <2>7. \A id \in Ids : CallTells(id)' => CallTells(id) \/ Exists(id)'
    <3>1. UNCHANGED call => \A id \in Ids : CallTells(id)' => CallTells(id)
      BY DEF CallTells
    <3>2. ASSUME NEW c \in Clients, VenueAnswers(c)
          PROVE  \A id \in Ids : CallTells(id)' => CallTells(id) \/ Exists(id)'
      <4>1. /\ call' = [call EXCEPT ![c].ack = venue'[call[c].id].xid]
            /\ call[c].pc = "call"
        BY <3>2 DEF VenueAnswers
      <4>2. PICK i \in Ids : i = call[c].id /\ VenueTouches(i)
        BY <3>2, AnswerTouches
      <4>3. \A d \in Clients : /\ call'[d].id = call[d].id /\ call'[d].pc = call[d].pc
                               /\ d # c => call'[d] = call[d]
        BY <1>0, <4>1 DEF Call
      <4>4. SUFFICES ASSUME NEW id \in Ids, NEW d \in Clients, call'[d].id = id,
                            call'[d].pc = "drain" \/ (call'[d].pc = "call" /\ call'[d].ack # 0)
                     PROVE  CallTells(id) \/ Exists(id)'
        BY DEF CallTells
      <4>5. CASE d = c
        BY <4>2, <4>3, <4>4, <4>5 DEF VenueTouches
      <4>6. CASE d # c
        BY <4>3, <4>4, <4>6 DEF CallTells
      <4> QED
        BY <4>5, <4>6
    <3>3. UNCHANGED call \/ \E c \in Clients : VenueAnswers(c)
      BY <1>4 DEF Venue, LateArrival, VenueFill, VenueCancel, FeedLoss
    <3> QED
      BY <3>1, <3>2, <3>3
  <2> QED
    BY <2>2, <2>3, <2>5, <2>6, <2>7 DEF Observed, Heard
<1>5. CASE CrashRestart
  <2>1. /\ feed' = <<>> /\ raced' = [id \in Ids |-> <<>>] /\ call' = [c \in Clients |-> IdleCall]
        /\ recon' = [t \in Recons |-> IdleRecon] /\ UNCHANGED venue
    BY <1>5 DEF CrashRestart
  <2>2. ASSUME NEW id \in Ids PROVE ~Heard(id)'
    <3>1. ~FeedTells(id)' /\ ~BufferTells(id)'
      BY <2>1 DEF FeedTells, BufferTells
    <3>2. ~CallTells(id)'
      BY <2>1 DEF CallTells, IdleCall
    <3>3. ~ReconTells(id)'
      BY <2>1 DEF ReconTells, IdleRecon
    <3> QED
      BY <3>1, <3>2, <3>3 DEF Heard
  <2> QED
    BY <2>1, <2>2 DEF Observed
<1> QED
  BY <1>1, <1>2, <1>3, <1>4, <1>5 DEF Next, Reader

-----------------------------------------------------------------------------
(* The recorded rejection *)

\* Replay takes the reason of a rejection from the event that carries it,
\* drops it with the entry that a placing event overwrites, and keeps it
\* otherwise.
LEMMA ReplayReason ==
    ASSUME NEW d \in Record, NEW r \in Record, known(r)
    PROVE  /\ replay(d, "state", r).rejection = d.rejection
           /\ replay(d, "amended", r).rejection = d.rejection
           /\ replay(d, "rejected", r).rejection = r.rejection
           /\ replay(d, "place_submitted", r).rejection = "none"
           /\ replay(d, "place_accepted", r).rejection = "none"
           /\ replay(d, "adopted", r).rejection = "none"
<1>1. replay(d, "state", r).rejection = d.rejection
  <2>1. replay(d, "state", r) = IF known(d) THEN ReplayState(d, r) ELSE d
    BY DEF replay
  <2>2. ASSUME known(d) PROVE ReplayState(d, r).rejection = d.rejection
    <3> DEFINE seen == apply_observation(d, r.state, r.filled, 0, TRUE)
    <3>1. r.state \in States /\ r.filled \in Nat /\ r.xid \in Nat
      BY DEF Record, known
    <3>2. seen \in Record /\ seen.rejection = d.rejection
      <4>1. seen \in Record
        BY <2>2, <3>1, ApplyObservation
      <4>2. seen.rejection = d.rejection
        BY DEF apply_observation, Record
      <4> QED
        BY <4>1, <4>2
    <3>3. ReplayState(d, r) = IF d.xid = 0 THEN note_exchange_id(seen, r.xid) ELSE seen
      BY DEF ReplayState
    <3> HIDE DEF seen
    <3>4. note_exchange_id(seen, r.xid).rejection = seen.rejection
      BY <3>1, <3>2, NoteExchangeId
    <3> QED
      BY <3>2, <3>3, <3>4
  <2> QED
    BY <2>1, <2>2
<1>2. replay(d, "amended", r).rejection = d.rejection
  BY DEF replay, ReplayAmended, Record
<1>3. replay(d, "rejected", r).rejection = r.rejection
  BY DEF replay, ReplayRejected, Record
<1>4. /\ replay(d, "place_submitted", r).rejection = "none"
      /\ replay(d, "place_accepted", r).rejection = "none"
      /\ replay(d, "adopted", r).rejection = "none"
  <2> DEFINE legs == <<[version |-> CurrentVersion(r), id |-> r.xid]>>
             fresh == NewRecord(r.qty)
             legged == IF r.xid = 0 THEN fresh
                       ELSE [fresh EXCEPT !.xid = r.xid, !.legs = legs]
  <2>1. /\ replay(d, "place_submitted", r) = fresh
        /\ replay(d, "place_accepted", r) = [legged EXCEPT !.state = "Live"]
        /\ replay(d, "adopted", r) = [legged EXCEPT !.state = r.state, !.filled = r.filled]
    BY DEF replay, ReplayPlaced
  <2>2. fresh \in Record /\ fresh.rejection = "none"
    BY NoRecordTyped DEF Record
  <2> HIDE DEF fresh, legs
  <2>3. /\ DOMAIN legged = {"state", "filled", "qty", "xid", "legs", "rejection"}
        /\ legged.rejection = "none"
    BY <2>2 DEF Record
  <2> HIDE DEF legged
  <2> QED
    BY <2>1, <2>2, <2>3
<1> QED
  BY <1>1, <1>2, <1>3, <1>4

\* An append leaves every other entry alone, and its own unless it succeeds.
LEMMA AppendReason ==
    ASSUME TypeOK, NEW id \in Ids, NEW type, NEW r, append_event(id, type, r)
    PROVE  /\ \A i \in Ids \ {id} : disk'[i] = disk[i]
           /\ \/ disk'[id] = disk[id] /\ id \in unlogged'
              \/ disk'[id] = replay(disk[id], type, r)
BY DEF TypeOK, append_event, Logged, LogFails

\* Neither the reason of a rejection nor, without word from the venue, the
\* working state of an order appears by this step.
Stays(id) ==
    /\ orders'[id].rejection = orders[id].rejection
    /\ disk'[id].rejection = disk[id].rejection
    /\ Working(orders'[id].state) => Working(orders[id].state) \/ Heard(id)

\* The entry is new, or was an untouched Pending one, and registry and log
\* agree on what becomes of it.
Starts(id) ==
    /\ ~known(orders[id]) \/ \E qty \in Nat : orders[id] = NewRecord(qty)
    /\ orders'[id].rejection = disk'[id].rejection
    /\ orders'[id].rejection # "none" => orders'[id].state = "Rejected"
    /\ Working(orders'[id].state) => Heard(id)

\* An observation or an amend of one order, and its event, if there is one.
LEMMA ObservationStays ==
    ASSUME TypeOK, NEW id \in Ids, NEW r \in Record, known(r),
           orders' = [orders EXCEPT ![id] = r],
           r.rejection = orders[id].rejection,
           Working(r.state) => Working(orders[id].state) \/ Heard(id),
           append_event(id, "state", r) \/ append_event(id, "amended", r) \/ UNCHANGED log
    PROVE  \A i \in Ids : Stays(i)
<1>1. orders \in [Ids -> Record] /\ disk \in [Ids -> Record]
  BY DEF TypeOK
<1>2. orders'[id] = r /\ \A i \in Ids \ {id} : orders'[i] = orders[i]
  BY <1>1
<1>3. disk'[id].rejection = disk[id].rejection /\ \A i \in Ids \ {id} : disk'[i] = disk[i]
  <2>1. CASE append_event(id, "state", r) \/ append_event(id, "amended", r)
    BY <1>1, <2>1, AppendReason, ReplayReason
  <2>2. CASE UNCHANGED log
    BY <2>2 DEF log
  <2> QED
    BY <2>1, <2>2
<1> QED
  BY <1>2, <1>3 DEF Stays

\* An execution report of a known order.
LEMMA ReportStays ==
    ASSUME TypeOK, NEW id \in Ids, known(orders[id]), NEW report \in Report, Heard(id),
           ApplyReport(id, report)
    PROVE  \A i \in Ids : Stays(i)
<1> DEFINE r == apply_arbitrated_report(orders[id], report)
<1>1. orders[id] \in Record
  BY DEF TypeOK
<1>2. r \in Record /\ known(r) /\ r.rejection = orders[id].rejection
  BY <1>1, ApplyArbitratedReport
<1>3. orders' = [orders EXCEPT ![id] = r] /\ (append_event(id, "state", r) \/ UNCHANGED log)
  BY DEF ApplyReport
<1> HIDE DEF r
<1> QED
  BY <1>2, <1>3, ObservationStays

\* An entry that no step before has settled, and the event that says what
\* becomes of it.
LEMMA EventStarts ==
    ASSUME TypeOK, NEW id \in Ids, NEW r \in Record, known(r),
           ~known(orders[id]) \/ \E qty \in Nat : orders[id] = NewRecord(qty),
           orders' = [orders EXCEPT ![id] = r],
           NEW type \in EventTypes \ {"state", "amended"}, append_event(id, type, r),
           r.rejection # "none" => type = "rejected" /\ r.state = "Rejected",
           Working(r.state) => Heard(id)
    PROVE  \A i \in Ids \ unlogged' : Stays(i) \/ Starts(i)
<1>1. orders \in [Ids -> Record] /\ disk \in [Ids -> Record]
  BY DEF TypeOK
<1>2. orders'[id] = r /\ \A i \in Ids \ {id} : orders'[i] = orders[i]
  BY <1>1
<1>3. \A i \in Ids \ {id} : disk'[i] = disk[i]
  BY AppendReason
<1>4. id \notin unlogged' => disk'[id].rejection = r.rejection
  <2>1. id \notin unlogged' => disk'[id] = replay(disk[id], type, r)
    BY AppendReason
  <2>2. replay(disk[id], type, r).rejection = r.rejection
    BY <1>1, ReplayReason DEF EventTypes
  <2> QED
    BY <2>1, <2>2
<1> QED
  BY <1>2, <1>3, <1>4 DEF Stays, Starts

\* Registry and log as they were.
LEMMA UntouchedStays ==
    ASSUME UNCHANGED <<orders, disk>>
    PROVE  \A i \in Ids : Stays(i)
BY DEF Stays

\* What a caller does to the record of an order.
LEMMA CallerReasons ==
    ASSUME Inv, NEW c \in Clients, Caller(c)
    PROVE  \A i \in Ids \ unlogged' : Stays(i) \/ Starts(i)
<1> USE OmsAssumption DEF OmsAssumption
<1> DEFINE id == call[c].id
<1>0. TypeOK /\ orders \in [Ids -> Record]
  BY DEF Inv, TypeOK
<1>1. ASSUME NEW i \in Ids, NEW qty \in Quantities, PlaceRiskRejected(c, i, qty)
      PROVE  \A j \in Ids \ unlogged' : Stays(j) \/ Starts(j)
  <2> DEFINE r == [NewRecord(qty) EXCEPT !.state = "Rejected", !.rejection = "risk"]
  <2>1. NewRecord(qty) \in Record
    BY NoRecordTyped
  <2>2. r \in Record /\ known(r) /\ r.state = "Rejected"
    BY <2>1 DEF Record, States, Rejections, known
  <2>3. ~known(orders[i]) /\ orders' = [orders EXCEPT ![i] = r] /\ append_event(i, "rejected", r)
    BY <1>1 DEF PlaceRiskRejected
  <2> HIDE DEF r
  <2>4. ~Working(r.state)
    BY <2>2 DEF Working
  <2> QED
    BY <1>0, <2>2, <2>3, <2>4, EventStarts DEF EventTypes
<1>2. ASSUME NEW i \in Ids, NEW qty \in Quantities, PlaceStaged(c, i, qty)
      PROVE  \A j \in Ids \ unlogged' : Stays(j) \/ Starts(j)
  <2>1. /\ NewRecord(qty) \in Record /\ known(NewRecord(qty))
        /\ NewRecord(qty).rejection = "none" /\ NewRecord(qty).state = "Pending"
    BY NoRecordTyped
  <2>2. /\ ~known(orders[i]) /\ orders' = [orders EXCEPT ![i] = NewRecord(qty)]
        /\ append_event(i, "place_submitted", NewRecord(qty))
    BY <1>2 DEF PlaceStaged, append_event
  <2>3. ~Working(NewRecord(qty).state)
    BY <2>1 DEF Working
  <2> QED
    BY <1>0, <2>1, <2>2, <2>3, EventStarts DEF EventTypes
<1>3. ASSUME NEW i \in Ids, NEW qty \in Quantities, PlaceNotPersisted(c, i, qty) \/ AmendSent(c, i, qty)
      PROVE  UNCHANGED <<orders, disk>>
  BY <1>3 DEF PlaceNotPersisted, AmendSent, registry, log
<1>4. ASSUME NEW i \in Ids, CancelSent(c, i)
      PROVE  UNCHANGED <<orders, disk>>
  BY <1>4 DEF CancelSent, registry, log
<1>5. CASE PlaceUnresolved(c) \/ CancelFailed(c)
  <2>1. UNCHANGED <<orders, disk>>
    BY <1>5 DEF PlaceUnresolved, CancelFailed, registry, log
  <2> QED
    BY <2>1, UntouchedStays
<1>6. ASSUME call[c].pc # "idle"
      PROVE  id \in Ids /\ orders[id] \in Record /\ known(orders[id])
               /\ call[c].ack \in Nat /\ call[c].qty \in Nat
  BY <1>6, AtKnownOrder
<1>7. call[c].pc = "call" /\ call[c].op = "place" =>
        \E qty \in Nat : orders[id] = NewRecord(qty)
  BY <1>6 DEF Inv, PlaceOwnsRecord
<1>8. call[c].pc = "drain" \/ (call[c].pc = "call" /\ call[c].ack # 0) => Heard(id)
  BY DEF Heard, CallTells
<1>9. CASE PlaceAccepted(c)
  <2> DEFINE n == note_exchange_id(orders[id], call[c].ack)
             r == [n EXCEPT !.state = apply_transition(@, "Live")]
  <2>1. call[c].pc = "call" /\ call[c].op = "place" /\ call[c].ack # 0
    BY <1>9 DEF PlaceAccepted, Returns
  <2>2. PICK qty \in Nat : orders[id] = NewRecord(qty)
    BY <1>7, <2>1
  <2>3. n \in Record /\ n.state = "Pending" /\ n.rejection = "none"
    <3>1. orders[id].state = "Pending" /\ orders[id].rejection = "none"
      BY <2>2, NoRecordTyped
    <3> QED
      BY <1>6, <2>1, <3>1, NoteExchangeId
  <2>4. orders' = [orders EXCEPT ![id] = r] /\ append_event(id, "place_accepted", r)
    BY <1>9 DEF PlaceAccepted, append_event
  <2> HIDE DEF n
  <2>5. r \in Record /\ known(r) /\ r.rejection = "none"
    BY <2>3 DEF Record, known, apply_transition, can_transition, LegalTransitions, States
  <2> HIDE DEF r
  <2> QED
    BY <1>0, <1>6, <1>8, <2>1, <2>2, <2>4, <2>5, EventStarts DEF EventTypes
<1>10. CASE PlaceRefused(c)
  <2> DEFINE r == [orders[id] EXCEPT !.state = "Rejected", !.rejection = "venue"]
  <2>1. call[c].pc = "call" /\ call[c].op = "place"
    BY <1>10 DEF PlaceRefused, Returns
  <2>2. PICK qty \in Nat : orders[id] = NewRecord(qty)
    BY <1>7, <2>1
  <2>3. can_transition(orders[id].state, "Rejected")
    BY <2>2, NoRecordTyped DEF can_transition, LegalTransitions, States
  <2>4. orders' = [orders EXCEPT ![id] = r] /\ append_event(id, "rejected", r)
    BY <1>10, <2>3 DEF PlaceRefused
  <2>5. r \in Record /\ known(r) /\ r.state = "Rejected"
    BY <1>6, <2>1 DEF Record, known, States, Rejections
  <2> HIDE DEF r
  <2>6. ~Working(r.state)
    BY <2>5 DEF Working
  <2> QED
    BY <1>0, <1>6, <2>1, <2>2, <2>4, <2>5, <2>6, EventStarts DEF EventTypes
<1>11. CASE CancelAccepted(c)
  <2> DEFINE n == note_exchange_id(orders[id], venue[id].xid)
             r == [n EXCEPT !.state = "Canceled"]
  <2>1. call[c].pc = "call" /\ venue[id].state = "Canceled"
    BY <1>11 DEF CancelAccepted, Returns
  <2>5. venue[id].xid \in Nat
    BY <1>0, <1>6, <2>1 DEF Inv, TypeOK, VenueOrder
  <2>2. n \in Record /\ known(n) /\ n.rejection = orders[id].rejection
        /\ n.state = orders[id].state
    BY <1>6, <2>1, <2>5, NoteExchangeId DEF known
  <2>3. \/ orders' = [orders EXCEPT ![id] = r] /\ append_event(id, "state", r)
        \/ orders' = [orders EXCEPT ![id] = n] /\ UNCHANGED log
    BY <1>11 DEF CancelAccepted
  <2> HIDE DEF n
  <2>4. r \in Record /\ known(r) /\ r.rejection = orders[id].rejection /\ ~Working(r.state)
    BY <2>2 DEF Record, known, States, Working
  <2> HIDE DEF r
  <2> QED
    BY <1>0, <1>6, <2>1, <2>2, <2>3, <2>4, ObservationStays
<1>12. CASE AmendAccepted(c)
  <2> DEFINE m == [orders[id] EXCEPT !.qty = call[c].qty]
             p == push_leg(m, call[c].ack)
             r == append_amend_leg(m, call[c].ack)
  <2>1. call[c].pc = "call" /\ call[c].ack # 0
    BY <1>12 DEF AmendAccepted, Returns
  <2>2. m \in Record /\ m.state = orders[id].state /\ m.rejection = orders[id].rejection
    BY <1>6, <2>1 DEF Record
  <2>3. orders' = [orders EXCEPT ![id] = r] /\ append_event(id, "amended", r)
    BY <1>12 DEF AmendAccepted, append_event
  <2> HIDE DEF m
  <2>4. p \in Record /\ p.state = m.state /\ p.rejection = m.rejection
    BY <1>6, <2>1, <2>2, PushLeg
  <2>5. r = [p EXCEPT !.xid = call[c].ack]
    BY <2>1 DEF append_amend_leg
  <2> HIDE DEF p, r
  <2>6. r \in Record /\ r.state = m.state /\ r.rejection = m.rejection
    BY <1>6, <2>1, <2>4, <2>5 DEF Record
  <2>7. known(r)
    BY <1>6, <2>1, <2>2, <2>6 DEF known
  <2> QED
    BY <1>0, <1>6, <1>8, <2>1, <2>2, <2>3, <2>6, <2>7, ObservationStays
<1>13. CASE AmendFailed(c)
  <2> DEFINE x == NewestUnknown(orders[id], raced[id])
             n == note_exchange_id(orders[id], x)
  <2>1. call[c].pc = "call"
    BY <1>13 DEF AmendFailed, Returns
  <2>2. raced[id] \in Seq(Report)
    BY <1>6, <2>1 DEF Inv, TypeOK
  <2>3. x \in Nat
    BY <1>6, <2>1, <2>2, NewestUnknownTyped
  <2>4. orders' = [orders EXCEPT ![id] = n] /\ UNCHANGED log
    BY <1>0, <1>13 DEF AmendFailed
  <2> HIDE DEF x
  <2>5. n \in Record /\ n.state = orders[id].state /\ n.rejection = orders[id].rejection
    BY <1>6, <2>1, <2>3, NoteExchangeId
  <2> HIDE DEF n
  <2>6. known(n)
    BY <1>6, <2>1, <2>5 DEF known
  <2> QED
    BY <1>0, <1>6, <2>1, <2>4, <2>5, <2>6, ObservationStays
<1>14. CASE Drain(c)
  <2>1. call[c].pc = "drain" /\ call[c].raced # <<>> /\ ApplyReport(id, Head(call[c].raced))
    BY <1>14 DEF Drain, Inv, LockOwned
  <2>2. Head(call[c].raced) \in Report
    BY <2>1, AtKnownOrder, HeadTailProperties
  <2> QED
    BY <1>0, <1>6, <1>8, <2>1, <2>2, ReportStays
<1> QED
  BY <1>1, <1>2, <1>3, <1>4, <1>5, <1>9, <1>10, <1>11, <1>12, <1>13, <1>14, UntouchedStays DEF Caller

\* What the feed thread does to the record of an order.
LEMMA ReaderReasons ==
    ASSUME Inv, Reader
    PROVE  \A i \in Ids : Stays(i)
<1>1. CASE ReportBuffered \/ ReportUnknown
  <2>1. UNCHANGED <<orders, disk>>
    BY <1>1 DEF ReportBuffered, ReportUnknown, registry, log
  <2> QED
    BY <2>1, UntouchedStays
<1>2. CASE ReportArbitrated
  <2> DEFINE id == Head(feed).id
  <2>1. feed \in Seq(FeedReport) /\ feed # <<>>
    BY <1>2 DEF Inv, TypeOK, ReportArbitrated
  <2>2. Head(feed) \in FeedReport /\ 1 \in DOMAIN feed /\ feed[1] = Head(feed)
    BY <2>1, SplitSeq
  <2>3. id \in Ids /\ Head(feed).report \in Report
    BY <2>2 DEF FeedReport
  <2>4. Heard(id)
    BY <2>2 DEF Heard, FeedTells
  <2>5. known(orders[id]) /\ ApplyReport(id, Head(feed).report)
    BY <1>2 DEF ReportArbitrated
  <2> HIDE DEF id
  <2> QED
    BY <2>3, <2>4, <2>5, ReportStays DEF Inv
<1> QED
  BY <1>1, <1>2 DEF Reader

\* A snapshot leaves the recorded rejection alone.
LEMMA SnapshotReason ==
    ASSUME NEW r \in Record, known(r), NEW s \in Snapshot
    PROVE  /\ Refreshed(r, s).rejection = r.rejection
           /\ Looked(r, s).rejection = r.rejection
<1> DEFINE n == note_exchange_id(r, s.xid)
<1>1. s.xid \in Nat /\ s.state \in States /\ s.filled \in Nat /\ s.qty \in Nat
  BY DEF Snapshot, VenueStates
<1>2. n \in Record /\ n.rejection = r.rejection
  BY <1>1, NoteExchangeId
<1> HIDE DEF n
<1>3. ASSUME NEW a \in {r, n}
      PROVE  apply_observation(a, s.state, s.filled, s.qty, TRUE).rejection = r.rejection
  <2>1. a \in Record /\ a.rejection = r.rejection
    BY <1>2
  <2> QED
    BY <2>1 DEF apply_observation, Record
<1> QED
  BY <1>3 DEF Refreshed, Looked, n

\* A conclusive absence: its first append leaves the reason to the second.
Opens(t, id) ==
    /\ recon[t].pc = "apply" /\ recon[t].found = {} /\ recon[t].item = id
    /\ can_transition(orders[id].state, "Rejected") /\ orders'[id].state = "Rejected"
    /\ disk'[id].rejection = disk[id].rejection
    /\ recon'[t].pc = "absent" /\ recon'[t].item = id

Closes(t, id) ==
    /\ recon[t].pc = "absent" /\ recon[t].item = id
    /\ orders'[id] = orders[id] /\ disk'[id].rejection = orders[id].rejection

\* The second append, unless it fails, brings the reason to the log.
LEMMA AbsentCloses ==
    ASSUME Inv, NEW t \in Recons, ReconAbsentLogged(t)
    PROVE  \A i \in Ids \ unlogged' : IF recon[t].item = i THEN Closes(t, i) ELSE Stays(i)
<1>0. TypeOK /\ orders \in [Ids -> Record] /\ disk \in [Ids -> Record]
  BY DEF Inv, TypeOK
<1>1. recon[t].pc = "absent" /\ append_event(recon[t].item, "rejected", orders[recon[t].item])
        /\ UNCHANGED orders
  BY DEF ReconAbsentLogged, registry
<1>2. recon[t].item \in Ids /\ orders[recon[t].item].state = "Rejected"
  BY <1>1 DEF Inv, TypeOK, LockOwned
<1>3. PICK id \in Ids : id = recon[t].item
  BY <1>2
<1>4. orders[id] \in Record /\ known(orders[id]) /\ append_event(id, "rejected", orders[id])
  BY <1>0, <1>1, <1>2, <1>3 DEF known
<1>5. \A i \in Ids \ {id} : disk'[i] = disk[i]
  BY <1>0, <1>4, AppendReason
<1>6. id \notin unlogged' => disk'[id].rejection = orders[id].rejection
  BY <1>0, <1>4, AppendReason, ReplayReason
<1> QED
  BY <1>1, <1>3, <1>5, <1>6 DEF Stays, Closes

\* What a reconciling thread does to the record of an order.
LEMMA ReconReasons ==
    ASSUME Inv, NEW t \in Recons, Reconciler(t)
    PROVE  \A i \in Ids \ unlogged' : Stays(i) \/ Starts(i) \/ Opens(t, i) \/ Closes(t, i)
<1> DEFINE id == recon[t].item
<1>0. /\ TypeOK /\ orders \in [Ids -> Record] /\ disk \in [Ids -> Record]
      /\ recon \in [Recons -> Recon] /\ recon[t].found \subseteq Snapshot
  BY DEF Inv, TypeOK, Recon
<1>1. CASE ReconList(t) \/ ReconWorklist(t) \/ ReconDone(t)
  <2>1. UNCHANGED <<orders, disk>>
    BY <1>1 DEF ReconList, ReconWorklist, ReconDone, registry, log
  <2> QED
    BY <2>1, UntouchedStays
<1>2. ASSUME NEW i \in Ids, ReconLookup(t, i) \/ ReconLookupFails(t, i)
      PROVE  UNCHANGED <<orders, disk>>
  BY <1>2 DEF ReconLookup, ReconLookupFails, registry, log
<1>3. ASSUME NEW e \in recon[t].listing,
             ListedSkipped(t, e) \/ ListedAdopted(t, e) \/ ListedRefreshed(t, e)
      PROVE  \A i \in Ids \ unlogged' : Stays(i) \/ Starts(i)
  <2>1. e \in ListingEntry
    BY <1>0 DEF Recon
  <2>2. e.id \in Ids /\ e.snap \in Snapshot
    BY <2>1 DEF ListingEntry
  <2>3. orders[e.id] \in Record
    BY <1>0, <2>2
  <2>4. Heard(e.id)
    BY DEF Heard, ReconTells
  <2>5. CASE ListedSkipped(t, e)
    <3>1. UNCHANGED <<orders, disk>>
      BY <2>5 DEF ListedSkipped, log
    <3> QED
      BY <3>1, UntouchedStays
  <2>6. CASE ListedAdopted(t, e)
    <3> DEFINE r == record_from_snapshot(e.snap)
    <3>1. r \in Record /\ known(r)
      BY <2>2, RecordFromSnapshot
    <3>2. r.rejection = "none"
      BY DEF record_from_snapshot, NoRecord
    <3>3. /\ orders' = [orders EXCEPT ![e.id] = r] /\ append_event(e.id, "adopted", r)
          /\ ~known(orders[e.id])
      BY <2>6 DEF ListedAdopted
    <3> HIDE DEF r
    <3> QED
      BY <1>0, <2>2, <2>4, <3>1, <3>2, <3>3, EventStarts DEF EventTypes
  <2>7. CASE ListedRefreshed(t, e)
    <3> DEFINE r == Refreshed(orders[e.id], e.snap)
    <3>1. /\ known(orders[e.id]) /\ orders' = [orders EXCEPT ![e.id] = r]
          /\ append_event(e.id, "state", r) \/ UNCHANGED log
      BY <2>7 DEF ListedRefreshed
    <3>2. r \in Record /\ known(r)
      BY <2>2, <2>3, <3>1, SnapshotAdvances DEF Advances
    <3>3. r.rejection = orders[e.id].rejection
      BY <2>2, <2>3, <3>1, SnapshotReason
    <3> HIDE DEF r
    <3> QED
      BY <1>0, <2>2, <2>4, <3>1, <3>2, <3>3, ObservationStays
  <2> QED
    BY <1>3, <2>5, <2>6, <2>7
<1>4. ASSUME recon[t].pc \in {"apply", "absent"}
      PROVE  id \in Ids /\ orders[id] \in Record /\ known(orders[id])
  <2>1. id \in Ids
    BY <1>4 DEF Inv, TypeOK
  <2>2. id # None
    BY <2>1, OmsAssumption DEF OmsAssumption
  <2> QED
    BY <1>0, <2>1, <2>2 DEF Inv, WorkKnown, Pursued
<1>5. CASE ReconFound(t)
  <2>1. PICK s \in recon[t].found :
          LET r == Looked(orders[id], s) IN
          /\ orders' = [orders EXCEPT ![id] = r]
          /\ IF r # orders[id] THEN append_event(id, "state", r) ELSE UNCHANGED log
    BY <1>5 DEF ReconFound
  <2>2. recon[t].pc = "apply" /\ s \in Snapshot
    BY <1>0, <1>5 DEF ReconFound
  <2>3. Heard(id)
    BY <2>2 DEF Heard, ReconTells
  <2> DEFINE r == Looked(orders[id], s)
  <2>4. r \in Record /\ known(r)
    BY <1>4, <2>2, SnapshotAdvances DEF Advances
  <2>5. r.rejection = orders[id].rejection
    BY <1>4, <2>2, SnapshotReason
  <2>6. orders' = [orders EXCEPT ![id] = r] /\ (append_event(id, "state", r) \/ UNCHANGED log)
    BY <2>1
  <2> HIDE DEF r
  <2> QED
    BY <1>0, <1>4, <2>2, <2>3, <2>4, <2>5, <2>6, ObservationStays
<1>6. CASE ReconAbsent(t)
  <2> DEFINE r == [orders[id] EXCEPT !.state = "Rejected", !.rejection = "venue_absent"]
  <2>1. recon[t].pc = "apply" /\ recon[t].found = {}
    BY <1>6 DEF ReconAbsent
  <2>2. CASE ~can_transition(orders[id].state, "Rejected")
    <3>1. UNCHANGED <<orders, disk>>
      BY <1>6, <2>2 DEF ReconAbsent, log
    <3> QED
      BY <3>1, UntouchedStays
  <2>3. CASE can_transition(orders[id].state, "Rejected")
    <3>1. /\ orders' = [orders EXCEPT ![id] = r] /\ append_event(id, "state", r)
          /\ recon' = [recon EXCEPT ![t].pc = "absent"]
      BY <1>6, <2>3 DEF ReconAbsent
    <3>2. r \in Record /\ r.state = "Rejected" /\ known(r)
      BY <1>4, <2>1 DEF Record, States, Rejections, known
    <3> HIDE DEF r
    <3>3. recon'[t].pc = "absent" /\ recon'[t].item = id
      BY <1>0, <3>1 DEF Recon
    <3>4. /\ disk'[id].rejection = disk[id].rejection
          /\ \A i \in Ids \ {id} : disk'[i] = disk[i]
      <4>1. id \in Ids /\ disk[id] \in Record
        BY <1>0, <1>4, <2>1
      <4>2. replay(disk[id], "state", r).rejection = disk[id].rejection
        BY <3>2, <4>1, ReplayReason
      <4> QED
        BY <1>0, <3>1, <4>1, <4>2, AppendReason
    <3>5. orders'[id].state = "Rejected" /\ \A i \in Ids \ {id} : orders'[i] = orders[i]
      BY <1>0, <1>4, <2>1, <3>1, <3>2
    <3>6. Opens(t, id)
      BY <2>1, <2>3, <3>3, <3>4, <3>5 DEF Opens
    <3>7. \A i \in Ids \ {id} : Stays(i)
      BY <3>4, <3>5 DEF Stays
    <3> HIDE DEF id
    <3> QED
      BY <3>6, <3>7
  <2> QED
    BY <2>2, <2>3
<1>7. CASE ReconAbsentLogged(t)
  BY <1>7, AbsentCloses
<1> QED
  BY <1>1, <1>2, <1>3, <1>5, <1>6, <1>7, UntouchedStays DEF Reconciler

-----------------------------------------------------------------------------
(* The inductive invariant: orders are followed as long as they are not    *)
(* frail                                                                   *)

\* A thread is between the two appends of an absence of the order.
Between(id) == \E t \in Recons : recon[t].pc = "absent" /\ recon[t].item = id

Followed ==
    /\ unlogged \subseteq frail
    /\ told = [id \in Ids |-> told[id]]

\* An order that counts as working is on the venue.
WorkingExists == \A id \in Ids \ frail : Working(orders[id].state) => Exists(id)

\* A lookup that found nothing is still right about it.
AbsenceTrue ==
    \A t \in Recons :
        recon[t].pc = "apply" /\ recon[t].found = {} /\ recon[t].item \notin frail =>
            ~Exists(recon[t].item)

\* Only a rejected order has a recorded rejection, and it is on disk unless
\* its append is about to come.
Reasons ==
    \A id \in Ids \ frail :
        /\ orders[id].rejection # "none" => orders[id].state = "Rejected"
        /\ \/ disk[id].rejection = orders[id].rejection
           \/ disk[id].rejection = "none" /\ Between(id)

\* The answer a client has is the one a retry would get, before and after a
\* restart.
AnswerTrue(id) ==
    /\ known(orders[id]) /\ Definitive(told[id])
    /\ told[id] = Replayed(orders[id])
    /\ disk[id].rejection = orders[id].rejection

ToldTrue == \A id \in Ids \ frail : told[id] # NoAnswer => AnswerTrue(id)

RoutesInv ==
    /\ Inv
    /\ Observed
    /\ Followed
    /\ WorkingExists
    /\ AbsenceTrue
    /\ Reasons
    /\ ToldTrue

\* What a step other than a restart does to the record of an order whose
\* append, if it has one, succeeds.
LEMMA StepReasons ==
    ASSUME Inv, Next
    PROVE  \/ CrashRestart
           \/ \A i \in Ids \ unlogged' :
                 /\ \/ Stays(i) \/ Starts(i)
                    \/ \E t \in Recons : Opens(t, i) \/ Closes(t, i)
                 /\ Between(i) => Between(i)' \/ disk'[i].rejection = orders'[i].rejection
<1>1. UNCHANGED recon => \A i \in Ids : Between(i) => Between(i)'
  BY DEF Between
<1>2. ASSUME NEW c \in Clients, Caller(c)
      PROVE  \A i \in Ids \ unlogged' : (Stays(i) \/ Starts(i)) /\ (Between(i) => Between(i)')
  BY <1>1, <1>2, CallerReasons, CallerBuffers
<1>3. CASE Reader
  <2>1. UNCHANGED recon
    BY <1>3 DEF Reader, ReportBuffered, ReportUnknown, ReportArbitrated
  <2> QED
    BY <1>1, <1>3, <2>1, ReaderReasons
<1>4. ASSUME NEW t \in Recons, Reconciler(t), NEW i \in Ids \ unlogged'
      PROVE  /\ Stays(i) \/ Starts(i) \/ Opens(t, i) \/ Closes(t, i)
             /\ Between(i) => Between(i)' \/ disk'[i].rejection = orders'[i].rejection
  <2>1. Stays(i) \/ Starts(i) \/ Opens(t, i) \/ Closes(t, i)
    BY <1>4, ReconReasons
  <2>2. ASSUME NEW s \in Recons, recon[s].pc = "absent", recon[s].item = i
        PROVE  Between(i)' \/ disk'[i].rejection = orders'[i].rejection
    <3>1. CASE s # t
      <4>1. recon'[s] = recon[s]
        BY <1>4, <3>1, ReconHolds
      <4> QED
        BY <2>2, <4>1 DEF Between
    <3>2. CASE s = t
      <4>1. ReconAbsentLogged(t)
        BY <1>4, <2>2, <3>2, ReconHolds
      <4>2. Closes(t, i)
        BY <1>4, <2>2, <3>2, <4>1, AbsentCloses
      <4> QED
        BY <4>2 DEF Closes
    <3> QED
      BY <3>1, <3>2
  <2> QED
    BY <2>1, <2>2 DEF Between
<1>5. CASE Venue
  <2>1. UNCHANGED <<orders, disk, recon>>
    BY <1>5, VenueFrame DEF registry, log
  <2> QED
    BY <1>1, <2>1, UntouchedStays
<1> QED
  BY <1>2, <1>3, <1>4, <1>5 DEF Next

\* A working order of the registry exists.
LEMMA WorkingExistsKept ==
    ASSUME RoutesInv, Next, frail \subseteq frail', unlogged' \subseteq frail'
    PROVE  WorkingExists'
<1> SUFFICES ASSUME NEW id \in Ids, id \notin frail', Working(orders'[id].state)
             PROVE  Exists(id)'
  BY DEF WorkingExists
<1>1. Exists(id) => Exists(id)'
  BY ObservedKept DEF RoutesInv
<1>2. Working(orders[id].state) \/ Heard(id) => Exists(id)
  BY DEF RoutesInv, WorkingExists, Observed
<1>3. CASE CrashRestart
  <2>1. orders' = disk /\ id \notin unlogged
    BY <1>3 DEF CrashRestart, RoutesInv, Followed
  <2>2. orders'[id].state = orders[id].state
    BY <2>1 DEF RoutesInv, Inv, DiskAgrees
  <2> QED
    BY <1>1, <1>2, <2>2
<1>4. CASE Stays(id) \/ Starts(id)
  BY <1>1, <1>2, <1>4 DEF Stays, Starts
<1>5. ASSUME NEW t \in Recons, Opens(t, id) \/ Closes(t, id)
      PROVE  Exists(id)'
  BY <1>1, <1>2, <1>5 DEF Opens, Closes, Working
<1> QED
  BY <1>3, <1>4, <1>5, StepReasons DEF RoutesInv

\* Rejections are recorded in the registry and on disk.
LEMMA ReasonsKept ==
    ASSUME RoutesInv, Next, frail \subseteq frail', unlogged' \subseteq frail'
    PROVE  Reasons'
<1> SUFFICES ASSUME NEW id \in Ids, id \notin frail'
             PROVE  /\ orders'[id].rejection # "none" => orders'[id].state = "Rejected"
                    /\ \/ disk'[id].rejection = orders'[id].rejection
                       \/ disk'[id].rejection = "none" /\ Between(id)'
  BY DEF Reasons
<1>1. /\ orders[id].rejection # "none" => orders[id].state = "Rejected"
      /\ \/ disk[id].rejection = orders[id].rejection
         \/ disk[id].rejection = "none" /\ Between(id)
  BY DEF RoutesInv, Reasons
<1>2. CASE CrashRestart
  <2>1. orders' = disk /\ disk' = disk /\ id \notin unlogged
    BY <1>2 DEF CrashRestart, RoutesInv, Followed
  <2>2. disk[id].state = orders[id].state
    BY <2>1 DEF RoutesInv, Inv, DiskAgrees
  <2> QED
    BY <1>1, <2>1, <2>2
<1>3. ASSUME ~CrashRestart
      PROVE  /\ \/ Stays(id) \/ Starts(id)
                \/ \E t \in Recons : Opens(t, id) \/ Closes(t, id)
             /\ Between(id) => Between(id)' \/ disk'[id].rejection = orders'[id].rejection
  BY <1>3, StepReasons DEF RoutesInv
<1>4. CASE ~CrashRestart /\ Stays(id)
  <2>1. orders[id].state = "Rejected" => orders'[id].state = "Rejected"
    BY <1>4, RegistryKept DEF RoutesInv, Advances, known, can_transition, LegalTransitions
  <2> QED
    BY <1>1, <1>3, <1>4, <2>1 DEF Stays
<1>5. CASE Starts(id)
  BY <1>5 DEF Starts
<1>6. ASSUME NEW t \in Recons, Opens(t, id)
      PROVE  /\ orders'[id].state = "Rejected"
             /\ disk'[id].rejection = "none" /\ Between(id)'
  <2>1. orders[id].state # "Rejected"
    BY <1>6 DEF Opens, can_transition, LegalTransitions
  <2> QED
    BY <1>1, <1>6, <2>1 DEF Opens, Between
<1>7. ASSUME NEW t \in Recons, Closes(t, id)
      PROVE  orders'[id] = orders[id] /\ disk'[id].rejection = orders'[id].rejection
  BY <1>7 DEF Closes
<1> QED
  BY <1>1, <1>2, <1>3, <1>4, <1>5, <1>6, <1>7

\* A caller takes no request off the way.
LEMMA CallerLate ==
    ASSUME NEW c \in Clients, Caller(c)
    PROVE  late \subseteq late'
<1>1. PlaceUnresolved(c) \/ CancelFailed(c) \/ AmendFailed(c) => late \subseteq late'
  BY DEF PlaceUnresolved, CancelFailed, AmendFailed, TransportError
<1> QED
  BY <1>1, CallerFrame

\* A step of the routes follows every order that it does not make frail, and
\* an order executed late becomes frail.
LEMMA FollowedKept ==
    ASSUME RoutesInv, [RoutesNext]_<<vars, routeVars>>
    PROVE  /\ Followed' /\ frail \subseteq frail' /\ unlogged' \subseteq frail'
           /\ \A q \in late : LateArrival(q) => q.id \in frail'
<1>0. unlogged \subseteq frail /\ told = [id \in Ids |-> told[id]]
  BY DEF RoutesInv, Followed
<1>1. ASSUME NEW answers, Follow(answers)
      PROVE  Followed' /\ frail \subseteq frail' /\ unlogged' \subseteq frail'
  BY <1>1 DEF Follow, Followed
<1>2. ASSUME NEW id \in Ids, NEW answer, Tell(id, answer)
      PROVE  Followed' /\ frail \subseteq frail' /\ unlogged' \subseteq frail'
  BY <1>1, <1>2 DEF Tell
<1>3. ASSUME NEW id, TellCanceled(id)
      PROVE  Followed' /\ frail \subseteq frail' /\ unlogged' \subseteq frail'
  BY <1>1, <1>3 DEF TellCanceled
<1>4. late \subseteq late' => \A q \in late : ~LateArrival(q)
  BY DEF LateArrival
<1>5. ASSUME NEW c \in Clients, PostAnswered(c)
      PROVE  /\ Followed' /\ frail \subseteq frail' /\ unlogged' \subseteq frail'
             /\ \A q \in late : ~LateArrival(q)
  <2>1. Followed' /\ frail \subseteq frail' /\ unlogged' \subseteq frail'
    <3>1. ASSUME NEW id \in Ids, NEW qty \in Quantities,
                 \/ PlaceRiskRejected(c, id, qty)
                      /\ Tell(id, Failed(IF Appended THEN "risk" ELSE "io"))
                 \/ PlaceNotPersisted(c, id, qty) /\ Tell(id, Failed("persistence"))
          PROVE  Followed' /\ frail \subseteq frail' /\ unlogged' \subseteq frail'
      BY <1>1, <3>1 DEF Tell
    <3>2. CASE \/ PlaceAccepted(c) /\ Tell(call[c].id, IF Appended THEN Placed(orders'[call[c].id])
                                                                 ELSE Failed("persistence"))
               \/ PlaceRefused(c) /\ Tell(call[c].id, Failed("venue"))
               \/ PlaceUnresolved(c) /\ Tell(call[c].id, Failed("transport"))
      BY <1>1, <3>2 DEF Tell
    <3> QED
      BY <1>5, <3>1, <3>2 DEF PostAnswered
  <2>2. Caller(c)
    BY <1>5 DEF PostAnswered, Caller
  <2> QED
    BY <1>4, <2>1, <2>2, CallerLate
<1>6. ASSUME NEW c \in Clients, DeleteAnswered(c)
      PROVE  /\ Followed' /\ frail \subseteq frail' /\ unlogged' \subseteq frail'
             /\ \A q \in late : ~LateArrival(q)
  <2>1. UNCHANGED late
    BY <1>6 DEF DeleteAnswered, CancelAccepted, market
  <2> QED
    BY <1>3, <1>4, <1>6, <2>1 DEF DeleteAnswered
<1>7. ASSUME NEW c \in Clients, NEW id \in Ids, PostRetried(c, id) \/ DeleteRetried(c, id)
      PROVE  /\ Followed' /\ frail \subseteq frail' /\ unlogged' \subseteq frail'
             /\ \A q \in late : ~LateArrival(q)
  <2>1. UNCHANGED late
    BY <1>7 DEF PostRetried, DeleteRetried, vars, market
  <2> QED
    BY <1>2, <1>3, <1>4, <1>7, <2>1 DEF PostRetried, DeleteRetried
<1>8. ASSUME NEW q \in late, ArrivesLate(q)
      PROVE  /\ Followed' /\ frail \subseteq frail' /\ unlogged' \subseteq frail'
             /\ \A p \in late : LateArrival(p) => p.id \in frail'
  <2>1. /\ LateArrival(q) /\ frail' = frail \cup {q.id}
        /\ told' = [told EXCEPT ![q.id] = NoAnswer]
    BY <1>8 DEF ArrivesLate
  <2>2. unlogged' = unlogged
    BY <2>1 DEF LateArrival, log
  <2>3. \A p \in late : LateArrival(p) => p = q
    BY <2>1 DEF LateArrival
  <2> QED
    BY <1>0, <2>1, <2>2, <2>3 DEF Followed
<1>9. CASE Aside
  <2>1. Followed' /\ frail \subseteq frail' /\ unlogged' \subseteq frail'
    BY <1>1, <1>9 DEF Aside
  <2>2. \A q \in late : ~LateArrival(q)
    <3>1. CASE \E c \in Clients : Unanswered(c)
      <4>1. PICK c \in Clients : Caller(c)
        BY <3>1 DEF Unanswered, Caller
      <4> QED
        BY <1>4, <4>1, CallerLate
    <3>2. CASE Reader
      <4>1. UNCHANGED late
        BY <3>2 DEF Reader, ReportBuffered, ReportUnknown, ReportArbitrated
      <4> QED
        BY <1>4, <4>1
    <3>3. CASE \E t \in Recons : Reconciler(t)
      BY <1>4, <3>3, ReconcilerFrame
    <3>4. CASE \/ \E c \in Clients : VenueAnswers(c)
               \/ \E id \in Ids : VenueFill(id) \/ VenueCancel(id)
               \/ FeedLoss
      <4>1. UNCHANGED late
        BY <3>4 DEF VenueAnswers, VenueFill, VenueCancel, FeedLoss
      <4> QED
        BY <1>4, <4>1
    <3>5. CASE CrashRestart
      <4>1. late \subseteq late'
        BY <3>5 DEF CrashRestart
      <4> QED
        BY <1>4, <4>1
    <3> QED
      BY <1>9, <3>1, <3>2, <3>3, <3>4, <3>5 DEF Aside
  <2> QED
    BY <2>1, <2>2
<1>10. CASE UNCHANGED <<vars, routeVars>>
  <2>1. UNCHANGED <<late, unlogged, told, frail>>
    BY <1>10 DEF vars, market, log, routeVars
  <2> QED
    BY <1>0, <1>4, <2>1 DEF Followed
<1> QED
  BY <1>5, <1>6, <1>7, <1>8, <1>9, <1>10 DEF RoutesNext

\* No order appears on the venue behind the back of a lookup that did not
\* find it: its place is not open, and one that arrives late is frail.
LEMMA AbsenceTrueKept ==
    ASSUME RoutesInv, Next, frail \subseteq frail',
           \A q \in late : LateArrival(q) => q.id \in frail'
    PROVE  AbsenceTrue'
<1> USE DEF RoutesInv
<1> SUFFICES ASSUME NEW t \in Recons, recon'[t].pc = "apply", recon'[t].found = {},
                    recon'[t].item \notin frail'
             PROVE  ~(venue'[recon'[t].item].state # "none")
  BY DEF AbsenceTrue, Exists
<1>1. CASE Reconciler(t)
  <2>1. UNCHANGED venue
    BY <1>1, ReconcilerFrame
  <2>2. ~(venue[recon'[t].item].state # "none")
    BY <1>1, ReconHolds DEF Exists
  <2> QED
    BY <2>1, <2>2
<1>2. ASSUME recon'[t] = recon[t], UNCHANGED venue
      PROVE  ~(venue'[recon'[t].item].state # "none")
  BY <1>2 DEF AbsenceTrue, Exists
<1>3. ASSUME NEW c \in Clients, Caller(c)
      PROVE  recon'[t] = recon[t] /\ UNCHANGED venue
  BY <1>3, CallerFrame, CallerBuffers
<1>4. CASE Reader
  <2>1. UNCHANGED <<recon, venue>>
    BY <1>4 DEF Reader, ReportBuffered, ReportUnknown, ReportArbitrated
  <2> QED
    BY <1>2, <2>1
<1>5. ASSUME NEW s \in Recons, s # t, Reconciler(s)
      PROVE  recon'[t] = recon[t] /\ UNCHANGED venue
  BY <1>5, ReconcilerFrame, ReconHolds
<1>6. CASE Venue
  <2>1. recon'[t] = recon[t]
    BY <1>6, VenueFrame
  <2>2. PICK id \in Ids : id = recon[t].item
    BY <2>1 DEF Inv, TypeOK
  <2>3. venue[id].state = "none" /\ id \notin frail'
    BY <2>1, <2>2 DEF AbsenceTrue, Exists
  <2>4. \A c \in Clients : PlaceOpen(c) => call[c].id # id
    <3>1. id \in Pursued(t)
      BY <2>2, OmsAssumption DEF Pursued, OmsAssumption
    <3> QED
      BY <3>1 DEF Inv, WorkKnown
  <2>5. ASSUME NEW i \in Ids, VenueTouches(i),
               \/ Exists(i)
               \/ \E c \in Clients : PlaceOpen(c) /\ call[c].id = i
               \/ \E q \in late : LateArrival(q) /\ q.id = i
        PROVE  venue'[id] = venue[id]
    <3>1. i # id
      BY <2>3, <2>4, <2>5 DEF Exists
    <3> QED
      BY <2>5, <3>1 DEF VenueTouches
  <2>6. venue'[id] = venue[id]
    BY <1>6, <2>5, VenueActs
  <2> QED
    BY <2>1, <2>2, <2>3, <2>6
<1>7. CASE CrashRestart
  <2>1. recon'[t] = IdleRecon
    BY <1>7 DEF CrashRestart
  <2> QED
    BY <2>1 DEF IdleRecon
<1> QED
  BY <1>1, <1>2, <1>3, <1>4, <1>5, <1>6, <1>7 DEF Next

\* A definitive answer stays what a retry would get.
LEMMA AnswerKept ==
    ASSUME RoutesInv, [Next]_vars, frail \subseteq frail', unlogged' \subseteq frail',
           NEW id \in Ids, id \notin frail', AnswerTrue(id)
    PROVE  /\ known(orders'[id]) /\ Replayed(orders'[id]) = Replayed(orders[id])
           /\ disk'[id].rejection = orders'[id].rejection
<1> USE DEF RoutesInv, AnswerTrue
<1>1. /\ known(orders[id]) /\ Definitive(Replayed(orders[id]))
      /\ disk[id].rejection = orders[id].rejection
      /\ orders[id] \in Record
  BY DEF Inv, TypeOK
<1>2. ASSUME orders[id].rejection = "none"
      PROVE  orders[id].state # "Pending"
  BY <1>1, <1>2 DEF Definitive, Replayed, Placed
<1>3. ASSUME NEW r, known(r), r.rejection = orders[id].rejection,
             r.state = orders[id].state \/ can_transition(orders[id].state, r.state)
      PROVE  Replayed(r) = Replayed(orders[id])
  <2>1. CASE orders[id].rejection # "none"
    BY <1>3, <2>1 DEF Replayed
  <2>2. CASE orders[id].rejection = "none"
    <3>1. r.state # "Pending"
      BY <1>2, <1>3, <2>2 DEF can_transition, LegalTransitions
    <3> QED
      BY <1>2, <1>3, <2>2, <3>1 DEF Replayed, Placed
  <2> QED
    BY <2>1, <2>2
<1>4. CASE UNCHANGED vars
  BY <1>1, <1>4 DEF vars, registry, log
<1>5. CASE CrashRestart
  <2>1. orders' = disk /\ disk' = disk /\ id \notin unlogged
    BY <1>5 DEF CrashRestart, Followed
  <2>2. disk[id].state = orders[id].state
    BY <2>1 DEF Inv, DiskAgrees
  <2> QED
    BY <1>1, <1>3, <2>1, <2>2 DEF known
<1>6. CASE Next /\ ~CrashRestart
  <2>1. /\ known(orders'[id])
        /\ orders'[id].state = orders[id].state \/ can_transition(orders[id].state, orders'[id].state)
    BY <1>1, <1>6, RegistryKept DEF Advances
  <2>2. \/ Stays(id) \/ Starts(id)
        \/ \E t \in Recons : Opens(t, id) \/ Closes(t, id)
    BY <1>6, StepReasons
  <2>3. CASE Stays(id)
    BY <1>1, <1>3, <2>1, <2>3 DEF Stays
  <2>4. ~Starts(id)
    <3> SUFFICES ASSUME NEW qty \in Nat, orders[id] = NewRecord(qty) PROVE FALSE
      BY <1>1 DEF Starts
    <3>1. orders[id].rejection = "none" /\ orders[id].state = "Pending"
      BY NoRecordTyped
    <3> QED
      BY <1>2, <3>1
  <2>5. ASSUME NEW t \in Recons, Opens(t, id) PROVE FALSE
    <3>1. can_transition(orders[id].state, "Rejected") /\ orders[id].state # "Rejected"
      BY <2>5 DEF Opens, can_transition, LegalTransitions
    <3>2. orders[id].rejection = "none"
      BY <3>1 DEF Reasons
    <3>3. Working(orders[id].state)
      BY <1>2, <3>1, <3>2 DEF can_transition, LegalTransitions, Working
    <3>4. Exists(id)
      BY <3>3 DEF WorkingExists
    <3>5. ~Exists(id)
      BY <2>5 DEF Opens, AbsenceTrue
    <3> QED
      BY <3>4, <3>5
  <2>6. ASSUME NEW t \in Recons, Closes(t, id)
        PROVE  orders'[id] = orders[id] /\ disk'[id].rejection = orders[id].rejection
    BY <2>6 DEF Closes
  <2> QED
    BY <1>1, <2>2, <2>3, <2>4, <2>5, <2>6
<1> QED
  BY <1>4, <1>5, <1>6

\* A new answer is the one a retry would get, and an earlier answer was the
\* same.
Answers(id) ==
    /\ known(orders'[id]) /\ Definitive(told'[id])
    /\ told'[id] = Replayed(orders'[id])
    /\ disk'[id].rejection = orders'[id].rejection
    /\ told[id] \in {NoAnswer, told'[id]}

LEMMA AnswersGiven ==
    ASSUME RoutesInv, [RoutesNext]_<<vars, routeVars>>, NEW id \in Ids, id \notin frail'
    PROVE  told'[id] = told[id] \/ Answers(id)
<1> USE OmsAssumption DEF OmsAssumption
<1>0. /\ TypeOK /\ orders \in [Ids -> Record] /\ disk \in [Ids -> Record] /\ failsLeft \in Nat
      /\ frail \subseteq frail' /\ unlogged' \subseteq frail'
      /\ told = [i \in Ids |-> told[i]]
  BY FollowedKept DEF RoutesInv, Inv, TypeOK, Followed
<1>1. Follow(<<>>) => told'[id] = told[id]
  BY DEF Follow
<1>2. ASSUME NEW i \in Ids, NEW answer, Tell(i, answer)
      PROVE  \/ told'[id] = told[id]
             \/ id = i /\ Definitive(answer) /\ told'[id] = answer
  BY <1>2 DEF Tell, Follow
<1>3. \A code \in {"io", "persistence", "transport"} : ~Definitive(Failed(code))
  BY DEF Definitive, Failed, map_error, Rejections
<1>4. ~known(orders[id]) => told[id] = NoAnswer
  BY <1>0 DEF RoutesInv, ToldTrue, AnswerTrue
<1>5. ASSUME NEW qty \in Nat, orders[id] = NewRecord(qty)
      PROVE  told[id] = NoAnswer
  <2>1. orders[id].rejection = "none" /\ orders[id].state = "Pending"
    BY <1>5, NoRecordTyped
  <2>2. ~Definitive(Replayed(orders[id]))
    BY <2>1 DEF Definitive, Replayed, Placed
  <2> QED
    BY <1>0, <2>2 DEF RoutesInv, ToldTrue, AnswerTrue
<1>6. ASSUME NEW type, NEW r, append_event(id, type, r)
      PROVE  disk'[id] = replay(disk[id], type, r)
  BY <1>0, <1>6, AppendReason
<1>7. ASSUME NEW r \in Record, r.rejection # "none"
      PROVE  Definitive(Failed(r.rejection)) /\ Replayed(r) = Failed(r.rejection)
  BY <1>7 DEF Definitive, Failed, Replayed, Record
<1>8. ASSUME NEW c \in Clients, PostAnswered(c)
      PROVE  told'[id] = told[id] \/ Answers(id)
  <2>1. ASSUME NEW i \in Ids, NEW qty \in Quantities, PlaceRiskRejected(c, i, qty),
               Tell(i, Failed(IF Appended THEN "risk" ELSE "io"))
        PROVE  told'[id] = told[id] \/ Answers(id)
    <3> DEFINE r == [NewRecord(qty) EXCEPT !.state = "Rejected", !.rejection = "risk"]
    <3>1. SUFFICES ASSUME id = i, told'[id] = Failed("risk") PROVE Answers(id)
      BY <1>2, <1>3, <2>1
    <3>2. NewRecord(qty) \in Record
      BY NoRecordTyped
    <3>3. r \in Record /\ known(r) /\ r.rejection = "risk"
      BY <3>2 DEF Record, States, Rejections, known
    <3>4. ~known(orders[id]) /\ orders' = [orders EXCEPT ![id] = r] /\ append_event(id, "rejected", r)
      BY <2>1, <3>1 DEF PlaceRiskRejected
    <3> HIDE DEF r
    <3>5. orders'[id] = r
      BY <1>0, <3>4
    <3>6. disk'[id].rejection = "risk"
      BY <1>0, <1>6, <3>3, <3>4, ReplayReason
    <3>7. Definitive(Failed("risk")) /\ Replayed(r) = Failed("risk")
      BY <1>7, <3>3
    <3> QED
      BY <1>4, <3>1, <3>3, <3>4, <3>5, <3>6, <3>7 DEF Answers
  <2>2. ASSUME NEW i \in Ids, NEW qty \in Quantities, PlaceNotPersisted(c, i, qty),
               Tell(i, Failed("persistence"))
        PROVE  told'[id] = told[id]
    BY <1>2, <1>3, <2>2
  <2>3. ASSUME call[c].pc = "call", call[c].op = "place"
        PROVE  /\ call[c].id \in Ids /\ orders[call[c].id] = NewRecord(call[c].qty)
               /\ call[c].qty \in Nat /\ call[c].ack \in Nat
    BY <2>3, AtKnownOrder DEF RoutesInv, Inv, PlaceOwnsRecord
  <2>4. CASE PlaceAccepted(c) /\ Tell(call[c].id, IF Appended THEN Placed(orders'[call[c].id])
                                                              ELSE Failed("persistence"))
    <3> DEFINE n == note_exchange_id(orders[id], call[c].ack)
               r == [n EXCEPT !.state = apply_transition(@, "Live")]
    <3>1. call[c].pc = "call" /\ call[c].op = "place"
      BY <2>4 DEF PlaceAccepted, Returns
    <3>2. SUFFICES ASSUME id = call[c].id, told'[id] = Placed(orders'[id]), Definitive(told'[id])
                   PROVE  Answers(id)
      BY <1>2, <1>3, <2>3, <2>4, <3>1
    <3>3. PICK qty \in Nat : orders[id] = NewRecord(qty)
      BY <2>3, <3>1, <3>2
    <3>4. orders[id].state = "Pending" /\ orders[id].rejection = "none" /\ orders[id] \in Record
      BY <3>3, NoRecordTyped
    <3>5. n \in Record /\ n.state = "Pending" /\ n.rejection = "none"
      BY <2>3, <3>1, <3>4, NoteExchangeId
    <3>6. orders' = [orders EXCEPT ![id] = r] /\ append_event(id, "place_accepted", r)
      BY <2>4, <3>2 DEF PlaceAccepted, append_event
    <3> HIDE DEF n
    <3>7. r \in Record /\ known(r) /\ r.rejection = "none"
      BY <3>5 DEF Record, known, apply_transition, can_transition, LegalTransitions, States
    <3> HIDE DEF r
    <3>8. orders'[id] = r
      BY <1>0, <3>6
    <3>9. disk'[id].rejection = "none"
      BY <1>0, <1>6, <3>6, <3>7, ReplayReason
    <3>10. told[id] = NoAnswer
      BY <1>5, <3>3
    <3> QED
      BY <3>2, <3>7, <3>8, <3>9, <3>10 DEF Answers, Replayed
  <2>5. CASE PlaceRefused(c) /\ Tell(call[c].id, Failed("venue"))
    <3> DEFINE r == [orders[id] EXCEPT !.state = "Rejected", !.rejection = "venue"]
    <3>1. call[c].pc = "call" /\ call[c].op = "place"
      BY <2>5 DEF PlaceRefused, Returns
    <3>2. SUFFICES ASSUME id = call[c].id, told'[id] = Failed("venue") PROVE Answers(id)
      BY <1>2, <2>3, <2>5, <3>1
    <3>3. PICK qty \in Nat : orders[id] = NewRecord(qty)
      BY <2>3, <3>1, <3>2
    <3>4. orders[id].state = "Pending" /\ orders[id] \in Record
      BY <3>3, NoRecordTyped
    <3>5. can_transition(orders[id].state, "Rejected")
      BY <3>4 DEF can_transition, LegalTransitions, States
    <3>6. orders' = [orders EXCEPT ![id] = r] /\ append_event(id, "rejected", r)
      BY <2>5, <3>2, <3>5 DEF PlaceRefused
    <3>7. r \in Record /\ known(r) /\ r.rejection = "venue"
      BY <3>4 DEF Record, known, States, Rejections
    <3> HIDE DEF r
    <3>8. orders'[id] = r
      BY <1>0, <3>6
    <3>9. disk'[id].rejection = "venue"
      BY <1>0, <1>6, <3>6, <3>7, ReplayReason
    <3>10. told[id] = NoAnswer
      BY <1>5, <3>3
    <3>11. Definitive(Failed("venue")) /\ Replayed(r) = Failed("venue")
      BY <1>7, <3>7
    <3> QED
      BY <3>2, <3>7, <3>8, <3>9, <3>10, <3>11 DEF Answers
  <2>6. CASE PlaceUnresolved(c) /\ Tell(call[c].id, Failed("transport"))
    <3>1. call[c].pc = "call" /\ call[c].op = "place"
      BY <2>6 DEF PlaceUnresolved, Returns
    <3> QED
      BY <1>2, <1>3, <2>3, <2>6, <3>1
  <2> QED
    BY <1>8, <2>1, <2>2, <2>4, <2>5, <2>6 DEF PostAnswered
<1>9. ASSUME NEW c \in Clients, NEW i \in Ids, PostRetried(c, i)
      PROVE  told'[id] = told[id] \/ Answers(id)
  <2>1. UNCHANGED <<orders, disk>> /\ lock = None /\ known(orders[i])
    BY <1>9 DEF PostRetried, vars, registry, log, Enters
  <2>2. SUFFICES ASSUME id = i, Definitive(Replayed(orders[id])), told'[id] = Replayed(orders[id])
                 PROVE  Answers(id)
    BY <1>2, <1>9 DEF PostRetried
  <2>3. ~Between(id)
    BY <2>1 DEF Between, RoutesInv, Inv, LockOwned, Threads
  <2>4. disk[id].rejection = orders[id].rejection
    BY <1>0, <2>3 DEF RoutesInv, Reasons
  <2>5. told[id] \in {NoAnswer, Replayed(orders[id])}
    BY <1>0 DEF RoutesInv, ToldTrue, AnswerTrue
  <2> QED
    BY <2>1, <2>2, <2>4, <2>5 DEF Answers
<1>10. ASSUME NEW c \in Clients, DeleteAnswered(c) PROVE told'[id] = told[id]
  BY <1>1, <1>10 DEF DeleteAnswered, TellCanceled
<1>11. ASSUME NEW c \in Clients, NEW i \in Ids, DeleteRetried(c, i) PROVE told'[id] = told[id]
  BY <1>1, <1>11 DEF DeleteRetried, TellCanceled
<1>12. ASSUME NEW q \in late, ArrivesLate(q) PROVE told'[id] = told[id]
  BY <1>0, <1>12 DEF ArrivesLate
<1>13. CASE Aside
  BY <1>1, <1>13 DEF Aside
<1>14. CASE UNCHANGED <<vars, routeVars>>
  BY <1>14 DEF routeVars
<1> QED
  BY <1>8, <1>9, <1>10, <1>11, <1>12, <1>13, <1>14 DEF RoutesNext

LEMMA RoutesInitially ==
    ASSUME RoutesInit
    PROVE  RoutesInv
<1>0. Init /\ told = [id \in Ids |-> NoAnswer] /\ frail = {}
  BY DEF RoutesInit
<1>1. /\ Inv /\ orders = [id \in Ids |-> NoRecord] /\ disk = [id \in Ids |-> NoRecord]
      /\ unlogged = {} /\ feed = <<>> /\ raced = [id \in Ids |-> <<>>]
      /\ call = [c \in Clients |-> IdleCall] /\ recon = [t \in Recons |-> IdleRecon]
  BY <1>0, InitInv DEF Init
<1>2. Observed
  <2> SUFFICES ASSUME NEW id \in Ids PROVE ~Heard(id)
    BY DEF Observed
  <2>1. ~FeedTells(id) /\ ~BufferTells(id)
    BY <1>1 DEF FeedTells, BufferTells
  <2>2. ~CallTells(id)
    BY <1>1 DEF CallTells, IdleCall
  <2>3. ~ReconTells(id)
    BY <1>1 DEF ReconTells, IdleRecon
  <2> QED
    BY <2>1, <2>2, <2>3 DEF Heard
<1>3. Followed /\ ToldTrue
  BY <1>0, <1>1 DEF Followed, ToldTrue
<1>4. WorkingExists /\ Reasons
  BY <1>1 DEF WorkingExists, Reasons, NoRecord, Working
<1>5. AbsenceTrue
  BY <1>1 DEF AbsenceTrue, IdleRecon
<1> QED
  BY <1>1, <1>2, <1>3, <1>4, <1>5 DEF RoutesInv

LEMMA RoutesInvKept ==
    ASSUME RoutesInv, [RoutesNext]_<<vars, routeVars>>
    PROVE  RoutesInv'
<1>0. /\ [Next]_vars /\ Followed' /\ frail \subseteq frail' /\ unlogged' \subseteq frail'
      /\ \A q \in late : LateArrival(q) => q.id \in frail'
  BY RoutesStep, FollowedKept
<1>1. Inv'
  BY <1>0, NextInv DEF RoutesInv
<1>2. /\ Observed' /\ WorkingExists' /\ AbsenceTrue' /\ Reasons'
  <2>1. CASE Next
    BY <1>0, <2>1, ObservedKept, WorkingExistsKept, AbsenceTrueKept, ReasonsKept DEF RoutesInv
  <2>2. CASE UNCHANGED vars
    <3>1. UNCHANGED <<orders, raced, disk, call, recon, venue, feed>>
      BY <2>2 DEF vars, registry, log, market
    <3>2. Observed'
      BY <3>1 DEF RoutesInv, Observed, Heard, FeedTells, BufferTells, CallTells, ReconTells, Exists
    <3>3. WorkingExists' /\ AbsenceTrue'
      BY <1>0, <3>1 DEF RoutesInv, WorkingExists, AbsenceTrue, Exists
    <3>4. Reasons'
      BY <1>0, <3>1 DEF RoutesInv, Reasons, Between
    <3> QED
      BY <3>2, <3>3, <3>4
  <2> QED
    BY <1>0, <2>1, <2>2
<1>3. ToldTrue'
  <2> SUFFICES ASSUME NEW id \in Ids, id \notin frail', told'[id] # NoAnswer
               PROVE  /\ known(orders'[id]) /\ Definitive(told'[id])
                      /\ told'[id] = Replayed(orders'[id])
                      /\ disk'[id].rejection = orders'[id].rejection
    BY DEF ToldTrue, AnswerTrue
  <2>1. CASE Answers(id)
    BY <2>1 DEF Answers
  <2>2. CASE told'[id] = told[id]
    <3>1. AnswerTrue(id)
      BY <1>0, <2>2 DEF RoutesInv, ToldTrue
    <3> QED
      BY <1>0, <2>2, <3>1, AnswerKept DEF AnswerTrue
  <2> QED
    BY <2>1, <2>2, AnswersGiven
<1> QED
  BY <1>0, <1>1, <1>2, <1>3 DEF RoutesInv

\* Once POST /orders is answered 201 or with a recorded rejection, every
\* retry of it gets the same answer, on both kinds of venue, under every
\* fault, through reconciles, feeds, cancels, amends and restarts, as long as
\* no append of the order fails and no request of it is executed after its
\* call has ended.
THEOREM AnswersStand == RoutesSpec => AnswersStable
<1>1. RoutesInit => RoutesInv
  BY RoutesInitially
<1>2. RoutesInv /\ [RoutesNext]_<<vars, routeVars>> => RoutesInv'
  BY RoutesInvKept
<1>3. RoutesInv /\ [RoutesNext]_<<vars, routeVars>> =>
        [\A id \in Ids : told[id] # NoAnswer =>
            told'[id] = told[id] \/ id \in frail']_<<vars, routeVars>>
  BY AnswersGiven DEF Answers
<1> QED
  BY <1>1, <1>2, <1>3, PTL DEF RoutesSpec, AnswersStable

=============================================================================
