----------------------------- MODULE OmsProofs -----------------------------
(***************************************************************************)
(* Proofs about Oms, for every number of orders, callers and reconciling   *)
(* threads, every fault and every bound.  First what the operations on a   *)
(* record keep: its type, that it is known, its lifecycle state up to a    *)
(* legal transition, and its fills up to growth.                           *)
(***************************************************************************)
EXTENDS Oms, SequenceTheorems, WellFoundedInduction, TLAPS

\* The result of a transition is the old state or a legal successor.
LEMMA TransitionLegal ==
    ASSUME NEW s, NEW next
    PROVE  \/ apply_transition(s, next) = s
           \/ can_transition(s, next) /\ apply_transition(s, next) = next
BY DEF apply_transition

\* The table leads from states to states and never away from a terminal one.
LEMMA TableTyped ==
    ASSUME NEW s, NEW next, can_transition(s, next)
    PROVE  s \in States /\ next \in States /\ ~is_terminal(s)
BY DEF can_transition, LegalTransitions, States, is_terminal

\* push_leg returns a record that differs in its legs only.
LEMMA PushLeg ==
    ASSUME NEW r \in Record, NEW id \in Nat
    PROVE  /\ push_leg(r, id) \in Record
           /\ push_leg(r, id).state = r.state
           /\ push_leg(r, id).filled = r.filled
           /\ push_leg(r, id).qty = r.qty
           /\ push_leg(r, id).rejection = r.rejection
<1>1. r.legs \in Seq(Leg)
  BY DEF Record
<1>2. [version |-> Len(r.legs) + 1, id |-> id] \in Leg
  BY <1>1, LenProperties DEF Leg
<1>3. Append(r.legs, [version |-> Len(r.legs) + 1, id |-> id]) \in Seq(Leg)
  BY <1>1, <1>2, AppendProperties
<1> QED
  BY <1>3 DEF push_leg, Record

\* note_exchange_id touches the exchange id and the legs only.
LEMMA NoteExchangeId ==
    ASSUME NEW r \in Record, NEW id \in Nat
    PROVE  /\ note_exchange_id(r, id) \in Record
           /\ note_exchange_id(r, id).state = r.state
           /\ note_exchange_id(r, id).filled = r.filled
           /\ note_exchange_id(r, id).qty = r.qty
           /\ note_exchange_id(r, id).rejection = r.rejection
<1> DEFINE s == [r EXCEPT !.xid = id]
<1>1. s \in Record /\ s.state = r.state /\ s.filled = r.filled /\ s.qty = r.qty
        /\ s.rejection = r.rejection
  BY DEF Record
<1> HIDE DEF s
<1>2. /\ push_leg(s, id) \in Record
      /\ push_leg(s, id).state = r.state
      /\ push_leg(s, id).filled = r.filled
      /\ push_leg(s, id).qty = r.qty
      /\ push_leg(s, id).rejection = r.rejection
  BY <1>1, PushLeg
<1> QED
  BY <1>2 DEF note_exchange_id, s

\* So does append_amend_leg.
LEMMA AppendAmendLeg ==
    ASSUME NEW r \in Record, NEW id \in Nat
    PROVE  /\ append_amend_leg(r, id) \in Record
           /\ append_amend_leg(r, id).state = r.state
           /\ append_amend_leg(r, id).filled = r.filled
<1> DEFINE p == push_leg(r, id)
<1>1. p \in Record /\ p.state = r.state /\ p.filled = r.filled
  BY PushLeg
<1> HIDE DEF p
<1>2. [p EXCEPT !.xid = id] \in Record
  BY <1>1 DEF Record
<1> QED
  BY <1>1, <1>2 DEF append_amend_leg, p, Record

\* An observation moves a record legally and never lowers its fills.
LEMMA ApplyObservation ==
    ASSUME NEW r \in Record, known(r), NEW state \in States, NEW filled \in Nat,
           NEW qty \in Nat, NEW lifecycle \in BOOLEAN
    PROVE  LET o == apply_observation(r, state, filled, qty, lifecycle) IN
           /\ o \in Record
           /\ known(o)
           /\ o.state = r.state \/ can_transition(r.state, o.state)
           /\ o.filled >= r.filled
           /\ o.rejection = r.rejection
<1> DEFINE o == apply_observation(r, state, filled, qty, lifecycle)
<1>1. HigherFill(r, filled) \in Nat /\ HigherFill(r, filled) >= r.filled
  BY DEF HigherFill, Record
<1>2. /\ apply_transition(r.state, state) \in States
      /\ apply_transition(r.state, state) # "none"
      /\ \/ apply_transition(r.state, state) = r.state
         \/ can_transition(r.state, apply_transition(r.state, state))
  BY DEF apply_transition, Record, States, known
<1>3. o \in Record
  BY <1>1, <1>2 DEF apply_observation, Record
<1>4. o.state = IF lifecycle THEN apply_transition(r.state, state) ELSE r.state
  BY DEF apply_observation, Record
<1>5. o.filled = HigherFill(r, filled) /\ o.rejection = r.rejection
  BY DEF apply_observation, Record
<1> QED
  BY <1>1, <1>2, <1>3, <1>4, <1>5 DEF known

-----------------------------------------------------------------------------
(* The leg table *)

\* A non-empty set of naturals has a least element.
LEMMA MinOfNats ==
    ASSUME NEW T, T \subseteq Nat, T # {}
    PROVE  \E x \in T : \A y \in T : x <= y
<1> DEFINE R == OpToRel(<,Nat)
<1>1. IsWellFoundedOn(R, Nat)
  BY NatLessThanWellFounded
<1>2. \A x, y \in Nat : y < x => <<y, x>> \in R
  BY DEF OpToRel
<1> HIDE DEF R
<1>3. \E x \in T : \A y \in T : ~ (<<y, x>> \in R)
  BY <1>1, WFMin
<1>4. PICK x \in T : \A y \in T : ~ (<<y, x>> \in R)
  BY <1>3
<1>5. \A y \in T : x <= y
  <2> SUFFICES ASSUME NEW y \in T PROVE x <= y
    OBVIOUS
  <2>1. x \in Nat /\ y \in Nat
    OBVIOUS
  <2>2. ~(y < x)
    BY <1>2, <1>4, <2>1
  <2> QED
    BY <2>1, <2>2
<1> QED
  BY <1>5

\* Max of a bounded, non-empty set of naturals is its greatest element.
LEMMA MaxOfBounded ==
    ASSUME NEW n \in Nat, NEW S, S \subseteq 0..n, S # {}
    PROVE  Max(S) \in S /\ \A y \in S : Max(S) >= y
<1> DEFINE T == {n - i : i \in S}
<1>1. \A i \in S : n - i \in Nat
  OBVIOUS
<1>5. T \subseteq Nat /\ T # {}
  BY <1>1
<1>2. PICK x \in T : \A y \in T : x <= y
  BY <1>5, MinOfNats
<1>3. PICK i \in S : x = n - i
  OBVIOUS
<1>4. \A y \in S : i >= y
  <2> TAKE y \in S
  <2>1. x <= n - y
    BY <1>2
  <2> QED
    BY <2>1, <1>3
<1> QED
  BY <1>4 DEF Max
\* leg_index_of answers 0 or the newest leg with the id.
LEMMA LegIndex ==
    ASSUME NEW r \in Record, NEW id
    PROVE  LET n == leg_index_of(r, id) IN
           /\ n \in 0..Len(r.legs)
           /\ n # 0 => r.legs[n].id = id
           /\ \A i \in DOMAIN r.legs : r.legs[i].id = id => i <= n
<1> DEFINE S == {0} \cup {i \in DOMAIN r.legs : r.legs[i].id = id}
<1>1. Len(r.legs) \in Nat /\ DOMAIN r.legs = 1..Len(r.legs)
  BY LenProperties DEF Record
<1>2. S \subseteq 0..Len(r.legs) /\ S # {}
  BY <1>1
<1>3. Max(S) \in S /\ \A y \in S : Max(S) >= y
  BY <1>1, <1>2, MaxOfBounded
<1>4. leg_index_of(r, id) = Max(S)
  BY DEF leg_index_of
<1> HIDE DEF S
<1>5. Max(S) \in 0..Len(r.legs)
  BY <1>2, <1>3
<1>6. Max(S) # 0 => r.legs[Max(S)].id = id
  BY <1>3 DEF S
<1>7. \A i \in DOMAIN r.legs : r.legs[i].id = id => i \in S
  BY DEF S
<1>8. \A i \in DOMAIN r.legs : r.legs[i].id = id => i <= Max(S)
  BY <1>1, <1>3, <1>5, <1>7
<1> QED
  BY <1>4, <1>5, <1>6, <1>8

-----------------------------------------------------------------------------
(* Reports and snapshots *)

\* Taking in a report's exchange id changes neither state nor fills.
LEMMA ArbitratedKeeps ==
    ASSUME NEW r \in Record, NEW report \in Report
    PROVE  /\ Arbitrated(r, report) \in Record
           /\ Arbitrated(r, report).state = r.state
           /\ Arbitrated(r, report).filled = r.filled
           /\ Arbitrated(r, report).rejection = r.rejection
<1>1. report.xid \in Nat
  BY DEF Report
<1> QED
  BY <1>1, NoteExchangeId DEF Arbitrated

\* An execution report moves a record legally and never lowers its fills.
LEMMA ApplyArbitratedReport ==
    ASSUME NEW r \in Record, known(r), NEW report \in Report
    PROVE  LET o == apply_arbitrated_report(r, report) IN
           /\ o \in Record
           /\ known(o)
           /\ o.state = r.state \/ can_transition(r.state, o.state)
           /\ o.filled >= r.filled
           /\ o.rejection = r.rejection
<1> DEFINE a == Arbitrated(r, report)
           drives == DrivesLifecycle(r, report)
<1>1. a \in Record /\ a.state = r.state /\ a.filled = r.filled /\ a.rejection = r.rejection
  BY ArbitratedKeeps
<1>2. report.state \in States /\ report.filled \in Nat /\ drives \in BOOLEAN
  BY DEF Report, VenueStates, DrivesLifecycle
<1>3. known(a)
  BY <1>1 DEF known
<1>4. apply_arbitrated_report(r, report) = apply_observation(a, report.state, report.filled, 0, drives)
  BY DEF apply_arbitrated_report
<1> HIDE DEF a, drives
<1> QED
  BY <1>1, <1>2, <1>3, <1>4, ApplyObservation

\* The empty entry and the record that place stages.
LEMMA NoRecordTyped ==
    /\ NoRecord \in Record /\ ~known(NoRecord) /\ NoRecord.filled = 0
    /\ \A qty \in Nat : /\ NewRecord(qty) \in Record
                        /\ NewRecord(qty).state = "Pending"
                        /\ NewRecord(qty).filled = 0
                        /\ NewRecord(qty).qty = qty
                        /\ NewRecord(qty).rejection = "none"
                        /\ known(NewRecord(qty))
<1>1. <<>> \in Seq(Leg)
  OBVIOUS
<1>2. NoRecord \in Record
  BY <1>1 DEF NoRecord, Record, Rejections
<1>3. ~known(NoRecord) /\ NoRecord.filled = 0 /\ NoRecord.rejection = "none"
  BY DEF NoRecord, known
<1> QED
  BY <1>2, <1>3 DEF NewRecord, Record, States, known

\* An adopted record is typed and known.
LEMMA RecordFromSnapshot ==
    ASSUME NEW s \in Snapshot
    PROVE  /\ record_from_snapshot(s) \in Record
           /\ known(record_from_snapshot(s))
<1>1. [version |-> 1, id |-> s.xid] \in Leg
  BY DEF Leg, Snapshot
<1>2. <<[version |-> 1, id |-> s.xid]>> \in Seq(Leg)
  BY <1>1
<1>3. <<>> \in Seq(Leg)
  OBVIOUS
<1>4. s.state \in States /\ s.state # "none" /\ s.filled \in Nat /\ s.qty \in Nat /\ s.xid \in Nat
  BY DEF Snapshot, VenueStates, States
<1>5. (IF s.xid = 0 THEN <<>> ELSE <<[version |-> 1, id |-> s.xid]>>) \in Seq(Leg)
  BY <1>2, <1>3
<1> QED
  BY <1>4, <1>5, NoRecordTyped DEF record_from_snapshot, Record, known

-----------------------------------------------------------------------------
(* Replay *)

EventTypes == {"place_submitted", "place_accepted", "adopted", "rejected", "amended", "state"}

\* The version an event carries is a positive number.
LEMMA VersionTyped ==
    ASSUME NEW r \in Record
    PROVE  CurrentVersion(r) \in Nat
<1>1. r.legs \in Seq(Leg)
  BY DEF Record
<1>2. CASE r.legs = <<>>
  BY <1>2 DEF CurrentVersion
<1>3. CASE r.legs # <<>>
  <2>1. Len(r.legs) \in DOMAIN r.legs
    BY <1>1, <1>3, EmptySeq, LenProperties
  <2>2. r.legs[Len(r.legs)] \in Leg
    BY <1>1, <2>1, ElementOfSeq, LenProperties
  <2> QED
    BY <1>3, <2>2 DEF CurrentVersion, Leg
<1> QED
  BY <1>2, <1>3

\* What replay makes of an entry by a placing event.
LEMMA ReplayPlacedTyped ==
    ASSUME NEW r \in Record, NEW type \in {"place_submitted", "place_accepted", "adopted"}
    PROVE  LET e == ReplayPlaced(type, r) IN
           /\ e \in Record
           /\ type = "place_submitted" => e = NewRecord(r.qty)
           /\ type = "place_accepted" => e.state = "Live" /\ e.filled = 0
           /\ type = "adopted" => e.state = r.state /\ e.filled = r.filled
           /\ known(r) => known(e)
<1> DEFINE leg == [version |-> CurrentVersion(r), id |-> r.xid]
           fresh == NewRecord(r.qty)
           legged == IF r.xid = 0 THEN fresh
                     ELSE [fresh EXCEPT !.xid = r.xid, !.legs = <<leg>>]
<1>1. leg \in Leg
  BY VersionTyped DEF Leg, Record
<1>2. <<leg>> \in Seq(Leg)
  BY <1>1
<1>3. fresh \in Record /\ known(fresh) /\ fresh.filled = 0
  BY NoRecordTyped DEF Record
<1>4. ReplayPlaced(type, r) =
        CASE type = "place_submitted" -> fresh
          [] type = "place_accepted"  -> [legged EXCEPT !.state = "Live"]
          [] type = "adopted" -> [legged EXCEPT !.state = r.state, !.filled = r.filled]
  BY DEF ReplayPlaced
<1> HIDE DEF leg, fresh
<1>5. legged \in Record /\ legged.filled = 0
  BY <1>2, <1>3 DEF Record
<1> HIDE DEF legged
<1>6. CASE type = "place_submitted"
  BY <1>3, <1>4, <1>6 DEF fresh
<1>7. CASE type = "place_accepted"
  <2>1. ReplayPlaced(type, r) = [legged EXCEPT !.state = "Live"]
    BY <1>4, <1>7
  <2>2. [legged EXCEPT !.state = "Live"] \in Record
    BY <1>5 DEF Record, States
  <2>3. [legged EXCEPT !.state = "Live"].state = "Live" /\ [legged EXCEPT !.state = "Live"].filled = 0
    BY <1>5 DEF Record
  <2> QED
    BY <1>7, <2>1, <2>2, <2>3 DEF known
<1>8. CASE type = "adopted"
  <2>1. ReplayPlaced(type, r) = [legged EXCEPT !.state = r.state, !.filled = r.filled]
    BY <1>4, <1>8
  <2> QED
    BY <1>5, <1>8, <2>1 DEF Record, known
<1> QED
  BY <1>6, <1>7, <1>8

\* A rejection ends an entry and leaves its fills.
LEMMA ReplayRejectedTyped ==
    ASSUME NEW d \in Record, NEW r \in Record
    PROVE  /\ ReplayRejected(d, r) \in Record
           /\ ReplayRejected(d, r).state = "Rejected"
           /\ ReplayRejected(d, r).filled = d.filled
BY DEF ReplayRejected, Record, States

\* An amend leaves the lifecycle and the fills of an entry.
LEMMA ReplayAmendedTyped ==
    ASSUME NEW d \in Record, NEW r \in Record
    PROVE  /\ ReplayAmended(d, r) \in Record
           /\ ReplayAmended(d, r).state = d.state
           /\ ReplayAmended(d, r).filled = d.filled
<1> DEFINE v == CurrentVersion(r)
           legs == IF v <= Len(d.legs)
                   THEN IF r.xid = 0 THEN d.legs ELSE [d.legs EXCEPT ![v].id = r.xid]
                   ELSE Append(d.legs, [version |-> v, id |-> r.xid])
<1>1. v \in Nat
  BY VersionTyped
<1>2. d.legs \in Seq(Leg) /\ r.xid \in Nat
  BY DEF Record
<1> HIDE DEF v
<1>3. [version |-> v, id |-> r.xid] \in Leg
  BY <1>1, <1>2 DEF Leg
<1>4. Append(d.legs, [version |-> v, id |-> r.xid]) \in Seq(Leg)
  BY <1>2, <1>3, AppendProperties
<1>5. [d.legs EXCEPT ![v].id = r.xid] \in Seq(Leg)
  <2> DEFINE n == Len(d.legs)
             m == [d.legs EXCEPT ![v].id = r.xid]
  <2>1. n \in Nat /\ d.legs \in [1..n -> Leg]
    BY <1>2, LenProperties
  <2>2. \A leg \in Leg : [leg EXCEPT !.id = r.xid] \in Leg
    BY <1>2 DEF Leg
  <2> HIDE DEF n
  <2>3. m \in [1..n -> Leg]
    BY <2>1, <2>2
  <2> QED
    BY <2>1, <2>3, IsASeq
<1>6. legs \in Seq(Leg)
  BY <1>2, <1>4, <1>5
<1>7. ReplayAmended(d, r) = [d EXCEPT !.qty = r.qty, !.legs = legs,
                                      !.xid = IF r.xid = 0 THEN @ ELSE r.xid]
  BY DEF ReplayAmended, v
<1> HIDE DEF legs
<1> QED
  BY <1>6, <1>7 DEF Record

\* A state event that is a legal move of the entry is taken over.
LEMMA ReplayStateTyped ==
    ASSUME NEW d \in Record, NEW r \in Record, known(d), known(r)
    PROVE  /\ ReplayState(d, r) \in Record
           /\ known(ReplayState(d, r))
           /\ (r.state = d.state \/ can_transition(d.state, r.state)) =>
                 ReplayState(d, r).state = r.state
           /\ r.filled >= d.filled => ReplayState(d, r).filled = r.filled
<1> DEFINE seen == apply_observation(d, r.state, r.filled, 0, TRUE)
<1>1. r.state \in States /\ r.filled \in Nat /\ r.xid \in Nat /\ d.filled \in Nat
  BY DEF Record, known
<1>2. seen \in Record /\ known(seen)
  BY <1>1, ApplyObservation
<1>3. seen.state = apply_transition(d.state, r.state) /\ seen.filled = HigherFill(d, r.filled)
  BY DEF apply_observation, Record
<1>4. (r.state = d.state \/ can_transition(d.state, r.state)) => seen.state = r.state
  BY <1>3 DEF apply_transition
<1> HIDE DEF seen
<1>5. r.filled >= d.filled => seen.filled = r.filled
  BY <1>1, <1>3 DEF HigherFill
<1>6. /\ note_exchange_id(seen, r.xid) \in Record
      /\ note_exchange_id(seen, r.xid).state = seen.state
      /\ note_exchange_id(seen, r.xid).filled = seen.filled
  BY <1>1, <1>2, NoteExchangeId
<1>7. ReplayState(d, r) = IF d.xid = 0 THEN note_exchange_id(seen, r.xid) ELSE seen
  BY DEF ReplayState, seen
<1> QED
  BY <1>2, <1>4, <1>5, <1>6, <1>7 DEF known

\* Replaying one more event keeps an entry typed and known.
LEMMA ReplayTyped ==
    ASSUME NEW d \in Record, NEW r \in Record, known(r), NEW type \in EventTypes
    PROVE  /\ replay(d, type, r) \in Record
           /\ known(d) => known(replay(d, type, r))
<1>1. CASE type \in {"place_submitted", "place_accepted", "adopted"}
  <2>1. replay(d, type, r) = ReplayPlaced(type, r)
    BY <1>1 DEF replay
  <2> QED
    BY <1>1, <2>1, ReplayPlacedTyped
<1>2. CASE type = "rejected"
  <2>1. replay(d, type, r) = ReplayRejected(d, r)
    BY <1>2 DEF replay
  <2> QED
    BY <2>1, ReplayRejectedTyped DEF known
<1>3. CASE type = "amended"
  <2>1. replay(d, type, r) = IF known(d) THEN ReplayAmended(d, r) ELSE d
    BY <1>3 DEF replay
  <2> QED
    BY <2>1, ReplayAmendedTyped DEF known
<1>4. CASE type = "state"
  <2>1. replay(d, type, r) = IF known(d) THEN ReplayState(d, r) ELSE d
    BY <1>4 DEF replay
  <2> QED
    BY <2>1, ReplayStateTyped
<1> QED
  BY <1>1, <1>2, <1>3, <1>4 DEF EventTypes

-----------------------------------------------------------------------------
(* The inductive invariant *)

PlaceOpen(c) == call[c].pc = "call" /\ call[c].op = "place"

\* mutex_ is held across steps only by a caller that applies raced reports,
\* whose id is no longer in flight, and by a thread between two appends.
LockOwned ==
    /\ \A c \in Clients : call[c].pc = "drain" =>
          lock = c /\ call[c].id \notin flying /\ call[c].raced # <<>>
    /\ \A t \in Recons : recon[t].pc = "absent" =>
          lock = t /\ orders[recon[t].item].state = "Rejected"

\* A caller in the OMS works on an order the registry holds.
CallsKnown == \A c \in Clients : call[c].pc # "idle" => known(orders[call[c].id])

\* While a place is open no other caller is at its id.
PlaceAlone ==
    \A c, d \in Clients :
        PlaceOpen(c) /\ call[d].pc # "idle" /\ call[d].id = call[c].id => c = d

\* The ids a reconciling thread still has to resolve, or is resolving.
Pursued(t) == recon[t].work \cup ({recon[t].item} \ {None})

\* They are in the registry and none of them is owned by an open place.
WorkKnown ==
    \A t \in Recons : \A id \in Pursued(t) :
        /\ known(orders[id])
        /\ \A c \in Clients : PlaceOpen(c) => call[c].id # id

\* Nothing is on record about an order the registry or the log does not hold.
BlankUnknown ==
    \A id \in Ids : /\ ~known(orders[id]) => orders[id].filled = 0
                    /\ ~known(disk[id]) => disk[id].filled = 0

Inv ==
    /\ TypeOK
    /\ LockOwned
    /\ CallsKnown
    /\ PlaceAlone
    /\ WorkKnown
    /\ PlaceOwnsRecord
    /\ OneOpenCall
    /\ BlankUnknown
    /\ DiskAgrees

-----------------------------------------------------------------------------
(* What a step does to the registry and the log: at most one record moves, *)
(* and the event that is written, if any, says so.                         *)

Advances(old, r) ==
    /\ known(r)
    /\ known(old) => /\ r.state = old.state \/ can_transition(old.state, r.state)
                     /\ r.filled >= old.filled

Matches(type, old, r) ==
    \/ type = "state" /\ known(old)
    \/ type = "amended" /\ known(old) /\ r.state = old.state /\ r.filled = old.filled
    \/ type = "rejected" /\ r.state = "Rejected" /\ r.filled = old.filled
    \/ type = "place_submitted" /\ r.state = "Pending" /\ r.filled = 0
    \/ type = "place_accepted" /\ r.state = "Live" /\ r.filled = 0
    \/ type = "adopted"

Written(id, r) ==
    \/ UNCHANGED log /\ r.state = orders[id].state /\ r.filled = orders[id].filled
    \/ LogFails(id)
    \/ \E type \in EventTypes : Matches(type, orders[id], r) /\ Logged(id, type, r)

Moved(id, r) ==
    /\ orders' = [orders EXCEPT ![id] = r]
    /\ Advances(orders[id], r)
    /\ Written(id, r)

RegistryMoves ==
    \/ \E id \in Ids, r \in Record : Moved(id, r)
    \/ UNCHANGED <<orders, disk, unlogged>> /\ failsLeft' \in Nat

\* A record that moved keeps registry and log typed and in agreement.
LEMMA MovedKeeps ==
    ASSUME TypeOK, BlankUnknown, DiskAgrees, NEW id \in Ids, NEW r \in Record, Moved(id, r)
    PROVE  /\ orders' \in [Ids -> Record] /\ disk' \in [Ids -> Record]
           /\ unlogged' \subseteq Ids /\ failsLeft' \in Nat
           /\ \A i \in Ids : known(orders[i]) => Advances(orders[i], orders'[i])
           /\ \A i \in Ids : known(disk[i]) => known(disk'[i])
           /\ BlankUnknown' /\ DiskAgrees'
<1>1. orders \in [Ids -> Record] /\ disk \in [Ids -> Record] /\ unlogged \subseteq Ids
        /\ failsLeft \in Nat
  BY DEF TypeOK
<1>2. orders' = [orders EXCEPT ![id] = r] /\ known(r)
  BY DEF Moved, Advances
<1>3. orders' \in [Ids -> Record]
  BY <1>1, <1>2
<1>4. \A i \in Ids : known(orders[i]) => Advances(orders[i], orders'[i])
  <2> SUFFICES ASSUME NEW i \in Ids, known(orders[i]) PROVE Advances(orders[i], orders'[i])
    OBVIOUS
  <2>1. CASE i = id
    BY <1>1, <1>2, <2>1 DEF Moved
  <2>2. CASE i # id
    <3>1. orders'[i] = orders[i] /\ orders[i].filled \in Nat
      BY <1>1, <1>2, <2>2 DEF Record
    <3> QED
      BY <3>1 DEF Advances
  <2> QED
    BY <2>1, <2>2
<1>5. CASE UNCHANGED log /\ r.state = orders[id].state /\ r.filled = orders[id].filled
  BY <1>1, <1>2, <1>3, <1>4, <1>5 DEF log, BlankUnknown, DiskAgrees, known
<1>6. CASE LogFails(id)
  <2>1. unlogged' = unlogged \cup {id} /\ disk' = disk /\ failsLeft' \in Nat
    BY <1>1, <1>6 DEF LogFails
  <2> QED
    BY <1>1, <1>2, <1>3, <1>4, <2>1 DEF BlankUnknown, DiskAgrees, known
<1>7. ASSUME NEW type \in EventTypes, Matches(type, orders[id], r), Logged(id, type, r)
      PROVE  /\ disk' \in [Ids -> Record] /\ unlogged' \subseteq Ids /\ failsLeft' \in Nat
             /\ \A i \in Ids : known(disk[i]) => known(disk'[i])
             /\ BlankUnknown' /\ DiskAgrees'
  <2> DEFINE d == disk[id]
             e == replay(d, type, r)
  <2>1. disk' = [disk EXCEPT ![id] = e] /\ unlogged' = unlogged /\ failsLeft' = failsLeft
    BY <1>7 DEF Logged
  <2>2. d \in Record /\ orders[id] \in Record
    BY <1>1
  <2>3. e \in Record /\ (known(d) => known(e))
    BY <1>2, <2>2, ReplayTyped
  <2>4. known(e) \/ e = d
    <3>1. CASE type \in {"place_submitted", "place_accepted", "adopted"}
      <4>1. e = ReplayPlaced(type, r)
        BY <3>1 DEF replay
      <4> QED
        BY <1>2, <3>1, <4>1, ReplayPlacedTyped
    <3>2. CASE type = "rejected"
      <4>1. e = ReplayRejected(d, r)
        BY <3>2 DEF replay
      <4> QED
        BY <2>2, <4>1, ReplayRejectedTyped DEF known
    <3>3. CASE type \in {"amended", "state"}
      BY <2>3, <3>3 DEF replay
    <3> QED
      BY <3>1, <3>2, <3>3 DEF EventTypes
  <2>5. d.state = orders[id].state /\ d.filled = orders[id].filled =>
           e.state = r.state /\ e.filled = r.filled
    <3> SUFFICES ASSUME d.state = orders[id].state, d.filled = orders[id].filled
                 PROVE  e.state = r.state /\ e.filled = r.filled
      OBVIOUS
    <3>1. CASE type = "state"
      <4>1. known(orders[id]) /\ known(d)
        BY <1>7, <3>1 DEF Matches, known
      <4>2. r.state = d.state \/ can_transition(d.state, r.state)
        BY <4>1 DEF Moved, Advances
      <4>3. r.filled >= d.filled
        BY <4>1 DEF Moved, Advances
      <4>4. e = ReplayState(d, r)
        BY <3>1, <4>1 DEF replay
      <4> QED
        BY <1>2, <2>2, <4>1, <4>2, <4>3, <4>4, ReplayStateTyped
    <3>2. CASE type = "amended"
      <4>1. known(d) /\ r.state = d.state /\ r.filled = d.filled
        BY <1>7, <3>2 DEF Matches, known
      <4>2. e = ReplayAmended(d, r)
        BY <3>2, <4>1 DEF replay
      <4> QED
        BY <2>2, <4>1, <4>2, ReplayAmendedTyped
    <3>3. CASE type = "rejected"
      <4>1. r.state = "Rejected" /\ r.filled = d.filled
        BY <1>7, <3>3 DEF Matches
      <4>2. e = ReplayRejected(d, r)
        BY <3>3 DEF replay
      <4> QED
        BY <2>2, <4>1, <4>2, ReplayRejectedTyped
    <3>4. CASE type \in {"place_submitted", "place_accepted", "adopted"}
      <4>1. e = ReplayPlaced(type, r)
        BY <3>4 DEF replay
      <4> HIDE DEF e
      <4>2. r.qty \in Nat
        BY DEF Record
      <4>3. /\ type = "place_submitted" => r.state = "Pending" /\ r.filled = 0
            /\ type = "place_accepted" => r.state = "Live" /\ r.filled = 0
        BY <1>7 DEF Matches
      <4>4. /\ type = "place_submitted" => e = NewRecord(r.qty)
            /\ type = "place_accepted" => e.state = "Live" /\ e.filled = 0
            /\ type = "adopted" => e.state = r.state /\ e.filled = r.filled
        BY <3>4, <4>1, ReplayPlacedTyped
      <4>5. NewRecord(r.qty).state = "Pending" /\ NewRecord(r.qty).filled = 0
        BY <4>2, NoRecordTyped
      <4> QED
        BY <3>4, <4>3, <4>4, <4>5
    <3> QED
      BY <3>1, <3>2, <3>3, <3>4 DEF EventTypes
  <2> HIDE DEF e
  <2>6. disk' \in [Ids -> Record] /\ \A i \in Ids : known(disk[i]) => known(disk'[i])
    BY <1>1, <2>1, <2>3
  <2>7. BlankUnknown'
    BY <1>1, <1>2, <2>1, <2>4 DEF BlankUnknown
  <2>8. DiskAgrees'
    BY <1>1, <1>2, <2>1, <2>5 DEF DiskAgrees
  <2> QED
    BY <1>1, <2>1, <2>6, <2>7, <2>8
<1> QED
  BY <1>3, <1>4, <1>5, <1>6, <1>7 DEF Moved, Written

\* A matching event, appended or lost, is a write of the record.
LEMMA AppendWrites ==
    ASSUME NEW id \in Ids, NEW r, NEW type \in EventTypes, Matches(type, orders[id], r),
           append_event(id, type, r)
    PROVE  Written(id, r)
BY DEF append_event, Written

\* An observation of a known order, with its state event, is a move.
LEMMA ObservedMoves ==
    ASSUME TypeOK, NEW id \in Ids, known(orders[id]), NEW a \in Record,
           a.state = orders[id].state, a.filled = orders[id].filled,
           NEW r \in Record, Advances(a, r), orders' = [orders EXCEPT ![id] = r],
           IF r # a THEN append_event(id, "state", r) ELSE UNCHANGED log
    PROVE  Moved(id, r)
<1>1. known(a)
  BY DEF known
<1>2. Advances(orders[id], r)
  BY <1>1 DEF Advances
<1>3. Matches("state", orders[id], r)
  BY DEF Matches
<1>4. Written(id, r)
  <2>1. CASE r # a
    BY <1>3, <2>1, AppendWrites DEF EventTypes
  <2>2. CASE r = a
    BY <2>2 DEF Written
  <2> QED
    BY <2>1, <2>2
<1> QED
  BY <1>2, <1>4 DEF Moved

\* apply_arbitrated_report with its state event moves a known order.
LEMMA ApplyReportMoves ==
    ASSUME TypeOK, NEW id \in Ids, known(orders[id]), NEW report \in Report,
           ApplyReport(id, report)
    PROVE  \E r \in Record : Moved(id, r)
<1> DEFINE a == Arbitrated(orders[id], report)
           r == apply_arbitrated_report(orders[id], report)
<1>1. orders[id] \in Record
  BY DEF TypeOK
<1>2. a \in Record /\ a.state = orders[id].state /\ a.filled = orders[id].filled
  BY <1>1, ArbitratedKeeps
<1>3. r \in Record /\ Advances(orders[id], r)
  BY <1>1, ApplyArbitratedReport DEF Advances
<1>4. /\ orders' = [orders EXCEPT ![id] = r]
      /\ IF r # a THEN append_event(id, "state", r) ELSE UNCHANGED log
  BY DEF ApplyReport
<1> HIDE DEF a, r
<1>5. Advances(a, r)
  BY <1>2, <1>3 DEF Advances, known
<1> QED
  BY <1>2, <1>3, <1>4, <1>5, ObservedMoves

\* The first critical section of place moves the id it stages or rejects.
LEMMA PlaceMoves ==
    ASSUME Inv, NEW c \in Clients, NEW id \in Ids, NEW qty \in Quantities,
           PlaceRiskRejected(c, id, qty) \/ PlaceStaged(c, id, qty)
    PROVE  \E r \in Record : Moved(id, r)
<1> USE OmsAssumption DEF OmsAssumption
<1>1. ~known(orders[id]) /\ orders[id].filled = 0 /\ qty \in Nat
  BY DEF PlaceRiskRejected, PlaceStaged, Inv, BlankUnknown
<1>2. CASE PlaceRiskRejected(c, id, qty)
  <2> DEFINE r == [NewRecord(qty) EXCEPT !.state = "Rejected", !.rejection = "risk"]
  <2>1. r \in Record /\ r.state = "Rejected" /\ r.filled = 0
    <3>1. NewRecord(qty) \in Record /\ NewRecord(qty).filled = 0
      BY <1>1, NoRecordTyped
    <3> QED
      BY <3>1 DEF Record, States, Rejections
  <2>2. orders' = [orders EXCEPT ![id] = r] /\ append_event(id, "rejected", r)
    BY <1>2 DEF PlaceRiskRejected
  <2> HIDE DEF r
  <2>3. Written(id, r)
    BY <1>1, <2>1, <2>2, AppendWrites DEF Matches, EventTypes
  <2> QED
    BY <1>1, <2>1, <2>2, <2>3 DEF Moved, Advances, known
<1>3. CASE PlaceStaged(c, id, qty)
  <2> DEFINE r == NewRecord(qty)
  <2>1. r \in Record /\ r.state = "Pending" /\ r.filled = 0
    BY <1>1, NoRecordTyped
  <2>2. orders' = [orders EXCEPT ![id] = r] /\ Logged(id, "place_submitted", r)
    BY <1>3 DEF PlaceStaged
  <2> HIDE DEF r
  <2>3. Written(id, r)
    BY <2>1, <2>2 DEF Matches, EventTypes, Written
  <2> QED
    BY <1>1, <2>1, <2>2, <2>3 DEF Moved, Advances, known
<1> QED
  BY <1>2, <1>3

\* The second critical section of place moves the id it owns.
LEMMA PlaceReturnMoves ==
    ASSUME Inv, NEW c \in Clients, PlaceAccepted(c) \/ PlaceRefused(c)
    PROVE  RegistryMoves
<1> DEFINE id == call[c].id
           o == orders[id]
<1>1. PlaceOpen(c) /\ id \in Ids /\ o = NewRecord(call[c].qty) /\ call[c].qty \in Nat
        /\ call[c].ack \in Nat
  BY DEF PlaceAccepted, PlaceRefused, Returns, PlaceOpen, Inv, TypeOK, PlaceOwnsRecord, Call
<1>2. o \in Record /\ o.state = "Pending" /\ o.filled = 0 /\ known(o)
  BY <1>1, NoRecordTyped
<1>3. can_transition("Pending", "Live") /\ can_transition("Pending", "Rejected")
  BY DEF can_transition, LegalTransitions, States
<1>4. CASE PlaceAccepted(c)
  <2> DEFINE n == note_exchange_id(o, call[c].ack)
             r == [n EXCEPT !.state = apply_transition(@, "Live")]
  <2>1. n \in Record /\ n.state = "Pending" /\ n.filled = 0
    BY <1>1, <1>2, NoteExchangeId
  <2>2. /\ orders' = [orders EXCEPT ![id] = r]
        /\ Logged(id, "place_accepted", r) \/ LogFails(id)
    BY <1>4 DEF PlaceAccepted
  <2> HIDE DEF n
  <2>3. r \in Record /\ r.state = "Live" /\ r.filled = 0
    BY <1>3, <2>1 DEF Record, States, apply_transition
  <2> HIDE DEF r
  <2>4. Written(id, r)
    BY <2>2, <2>3 DEF Written, Matches, EventTypes
  <2>5. Advances(o, r)
    BY <1>2, <1>3, <2>3 DEF Advances, known
  <2> QED
    BY <1>1, <2>2, <2>3, <2>4, <2>5 DEF Moved, RegistryMoves
<1>5. CASE PlaceRefused(c)
  <2> DEFINE r == [o EXCEPT !.state = "Rejected", !.rejection = "venue"]
  <2>1. orders' = [orders EXCEPT ![id] = r] /\ append_event(id, "rejected", r)
    BY <1>2, <1>3, <1>5 DEF PlaceRefused
  <2>2. r \in Record /\ r.state = "Rejected" /\ r.filled = 0
    BY <1>2 DEF Record, States, Rejections
  <2> HIDE DEF r
  <2>3. Written(id, r)
    BY <1>1, <1>2, <2>1, <2>2, AppendWrites DEF Matches, EventTypes
  <2>4. Advances(o, r)
    BY <1>2, <1>3, <2>2 DEF Advances, known
  <2> QED
    BY <1>1, <2>1, <2>2, <2>3, <2>4 DEF Moved, RegistryMoves
<1> QED
  BY <1>4, <1>5

\* A caller beyond its first critical section is at a known order.
LEMMA AtKnownOrder ==
    ASSUME Inv, NEW c \in Clients, call[c].pc # "idle"
    PROVE  /\ call[c].id \in Ids /\ orders[call[c].id] \in Record /\ known(orders[call[c].id])
           /\ call[c].ack \in Nat /\ call[c].qty \in Nat /\ call[c].raced \in Seq(Report)
BY DEF Inv, TypeOK, CallsKnown, Call

\* One iteration of drain_raced_reports is a move.
LEMMA DrainMoves ==
    ASSUME Inv, NEW c \in Clients, Drain(c)
    PROVE  RegistryMoves
<1>1. call[c].pc = "drain" /\ call[c].raced # <<>>
  BY DEF Drain, Inv, LockOwned
<1>2. Head(call[c].raced) \in Report
  BY <1>1, AtKnownOrder, HeadTailProperties
<1>3. ApplyReport(call[c].id, Head(call[c].raced))
  BY DEF Drain
<1> QED
  BY <1>1, <1>2, <1>3, AtKnownOrder, ApplyReportMoves DEF Inv, RegistryMoves

\* The ack of a cancel is a move.
LEMMA CancelMoves ==
    ASSUME Inv, NEW c \in Clients, CancelAccepted(c)
    PROVE  RegistryMoves
<1> DEFINE id == call[c].id
           n == note_exchange_id(orders[id], venue[id].xid)
           r == [n EXCEPT !.state = "Canceled"]
<1>1. /\ id \in Ids /\ orders[id] \in Record /\ known(orders[id]) /\ venue[id].xid \in Nat
  <2>1. id \in Ids /\ orders[id] \in Record /\ known(orders[id])
    BY AtKnownOrder DEF CancelAccepted, Returns
  <2> QED
    BY <2>1 DEF Inv, TypeOK, VenueOrder
<1>2. n \in Record /\ n.state = orders[id].state /\ n.filled = orders[id].filled
  BY <1>1, NoteExchangeId
<1>3. IF can_transition(n.state, "Canceled")
      THEN orders' = [orders EXCEPT ![id] = r] /\ append_event(id, "state", r)
      ELSE orders' = [orders EXCEPT ![id] = n] /\ UNCHANGED log
  BY DEF CancelAccepted
<1> HIDE DEF n
<1>4. r \in Record /\ r.state = "Canceled" /\ r.filled = n.filled
  BY <1>2 DEF Record, States
<1>5. n.filled \in Nat
  BY <1>2 DEF Record
<1> HIDE DEF r, id
<1>6. CASE can_transition(n.state, "Canceled")
  <2>1. Advances(n, r) /\ r # n
    <3>1. n.state # "Canceled"
      BY <1>6, TableTyped DEF is_terminal
    <3> QED
      BY <1>4, <1>5, <1>6, <3>1 DEF Advances, known
  <2>2. orders' = [orders EXCEPT ![id] = r] /\ append_event(id, "state", r)
    BY <1>3, <1>6
  <2> QED
    BY <1>1, <1>2, <1>4, <2>1, <2>2, ObservedMoves DEF Inv, RegistryMoves
<1>7. CASE ~can_transition(n.state, "Canceled")
  <2>1. orders' = [orders EXCEPT ![id] = n] /\ UNCHANGED log
    BY <1>3, <1>7
  <2>2. Advances(n, n)
    BY <1>1, <1>2, <1>5 DEF Advances, known
  <2> QED
    BY <1>1, <1>2, <2>1, <2>2, ObservedMoves DEF Inv, RegistryMoves
<1> QED
  BY <1>6, <1>7

\* The newest unknown id of the raced reports is an exchange order id.
LEMMA NewestUnknownTyped ==
    ASSUME NEW r \in Record, NEW q \in Seq(Report)
    PROVE  NewestUnknown(r, q) \in Nat
<1> DEFINE unknown == {i \in DOMAIN q : q[i].xid # 0 /\ leg_index_of(r, q[i].xid) = 0}
<1>1. Len(q) \in Nat /\ DOMAIN q = 1..Len(q)
  BY LenProperties
<1>2. unknown \subseteq 0..Len(q)
  BY <1>1
<1>3. CASE r.legs = <<>> \/ unknown = {}
  BY <1>3 DEF NewestUnknown
<1>4. CASE r.legs # <<>> /\ unknown # {}
  <2>1. Max(unknown) \in unknown
    BY <1>1, <1>2, <1>4, MaxOfBounded
  <2>2. NewestUnknown(r, q) = q[Max(unknown)].xid
    BY <1>4 DEF NewestUnknown
  <2>3. Max(unknown) \in 1..Len(q)
    BY <1>1, <2>1
  <2> HIDE DEF unknown
  <2>4. q[Max(unknown)] \in Report
    BY <2>3, ElementOfSeq
  <2> QED
    BY <2>2, <2>4 DEF Report
<1> QED
  BY <1>3, <1>4

\* The return of an amend, acked or failed, is a move.
LEMMA AmendMoves ==
    ASSUME Inv, NEW c \in Clients, AmendAccepted(c) \/ AmendFailed(c)
    PROVE  RegistryMoves
<1> DEFINE id == call[c].id
           o == orders[id]
<1>1. /\ id \in Ids /\ o \in Record /\ known(o) /\ call[c].ack \in Nat /\ call[c].qty \in Nat
  BY AtKnownOrder DEF AmendAccepted, AmendFailed, Returns
<1>2. o.filled \in Nat
  BY <1>1 DEF Record
<1>3. CASE AmendAccepted(c)
  <2> DEFINE a == [o EXCEPT !.qty = call[c].qty]
             r == append_amend_leg(a, call[c].ack)
  <2>1. a \in Record /\ a.state = o.state /\ a.filled = o.filled
    BY <1>1 DEF Record
  <2>2. /\ orders' = [orders EXCEPT ![id] = r]
        /\ Logged(id, "amended", r) \/ LogFails(id)
    BY <1>3 DEF AmendAccepted
  <2> HIDE DEF a
  <2>3. r \in Record /\ r.state = o.state /\ r.filled = o.filled
    BY <1>1, <2>1, AppendAmendLeg
  <2> HIDE DEF r
  <2>4. Written(id, r)
    BY <1>1, <2>2, <2>3 DEF Written, Matches, EventTypes
  <2>5. Advances(o, r)
    BY <1>1, <1>2, <2>3 DEF Advances, known
  <2> QED
    BY <1>1, <2>2, <2>3, <2>4, <2>5 DEF Moved, RegistryMoves
<1>4. CASE AmendFailed(c)
  <2> DEFINE n == NewestUnknown(o, raced[id])
             r == note_exchange_id(o, n)
  <2>1. raced[id] \in Seq(Report)
    BY <1>1 DEF Inv, TypeOK
  <2>2. n \in Nat
    BY <1>1, <2>1, NewestUnknownTyped
  <2>3. orders' = [orders EXCEPT ![id] = r] /\ UNCHANGED log
    BY <1>1, <1>4 DEF AmendFailed, Inv, TypeOK
  <2> HIDE DEF n
  <2>4. r \in Record /\ r.state = o.state /\ r.filled = o.filled
    BY <1>1, <2>2, NoteExchangeId
  <2> HIDE DEF r
  <2>5. Advances(o, r)
    BY <1>1, <1>2, <2>4 DEF Advances, known
  <2> QED
    BY <1>1, <2>3, <2>4, <2>5 DEF Moved, Written, RegistryMoves
<1> QED
  BY <1>3, <1>4

\* An execution report that is applied is a move.
LEMMA ReportMoves ==
    ASSUME Inv, ReportArbitrated
    PROVE  RegistryMoves
<1>1. feed \in Seq(FeedReport) /\ feed # <<>>
  BY DEF Inv, TypeOK, ReportArbitrated
<1>2. Head(feed) \in FeedReport
  BY <1>1, HeadTailProperties
<1>3. Head(feed).id \in Ids /\ Head(feed).report \in Report
  BY <1>2 DEF FeedReport
<1>4. known(orders[Head(feed).id]) /\ ApplyReport(Head(feed).id, Head(feed).report)
  BY DEF ReportArbitrated
<1> QED
  BY <1>3, <1>4, ApplyReportMoves DEF Inv, RegistryMoves

\* A snapshot of a known order moves it legally, with or without a new leg.
LEMMA SnapshotAdvances ==
    ASSUME NEW r \in Record, known(r), NEW s \in Snapshot
    PROVE  /\ Refreshed(r, s) \in Record /\ Advances(r, Refreshed(r, s))
           /\ Looked(r, s) \in Record /\ Advances(r, Looked(r, s))
<1> DEFINE n == note_exchange_id(r, s.xid)
<1>1. s.xid \in Nat /\ s.state \in States /\ s.filled \in Nat /\ s.qty \in Nat
  BY DEF Snapshot, VenueStates
<1>2. n \in Record /\ n.state = r.state /\ n.filled = r.filled
  BY <1>1, NoteExchangeId
<1>3. known(n)
  BY <1>2 DEF known
<1> HIDE DEF n
<1>4. ASSUME NEW a \in {r, n}
      PROVE  /\ apply_observation(a, s.state, s.filled, s.qty, TRUE) \in Record
             /\ Advances(r, apply_observation(a, s.state, s.filled, s.qty, TRUE))
  <2>1. a \in Record /\ known(a) /\ a.state = r.state /\ a.filled = r.filled
    BY <1>2, <1>3
  <2> QED
    BY <1>1, <2>1, ApplyObservation DEF Advances
<1> QED
  BY <1>4 DEF Refreshed, Looked, n

\* Phase A of reconcile: adopting or refreshing an order is a move.
LEMMA ListedMoves ==
    ASSUME Inv, NEW t \in Recons, NEW e \in recon[t].listing,
           ListedAdopted(t, e) \/ ListedRefreshed(t, e)
    PROVE  RegistryMoves
<1>1. e \in ListingEntry
  BY DEF Inv, TypeOK, Recon
<1>2. e.id \in Ids /\ e.snap \in Snapshot /\ orders[e.id] \in Record
  BY <1>1 DEF Inv, TypeOK, ListingEntry
<1>3. CASE ListedAdopted(t, e)
  <2> DEFINE r == record_from_snapshot(e.snap)
  <2>1. r \in Record /\ known(r)
    BY <1>2, RecordFromSnapshot
  <2>2. /\ orders' = [orders EXCEPT ![e.id] = r] /\ append_event(e.id, "adopted", r)
        /\ ~known(orders[e.id])
    BY <1>3 DEF ListedAdopted
  <2> HIDE DEF r
  <2>3. Written(e.id, r)
    BY <1>2, <2>2, AppendWrites DEF Matches, EventTypes
  <2> QED
    BY <1>2, <2>1, <2>2, <2>3 DEF Moved, Advances, RegistryMoves
<1>4. CASE ListedRefreshed(t, e)
  <2> DEFINE r == Refreshed(orders[e.id], e.snap)
  <2>1. /\ known(orders[e.id]) /\ orders' = [orders EXCEPT ![e.id] = r]
        /\ IF r # orders[e.id] THEN append_event(e.id, "state", r) ELSE UNCHANGED log
    BY <1>4 DEF ListedRefreshed
  <2>2. r \in Record /\ Advances(orders[e.id], r)
    BY <1>2, <2>1, SnapshotAdvances
  <2> HIDE DEF r
  <2> QED
    BY <1>2, <2>1, <2>2, ObservedMoves DEF Inv, RegistryMoves
<1> QED
  BY <1>3, <1>4

\* Phase B of reconcile: applying a lookup or an absence is a move.
LEMMA LookupMoves ==
    ASSUME Inv, NEW t \in Recons, ReconFound(t) \/ ReconAbsent(t) \/ ReconAbsentLogged(t)
    PROVE  RegistryMoves
<1> DEFINE id == recon[t].item
<1>1. id \in Ids /\ orders[id] \in Record /\ recon[t].found \subseteq Snapshot
  BY DEF Inv, TypeOK, Recon, ReconFound, ReconAbsent, ReconAbsentLogged
<1>2. known(orders[id]) /\ orders[id].filled \in Nat
  <2>1. id # None
    BY <1>1, OmsAssumption DEF OmsAssumption
  <2> QED
    BY <1>1, <2>1 DEF Inv, WorkKnown, Pursued, Record
<1>3. CASE ReconFound(t)
  <2>1. PICK s \in recon[t].found :
          LET r == Looked(orders[id], s) IN
          /\ orders' = [orders EXCEPT ![id] = r]
          /\ IF r # orders[id] THEN append_event(id, "state", r) ELSE UNCHANGED log
    BY <1>3 DEF ReconFound
  <2> DEFINE r == Looked(orders[id], s)
  <2>2. r \in Record /\ Advances(orders[id], r)
    BY <1>1, <1>2, SnapshotAdvances
  <2>3. /\ orders' = [orders EXCEPT ![id] = r]
        /\ IF r # orders[id] THEN append_event(id, "state", r) ELSE UNCHANGED log
    BY <2>1
  <2> HIDE DEF r
  <2> QED
    BY <1>1, <1>2, <2>2, <2>3, ObservedMoves DEF Inv, RegistryMoves
<1>4. CASE ReconAbsent(t)
  <2> DEFINE r == [orders[id] EXCEPT !.state = "Rejected", !.rejection = "venue_absent"]
  <2>1. CASE ~can_transition(orders[id].state, "Rejected")
    BY <1>4, <2>1 DEF ReconAbsent, RegistryMoves, log, Inv, TypeOK
  <2>2. CASE can_transition(orders[id].state, "Rejected")
    <3>1. orders' = [orders EXCEPT ![id] = r] /\ append_event(id, "state", r)
      BY <1>4, <2>2 DEF ReconAbsent
    <3>2. r \in Record /\ r.state = "Rejected" /\ r.filled = orders[id].filled
      BY <1>1 DEF Record, States, Rejections
    <3> HIDE DEF r
    <3>3. Written(id, r)
      BY <1>1, <1>2, <3>1, AppendWrites DEF Matches, EventTypes
    <3>4. Advances(orders[id], r)
      BY <1>2, <2>2, <3>2 DEF Advances, known
    <3> HIDE DEF id
    <3> QED
      BY <1>1, <3>1, <3>2, <3>3, <3>4 DEF Moved, RegistryMoves
  <2> QED
    BY <2>1, <2>2
<1>5. CASE ReconAbsentLogged(t)
  <2>1. orders[id].state = "Rejected"
    BY <1>5 DEF ReconAbsentLogged, Inv, LockOwned
  <2>2. orders' = [orders EXCEPT ![id] = orders[id]]
    BY <1>1, <1>5 DEF ReconAbsentLogged, registry, Inv, TypeOK
  <2>3. append_event(id, "rejected", orders[id])
    BY <1>5 DEF ReconAbsentLogged
  <2>4. Written(id, orders[id])
    BY <1>1, <2>1, <2>3, AppendWrites DEF Matches, EventTypes
  <2>5. Advances(orders[id], orders[id])
    BY <1>2 DEF Advances
  <2> HIDE DEF id
  <2> QED
    BY <1>1, <2>2, <2>4, <2>5 DEF Moved, RegistryMoves
<1> QED
  BY <1>3, <1>4, <1>5

\* Every step but a restart moves at most one record and writes it down.
LEMMA RegistryStep ==
    ASSUME Inv, Next
    PROVE  RegistryMoves \/ CrashRestart
<1>1. UNCHANGED <<orders, log>> => RegistryMoves
  BY DEF log, RegistryMoves, Inv, TypeOK
<1>2. ASSUME NEW c \in Clients, Caller(c)
      PROVE  RegistryMoves
  <2>1. ASSUME NEW id \in Ids, NEW qty \in Quantities,
               PlaceRiskRejected(c, id, qty) \/ PlaceStaged(c, id, qty)
        PROVE  RegistryMoves
    BY <2>1, PlaceMoves DEF RegistryMoves
  <2>2. ASSUME NEW id \in Ids, NEW qty \in Quantities, PlaceNotPersisted(c, id, qty)
        PROVE  RegistryMoves
    BY <2>2 DEF PlaceNotPersisted, registry, RegistryMoves, Inv, TypeOK
  <2>3. ASSUME NEW id \in Ids, NEW qty \in Quantities, AmendSent(c, id, qty)
        PROVE  RegistryMoves
    BY <1>1, <2>3 DEF AmendSent
  <2>4. ASSUME NEW id \in Ids, CancelSent(c, id)
        PROVE  RegistryMoves
    BY <1>1, <2>4 DEF CancelSent, registry
  <2>5. CASE PlaceUnresolved(c) \/ CancelFailed(c)
    BY <1>1, <2>5 DEF PlaceUnresolved, CancelFailed, registry
  <2> QED
    BY <1>2, <2>1, <2>2, <2>3, <2>4, <2>5, PlaceReturnMoves, CancelMoves, AmendMoves, DrainMoves
       DEF Caller
<1>3. CASE Reader
  BY <1>1, <1>3, ReportMoves DEF Reader, ReportBuffered, ReportUnknown, registry
<1>4. ASSUME NEW t \in Recons, Reconciler(t)
      PROVE  RegistryMoves
  <2>1. ASSUME NEW e \in recon[t].listing,
               ListedSkipped(t, e) \/ ListedAdopted(t, e) \/ ListedRefreshed(t, e)
        PROVE  RegistryMoves
    BY <1>1, <2>1, ListedMoves DEF ListedSkipped
  <2>2. ASSUME NEW id \in Ids, ReconLookup(t, id) \/ ReconLookupFails(t, id)
        PROVE  RegistryMoves
    BY <1>1, <2>2 DEF ReconLookup, ReconLookupFails, registry
  <2>3. CASE ReconList(t) \/ ReconWorklist(t) \/ ReconDone(t)
    BY <1>1, <2>3 DEF ReconList, ReconWorklist, ReconDone, registry
  <2> QED
    BY <1>4, <2>1, <2>2, <2>3, LookupMoves DEF Reconciler
<1>5. CASE Venue
  BY <1>1, <1>5 DEF Venue, VenueAnswers, LateArrival, VenueFill, VenueCancel, FeedLoss, registry
<1> QED
  BY <1>2, <1>3, <1>4, <1>5 DEF Next

\* Registry and log after any step.
LEMMA RegistryKept ==
    ASSUME Inv, Next
    PROVE  /\ orders' \in [Ids -> Record] /\ disk' \in [Ids -> Record]
           /\ unlogged' \subseteq Ids /\ failsLeft' \in Nat
           /\ \A i \in Ids : known(disk[i]) => known(disk'[i])
           /\ BlankUnknown' /\ DiskAgrees'
           /\ CrashRestart \/ \A i \in Ids : known(orders[i]) => Advances(orders[i], orders'[i])
<1>1. CASE \E id \in Ids, r \in Record : Moved(id, r)
  BY <1>1, MovedKeeps DEF Inv
<1>2. CASE UNCHANGED <<orders, disk, unlogged>> /\ failsLeft' \in Nat
  <2>1. \A i \in Ids : orders[i].filled \in Nat
    BY DEF Inv, TypeOK, Record
  <2> QED
    BY <1>2, <2>1 DEF Inv, TypeOK, BlankUnknown, DiskAgrees, Advances
<1>3. CASE CrashRestart
  <2>1. orders' = disk /\ disk' = disk /\ unlogged' = {} /\ failsLeft' = failsLeft
    BY <1>3 DEF CrashRestart
  <2> QED
    BY <1>3, <2>1 DEF Inv, TypeOK, BlankUnknown, DiskAgrees
<1> QED
  BY <1>1, <1>2, <1>3, RegistryStep DEF RegistryMoves

-----------------------------------------------------------------------------
(* Types of the rest of the state *)

\* What the venue reports is a report.
LEMMA ReportOfTyped ==
    ASSUME NEW id \in Ids, NEW v \in VenueOrder, v.state # "none"
    PROVE  ReportOf(id, v) \in FeedReport
BY DEF ReportOf, FeedReport, Report, VenueOrder

\* A change on the venue keeps its orders and the feed typed.
LEMMA VenueMovesTyped ==
    ASSUME TypeOK, NEW id \in Ids, NEW v \in VenueOrder, v.state # "none", VenueMoves(id, v)
    PROVE  venue' \in [Ids -> VenueOrder] /\ feed' \in Seq(FeedReport)
<1>1. venue' \in [Ids -> VenueOrder]
  BY DEF TypeOK, VenueMoves
<1>2. feed' \in Seq(FeedReport)
  BY ReportOfTyped, AppendProperties DEF TypeOK, VenueMoves
<1> QED
  BY <1>1, <1>2

\* So does the execution of a request.
LEMMA VenueExecutesTyped ==
    ASSUME TypeOK, NEW op, NEW id \in Ids, NEW qty \in Nat, VenueExecutes(op, id, qty)
    PROVE  venue' \in [Ids -> VenueOrder] /\ feed' \in Seq(FeedReport)
<1> DEFINE v == venue[id]
<1>1. v \in VenueOrder
  BY DEF TypeOK
<1>2. NewVenueOrder(qty) \in VenueOrder /\ NewVenueOrder(qty).state # "none"
  BY DEF NewVenueOrder, NoVenueOrder, VenueOrder, VenueStates, States
<1>3. CASE VenueMoves(id, NewVenueOrder(qty))
  BY <1>2, <1>3, VenueMovesTyped
<1>4. CASE VenueMoves(id, [v EXCEPT !.state = "Canceled"])
  <2>1. [v EXCEPT !.state = "Canceled"] \in VenueOrder /\ [v EXCEPT !.state = "Canceled"].state # "none"
    BY <1>1 DEF VenueOrder, VenueStates, States
  <2> QED
    BY <1>4, <2>1, VenueMovesTyped
<1>5. CASE VenueMoves(id, [v EXCEPT !.qty = qty]) /\ Working(v.state)
  <2>1. [v EXCEPT !.qty = qty] \in VenueOrder /\ [v EXCEPT !.qty = qty].state # "none"
    BY <1>1, <1>5 DEF VenueOrder, Working
  <2> QED
    BY <1>5, <2>1, VenueMovesTyped
<1>6. CASE VenueReplaces(id, qty)
  <2> DEFINE old == [v EXCEPT !.state = "Canceled"]
             new == [NewVenueOrder(qty) EXCEPT !.xid = old.xid + 1, !.prior = old.prior + old.filled]
  <2>1. old \in VenueOrder /\ old.state # "none"
    BY <1>1 DEF VenueOrder, VenueStates, States
  <2>2. /\ venue' = [venue EXCEPT ![id] = new]
        /\ feed' = feed \o <<ReportOf(id, old), ReportOf(id, new)>>
    BY <1>6 DEF VenueReplaces
  <2> HIDE DEF old
  <2>3. old.xid + 1 \in Nat /\ old.prior + old.filled \in Nat
    BY <2>1 DEF VenueOrder
  <2>4. new \in VenueOrder /\ new.state # "none"
    BY <1>2, <2>3 DEF VenueOrder
  <2> HIDE DEF new
  <2>5. ReportOf(id, old) \in FeedReport /\ ReportOf(id, new) \in FeedReport
    BY <2>1, <2>4, ReportOfTyped
  <2>6. <<ReportOf(id, old), ReportOf(id, new)>> \in Seq(FeedReport)
    BY <2>5
  <2> QED
    BY <2>2, <2>4, <2>6, ConcatProperties DEF TypeOK
<1> QED
  BY <1>3, <1>4, <1>5, <1>6 DEF VenueExecutes

\* The request of a caller.
LEMMA RequestTyped ==
    ASSUME Inv, NEW c \in Clients, call[c].pc # "idle"
    PROVE  [op |-> call[c].op, id |-> call[c].id, qty |-> call[c].qty] \in Request
BY AtKnownOrder DEF Inv, TypeOK, Call, Request

\* Venue, feed and late requests stay typed.
LEMMA MarketTyped ==
    ASSUME Inv, Next
    PROVE  venue' \in [Ids -> VenueOrder] /\ feed' \in Seq(FeedReport) /\ late' \subseteq Request
<1>1. venue \in [Ids -> VenueOrder] /\ feed \in Seq(FeedReport) /\ late \subseteq Request
  BY DEF Inv, TypeOK
<1>2. UNCHANGED market => UNCHANGED <<venue, feed, late>>
  BY DEF market
<1>3. ASSUME NEW c \in Clients, Caller(c)
      PROVE  UNCHANGED <<venue, feed>> /\ late' \subseteq Request
  <2>1. ASSUME call[c].pc = "call", TransportError(c)
        PROVE  late' \subseteq Request
    BY <1>1, <2>1, RequestTyped DEF TransportError
  <2>2. CASE PlaceUnresolved(c) \/ CancelFailed(c) \/ AmendFailed(c)
    BY <2>1, <2>2 DEF PlaceUnresolved, CancelFailed, AmendFailed, Returns
  <2>3. CASE UNCHANGED market
    BY <1>1, <1>2, <2>3
  <2> QED
    BY <1>3, <2>2, <2>3
       DEF Caller, PlaceRiskRejected, PlaceStaged, PlaceNotPersisted, AmendSent, CancelSent,
           PlaceAccepted, PlaceRefused, CancelAccepted, AmendAccepted, Drain
<1>4. CASE Reader
  <2>1. feed # <<>> /\ feed' = Tail(feed) /\ UNCHANGED <<venue, late>>
    BY <1>4 DEF Reader, ReportBuffered, ReportUnknown, ReportArbitrated
  <2> QED
    BY <1>1, <2>1, HeadTailProperties
<1>5. ASSUME NEW t \in Recons, Reconciler(t)
      PROVE  UNCHANGED <<venue, feed, late>>
  BY <1>2, <1>5 DEF Reconciler, ReconList, ListedSkipped, ListedAdopted, ListedRefreshed, Listed,
        ReconWorklist, ReconLookup, ReconLookupFails, ReconFound, ReconAbsent, ReconAbsentLogged,
        ReconDone
<1>6. ASSUME NEW c \in Clients, VenueAnswers(c)
      PROVE  venue' \in [Ids -> VenueOrder] /\ feed' \in Seq(FeedReport) /\ late' = late
  BY <1>6, AtKnownOrder, VenueExecutesTyped DEF VenueAnswers, Inv
<1>7. ASSUME NEW q \in late, LateArrival(q)
      PROVE  venue' \in [Ids -> VenueOrder] /\ feed' \in Seq(FeedReport) /\ late' \subseteq late
  <2>1. q.id \in Ids /\ q.qty \in Nat
    BY <1>1 DEF Request
  <2> QED
    BY <1>7, <2>1, VenueExecutesTyped DEF LateArrival, Inv
<1>8. ASSUME NEW id \in Ids, VenueFill(id) \/ VenueCancel(id)
      PROVE  venue' \in [Ids -> VenueOrder] /\ feed' \in Seq(FeedReport) /\ late' = late
  <2> DEFINE filled == [venue[id] EXCEPT !.filled = @ + 1]
             after == [filled EXCEPT !.state = IF filled.filled = filled.qty THEN "Filled"
                                                                             ELSE "PartiallyFilled"]
             canceled == [venue[id] EXCEPT !.state = "Canceled"]
  <2>1. venue[id] \in VenueOrder
    BY <1>1
  <2>2. filled \in VenueOrder
    BY <2>1 DEF VenueOrder
  <2>3. CASE VenueFill(id)
    <3>1. VenueMoves(id, after) /\ late' = late
      BY <2>3 DEF VenueFill
    <3> HIDE DEF filled
    <3>2. after \in VenueOrder /\ after.state # "none"
      BY <2>2 DEF VenueOrder, VenueStates, States
    <3> QED
      BY <3>1, <3>2, VenueMovesTyped DEF Inv
  <2>4. CASE VenueCancel(id)
    <3>1. VenueMoves(id, canceled) /\ late' = late
      BY <2>4 DEF VenueCancel
    <3>2. canceled \in VenueOrder /\ canceled.state # "none"
      BY <2>1 DEF VenueOrder, VenueStates, States
    <3> QED
      BY <3>1, <3>2, VenueMovesTyped DEF Inv
  <2> QED
    BY <1>8, <2>3, <2>4
<1>9. CASE FeedLoss
  BY <1>1, <1>9 DEF FeedLoss
<1>10. CASE CrashRestart
  <2>1. UnderWay \subseteq Request
    BY RequestTyped DEF UnderWay
  <2> QED
    BY <1>1, <1>10, <2>1 DEF CrashRestart
<1> QED
  BY <1>1, <1>3, <1>4, <1>5, <1>6, <1>7, <1>8, <1>9, <1>10 DEF Next, Venue

-----------------------------------------------------------------------------
(* What a step does to the threads and to the buffers of raced reports *)

Opened(c) ==
    \E op \in Ops, id \in Ids, qty \in Nat :
        /\ call[c].pc = "idle" /\ lock = None
        /\ OpenCall(c, op, id, qty)
        /\ IF op = "place" THEN ~known(orders[id]) /\ orders' = [orders EXCEPT ![id] = NewRecord(qty)]
                           ELSE Working(orders[id].state)
        /\ IF op = "cancel" THEN UNCHANGED <<flying, raced>> ELSE id \notin flying /\ OpenRaced(id)
        /\ UNCHANGED <<lock, recon, up>>

Ended(c) ==
    \E q \in Seq(Report) :
        /\ call[c].pc = "call" /\ lock = None
        /\ Settle(c, q)
        /\ IF call[c].op = "cancel" THEN q = <<>> /\ UNCHANGED <<flying, raced>>
                                    ELSE CloseRaced(call[c].id)
        /\ UNCHANGED <<recon, up>>

Drained(c) ==
    /\ call[c].pc = "drain"
    /\ Settle(c, Tail(call[c].raced))
    /\ UNCHANGED <<flying, raced, recon, up>>

Answered(c) ==
    /\ call[c].pc = "call"
    /\ \E n \in Nat : call' = [call EXCEPT ![c].ack = n]
    /\ UNCHANGED <<flying, raced, lock, recon, up>>

Buffered ==
    /\ \E id \in flying, report \in Report : raced' = [raced EXCEPT ![id] = Append(@, report)]
    /\ UNCHANGED <<flying, call, lock, recon, up>>

Reconciled(t) ==
    /\ \E x \in Recon :
          /\ recon' = [recon EXCEPT ![t] = x]
          /\ x.pc \in {"apply", "absent"} => x.item \in Ids
          /\ x.pc = "absent" => lock' = t /\ orders'[x.item].state = "Rejected"
          /\ \A id \in x.work \cup ({x.item} \ {None}) :
                id \in Pursued(t) \/ (known(orders[id]) /\ id \notin flying)
    /\ lock' = lock \/ (lock \in {None, t} /\ lock' \in {None, t})
    /\ up' \in BOOLEAN
    /\ UNCHANGED <<flying, raced, call>>

ThreadsMove ==
    \/ \E c \in Clients : Opened(c) \/ Ended(c) \/ Drained(c) \/ Answered(c)
    \/ Buffered
    \/ \E t \in Recons : Reconciled(t)
    \/ UNCHANGED <<flying, raced, call, lock, recon, up>>

\* An id in flight is in the registry.
LEMMA FlyingKnown ==
    ASSUME Inv, NEW id \in flying
    PROVE  id \in Ids /\ known(orders[id])
<1>1. id \in Ids
  BY DEF Inv, TypeOK
<1>2. PICK c \in Clients : OpenCalls(id) = {c}
  BY DEF Inv, OneOpenCall
<1>3. call[c].pc = "call" /\ call[c].id = id
  BY <1>2 DEF OpenCalls
<1> QED
  BY <1>1, <1>3 DEF Inv, CallsKnown

\* A step of a caller, seen from the threads and the buffers.
LEMMA CallerMoves ==
    ASSUME Inv, NEW c \in Clients, Caller(c)
    PROVE  ThreadsMove
<1> USE OmsAssumption DEF OmsAssumption, Ops
<1>1. UNCHANGED registry => UNCHANGED <<orders, flying, raced>>
  BY DEF registry
<1>2. ASSUME NEW id \in Ids, NEW qty \in Quantities,
             PlaceRiskRejected(c, id, qty) \/ PlaceNotPersisted(c, id, qty)
      PROVE  ThreadsMove
  BY <1>1, <1>2 DEF PlaceRiskRejected, PlaceNotPersisted, ThreadsMove
<1>3. ASSUME NEW id \in Ids, NEW qty \in Quantities, PlaceStaged(c, id, qty)
      PROVE  ThreadsMove
  <2>1. id \notin flying
    BY <1>3, FlyingKnown DEF PlaceStaged
  <2>2. Opened(c)
    BY <1>3, <2>1 DEF PlaceStaged, Enters, Opened
  <2> QED
    BY <2>2 DEF ThreadsMove
<1>4. ASSUME NEW id \in Ids, NEW qty \in Quantities, AmendSent(c, id, qty)
      PROVE  ThreadsMove
  <2>1. Opened(c)
    BY <1>4 DEF AmendSent, Enters, Opened
  <2> QED
    BY <2>1 DEF ThreadsMove
<1>5. ASSUME NEW id \in Ids, CancelSent(c, id)
      PROVE  ThreadsMove
  <2>1. Opened(c)
    BY <1>1, <1>5 DEF CancelSent, Enters, Opened
  <2> QED
    BY <2>1 DEF ThreadsMove
<1>6. CASE PlaceAccepted(c) \/ PlaceRefused(c) \/ PlaceUnresolved(c) \/ AmendAccepted(c) \/ AmendFailed(c)
  <2>1. call[c].pc = "call" /\ call[c].op # "cancel" /\ lock = None /\ CloseRaced(call[c].id)
          /\ UNCHANGED <<recon, up>> /\ (Settle(c, raced[call[c].id]) \/ Settle(c, <<>>))
    BY <1>6 DEF PlaceAccepted, PlaceRefused, PlaceUnresolved, AmendAccepted, AmendFailed, Returns, Finish
  <2>2. raced[call[c].id] \in Seq(Report) /\ <<>> \in Seq(Report)
    BY <2>1, AtKnownOrder DEF Inv, TypeOK
  <2>3. Ended(c)
    BY <2>1, <2>2 DEF Ended
  <2> QED
    BY <2>3 DEF ThreadsMove
<1>7. CASE CancelAccepted(c) \/ CancelFailed(c)
  <2>1. call[c].pc = "call" /\ call[c].op = "cancel" /\ lock = None /\ Settle(c, <<>>)
          /\ UNCHANGED <<recon, up, flying, raced>>
    BY <1>1, <1>7 DEF CancelAccepted, CancelFailed, Returns, Finish
  <2>2. <<>> \in Seq(Report)
    OBVIOUS
  <2>3. Ended(c)
    BY <2>1, <2>2 DEF Ended
  <2> QED
    BY <2>3 DEF ThreadsMove
<1>8. CASE Drain(c)
  BY <1>8 DEF Drain, Drained, ThreadsMove
<1> QED
  BY <1>2, <1>3, <1>4, <1>5, <1>6, <1>7, <1>8 DEF Caller

\* A step of a reconciling thread, seen from its local state and the lock.
LEMMA ReconcilerMoves ==
    ASSUME Inv, NEW t \in Recons, Reconciler(t)
    PROVE  Reconciled(t)
<1> DEFINE y == recon[t]
<1>1. recon \in [Recons -> Recon] /\ y \in Recon /\ up \in BOOLEAN
  BY DEF Inv, TypeOK
<1>2. UNCHANGED registry => UNCHANGED <<orders, flying, raced>>
  BY DEF registry
<1>3. y.work \subseteq Ids /\ y.listing \subseteq ListingEntry /\ y.item \in Ids \cup {None}
        /\ y.found \subseteq Snapshot
  BY <1>1 DEF Recon
<1>4. ASSUME NEW x \in Recon, recon' = [recon EXCEPT ![t] = x], x.pc \notin {"apply", "absent"},
             x.work \subseteq y.work, x.item \in {y.item, None},
             lock' = lock \/ (lock \in {None, t} /\ lock' \in {None, t}),
             up' \in BOOLEAN, UNCHANGED <<flying, raced, call>>
      PROVE  Reconciled(t)
  BY <1>4 DEF Reconciled, Pursued
<1>5. CASE ReconList(t)
  <2>1. PICK listing \in {OpenOrders, {}} :
          recon' = [recon EXCEPT ![t] = [IdleRecon EXCEPT !.pc = "listed", !.listing = listing]]
    BY <1>5 DEF ReconList
  <2> DEFINE x == [IdleRecon EXCEPT !.pc = "listed", !.listing = listing]
  <2>2. OpenOrders \subseteq ListingEntry
    <3> SUFFICES ASSUME NEW id \in Ids, Working(venue[id].state)
                 PROVE  [id |-> id, snap |-> SnapshotOf(id)] \in ListingEntry
      BY DEF OpenOrders
    <3>1. venue[id] \in VenueOrder
      BY DEF Inv, TypeOK
    <3>2. SnapshotOf(id) \in Snapshot
      BY <3>1 DEF SnapshotOf, Snapshot, VenueOrder, Working, VenueStates, States
    <3> QED
      BY <3>2 DEF ListingEntry
  <2>3. listing \in SUBSET ListingEntry
    BY <2>2
  <2>4. x \in Recon /\ x.pc = "listed" /\ x.work = {} /\ x.item = None
    BY <2>3 DEF IdleRecon, Recon
  <2>5. UNCHANGED <<flying, raced, call, lock, up>>
    BY <1>2, <1>5 DEF ReconList
  <2> HIDE DEF x
  <2>6. recon' = [recon EXCEPT ![t] = x]
    BY <2>1 DEF x
  <2> QED
    BY <1>1, <1>4, <2>4, <2>5, <2>6
<1>6. ASSUME NEW e, Listed(t, e)
      PROVE  Reconciled(t)
  <2> DEFINE x == [y EXCEPT !.listing = @ \ {e}]
  <2>1. recon' = [recon EXCEPT ![t] = x]
    BY <1>1, <1>6 DEF Listed
  <2>2. x \in Recon /\ x.pc = "listed" /\ x.work = y.work /\ x.item = y.item
    BY <1>1, <1>6 DEF Recon, Listed
  <2> HIDE DEF x
  <2>3. lock \in {None, t} /\ lock' \in {None, t} /\ UNCHANGED <<flying, raced, call, up>>
    BY <1>6 DEF Listed
  <2> QED
    BY <1>1, <1>4, <2>1, <2>2, <2>3
<1>7. CASE ReconWorklist(t)
  <2> DEFINE w == {id \in Ids \ flying : known(orders[id]) /\ ~is_terminal(orders[id].state)}
             x == [y EXCEPT !.pc = "lookup", !.work = w]
  <2>1. recon' = [recon EXCEPT ![t] = x] /\ UNCHANGED <<flying, raced, call, lock, up>>
    BY <1>1, <1>2, <1>7 DEF ReconWorklist
  <2>2. w \subseteq Ids /\ \A id \in w : known(orders[id]) /\ id \notin flying
    OBVIOUS
  <2> HIDE DEF w
  <2>3. x \in Recon /\ x.pc = "lookup" /\ x.work = w /\ x.item = y.item
    BY <1>1, <2>2 DEF Recon
  <2> HIDE DEF x, y
  <2> QED
    BY <1>1, <2>1, <2>2, <2>3 DEF Reconciled, Pursued, y
<1>8. ASSUME NEW id \in Ids, ReconLookup(t, id)
      PROVE  Reconciled(t)
  <2> DEFINE f == IF venue[id].state = "none" THEN {} ELSE {SnapshotOf(id)}
             x == [y EXCEPT !.pc = "apply", !.work = @ \ {id}, !.item = id, !.found = f]
  <2>1. recon' = [recon EXCEPT ![t] = x] /\ UNCHANGED <<flying, raced, call, lock, up>>
    BY <1>1, <1>2, <1>8 DEF ReconLookup
  <2>2. f \subseteq Snapshot
    <3>1. venue[id] \in VenueOrder
      BY DEF Inv, TypeOK
    <3> QED
      BY <3>1 DEF SnapshotOf, Snapshot, VenueOrder
  <2>3. id \in y.work
    BY <1>8 DEF ReconLookup
  <2> HIDE DEF f
  <2>4. x \in Recon /\ x.pc = "apply" /\ x.work \subseteq y.work /\ x.item = id
    BY <1>1, <2>2 DEF Recon
  <2> HIDE DEF x
  <2> QED
    BY <1>1, <2>1, <2>3, <2>4 DEF Reconciled, Pursued
<1>9. ASSUME NEW id \in Ids, ReconLookupFails(t, id)
      PROVE  Reconciled(t)
  <2> DEFINE x == [y EXCEPT !.work = @ \ {id}]
  <2>1. recon' = [recon EXCEPT ![t] = x] /\ UNCHANGED <<flying, raced, call, lock, up>>
    BY <1>1, <1>2, <1>9 DEF ReconLookupFails
  <2>2. x \in Recon /\ x.pc = "lookup" /\ x.work \subseteq y.work /\ x.item = y.item
    BY <1>1, <1>9 DEF Recon, ReconLookupFails
  <2> HIDE DEF x
  <2> QED
    BY <1>1, <1>4, <2>1, <2>2
<1>10. ASSUME NextItem(t), lock' = lock \/ (lock \in {None, t} /\ lock' \in {None, t}),
              UNCHANGED <<flying, raced, call, up>>
       PROVE  Reconciled(t)
  <2> DEFINE x == [y EXCEPT !.pc = "lookup", !.item = None, !.found = {}]
  <2>1. recon' = [recon EXCEPT ![t] = x]
    BY <1>1, <1>10 DEF NextItem
  <2>2. x \in Recon /\ x.pc = "lookup" /\ x.work = y.work /\ x.item = None
    BY <1>1 DEF Recon
  <2> HIDE DEF x
  <2> QED
    BY <1>1, <1>4, <1>10, <2>1, <2>2
<1>11. CASE ReconFound(t)
  BY <1>10, <1>11 DEF ReconFound
<1>12. CASE ReconAbsent(t)
  <2>1. CASE ~can_transition(orders[y.item].state, "Rejected")
    BY <1>10, <1>12, <2>1 DEF ReconAbsent
  <2>2. CASE can_transition(orders[y.item].state, "Rejected")
    <3> DEFINE x == [y EXCEPT !.pc = "absent"]
               r == [orders[y.item] EXCEPT !.state = "Rejected", !.rejection = "venue_absent"]
    <3>1. /\ recon' = [recon EXCEPT ![t] = x] /\ UNCHANGED <<flying, raced, call, up>>
          /\ lock = None /\ lock' = t /\ orders' = [orders EXCEPT ![y.item] = r] /\ y.pc = "apply"
      BY <1>1, <1>12, <2>2 DEF ReconAbsent
    <3>2. y.item \in Ids /\ orders[y.item] \in Record /\ orders \in [Ids -> Record]
      BY <3>1 DEF Inv, TypeOK
    <3>3. x \in Recon /\ x.pc = "absent" /\ x.work = y.work /\ x.item = y.item
      BY <1>1 DEF Recon
    <3>4. orders'[y.item].state = "Rejected"
      BY <3>1, <3>2 DEF Record
    <3> HIDE DEF x, r
    <3> QED
      BY <1>1, <3>1, <3>2, <3>3, <3>4 DEF Reconciled, Pursued
  <2> QED
    BY <2>1, <2>2
<1>13. CASE ReconAbsentLogged(t)
  <2>1. lock = t
    BY <1>13 DEF ReconAbsentLogged, Inv, LockOwned
  <2> QED
    BY <1>2, <1>10, <1>13, <2>1 DEF ReconAbsentLogged
<1>14. CASE ReconDone(t)
  <2>1. recon' = [recon EXCEPT ![t] = IdleRecon] /\ UNCHANGED <<flying, raced, call, lock>>
          /\ up' \in BOOLEAN
    BY <1>1, <1>2, <1>14 DEF ReconDone
  <2>2. IdleRecon \in Recon /\ IdleRecon.pc = "idle" /\ IdleRecon.work = {} /\ IdleRecon.item = None
    BY DEF IdleRecon, Recon
  <2> QED
    BY <1>1, <1>4, <2>1, <2>2
<1> QED
  BY <1>5, <1>6, <1>7, <1>8, <1>9, <1>11, <1>12, <1>13, <1>14
     DEF Reconciler, ListedSkipped, ListedAdopted, ListedRefreshed

\* Every step but a restart is one of the thread moves.
LEMMA ThreadsStep ==
    ASSUME Inv, Next
    PROVE  ThreadsMove \/ CrashRestart
<1>1. UNCHANGED registry => UNCHANGED <<orders, flying, raced>>
  BY DEF registry
<1>2. CASE ReportBuffered
  <2>1. feed \in Seq(FeedReport) /\ feed # <<>>
    BY <1>2 DEF Inv, TypeOK, ReportBuffered
  <2>2. Head(feed).report \in Report
    <3>1. Head(feed) \in FeedReport
      BY <2>1, HeadTailProperties
    <3> QED
      BY <3>1 DEF FeedReport
  <2>3. Buffered
    BY <1>2, <2>2 DEF ReportBuffered, Buffered
  <2> QED
    BY <2>3 DEF ThreadsMove
<1>3. CASE ReportUnknown \/ ReportArbitrated
  BY <1>1, <1>3 DEF ReportUnknown, ReportArbitrated, ThreadsMove
<1>4. ASSUME NEW c \in Clients, VenueAnswers(c)
      PROVE  ThreadsMove
  <2>1. call[c].id \in Ids
    BY <1>4, AtKnownOrder DEF VenueAnswers
  <2>2. venue'[call[c].id].xid \in Nat
    <3>1. venue' \in [Ids -> VenueOrder]
      BY MarketTyped
    <3> QED
      BY <2>1, <3>1 DEF VenueOrder
  <2>3. Answered(c)
    BY <1>1, <1>4, <2>2 DEF VenueAnswers, Answered
  <2> QED
    BY <2>3 DEF ThreadsMove
<1>5. ASSUME Venue, ~\E c \in Clients : VenueAnswers(c)
      PROVE  ThreadsMove
  BY <1>1, <1>5 DEF Venue, LateArrival, VenueFill, VenueCancel, FeedLoss, ThreadsMove
<1> QED
  BY <1>2, <1>3, <1>4, <1>5, CallerMoves, ReconcilerMoves DEF Next, Reader, ThreadsMove

\* The idle states are typed.
LEMMA IdleTyped ==
    /\ IdleCall \in Call /\ IdleCall.pc = "idle"
    /\ IdleRecon \in Recon /\ IdleRecon.pc = "idle" /\ IdleRecon.work = {} /\ IdleRecon.item = None
<1>1. <<>> \in Seq(Report)
  OBVIOUS
<1> QED
  BY <1>1 DEF IdleCall, Call, Ops, IdleRecon, Recon

\* A new call, and a call after Settle.
LEMMA OpenCallFacts ==
    ASSUME TypeOK, NEW c \in Clients, NEW op \in Ops, NEW id \in Ids, NEW qty \in Nat,
           OpenCall(c, op, id, qty)
    PROVE  /\ call' \in [Clients -> Call]
           /\ call'[c].pc = "call" /\ call'[c].op = op /\ call'[c].id = id /\ call'[c].qty = qty
           /\ \A d \in Clients \ {c} : call'[d] = call[d]
<1> DEFINE x == [IdleCall EXCEPT !.pc = "call", !.op = op, !.id = id, !.qty = qty]
<1>1. x \in Call /\ x.pc = "call" /\ x.op = op /\ x.id = id /\ x.qty = qty
  BY IdleTyped DEF Call
<1>2. call' = [call EXCEPT ![c] = x]
  BY DEF OpenCall
<1> HIDE DEF x
<1> QED
  BY <1>1, <1>2 DEF TypeOK

\* Settle frees the lock or keeps it for the drain.
LEMMA SettleFacts ==
    ASSUME TypeOK, NEW c \in Clients, NEW q \in Seq(Report), Settle(c, q)
    PROVE  /\ call' \in [Clients -> Call]
           /\ q = <<>> => call'[c].pc = "idle" /\ lock' = None
           /\ q # <<>> => call'[c].pc = "drain" /\ call'[c].id = call[c].id /\ lock' = c
                            /\ call'[c].raced = q
           /\ \A d \in Clients \ {c} : call'[d] = call[d]
<1> DEFINE x == [call[c] EXCEPT !.pc = "drain", !.raced = q]
<1>1. call \in [Clients -> Call]
  BY DEF TypeOK
<1>2. x \in Call /\ x.pc = "drain" /\ x.id = call[c].id /\ x.raced = q
  BY <1>1 DEF Call
<1>3. call' = [call EXCEPT ![c] = IF q = <<>> THEN IdleCall ELSE x]
  BY DEF Settle
<1>4. lock' = IF q = <<>> THEN None ELSE c
  BY DEF Settle
<1> HIDE DEF x
<1> QED
  BY <1>1, <1>2, <1>3, <1>4, IdleTyped

\* The threads' state is typed after a step.
LEMMA ThreadsTyped ==
    ASSUME Inv, ThreadsMove
    PROVE  /\ flying' \subseteq Ids /\ raced' \in [Ids -> Seq(Report)]
           /\ lock' \in Threads \cup {None} /\ up' \in BOOLEAN
           /\ call' \in [Clients -> Call]
           /\ \A c \in Clients : call'[c].pc # "idle" => call'[c].id \in Ids
           /\ recon' \in [Recons -> Recon]
           /\ \A t \in Recons : recon'[t].pc \in {"apply", "absent"} => recon'[t].item \in Ids
<1>1. TypeOK /\ flying \subseteq Ids /\ raced \in [Ids -> Seq(Report)] /\ lock \in Threads \cup {None}
        /\ up \in BOOLEAN /\ call \in [Clients -> Call] /\ recon \in [Recons -> Recon]
        /\ (\A c \in Clients : call[c].pc # "idle" => call[c].id \in Ids)
        /\ (\A t \in Recons : recon[t].pc \in {"apply", "absent"} => recon[t].item \in Ids)
  BY DEF Inv, TypeOK
<1>2. <<>> \in Seq(Report)
  OBVIOUS
<1>3. ASSUME NEW c \in Clients, Opened(c)
      PROVE  /\ flying' \subseteq Ids /\ raced' \in [Ids -> Seq(Report)]
             /\ call' \in [Clients -> Call] /\ UNCHANGED <<lock, recon, up>>
             /\ \A d \in Clients : call'[d].pc # "idle" => call'[d].id \in Ids
  <2>1. PICK op \in Ops, id \in Ids, qty \in Nat :
          /\ OpenCall(c, op, id, qty)
          /\ IF op = "cancel" THEN UNCHANGED <<flying, raced>> ELSE id \notin flying /\ OpenRaced(id)
          /\ UNCHANGED <<lock, recon, up>>
    BY <1>3 DEF Opened
  <2>2. flying' \subseteq Ids /\ raced' \in [Ids -> Seq(Report)]
    BY <1>1, <1>2, <2>1 DEF OpenRaced
  <2> QED
    BY <1>1, <2>1, <2>2, OpenCallFacts
<1>4. ASSUME NEW c \in Clients, NEW q \in Seq(Report), Settle(c, q), call[c].pc # "idle"
      PROVE  /\ call' \in [Clients -> Call] /\ lock' \in Threads \cup {None}
             /\ \A d \in Clients : call'[d].pc # "idle" => call'[d].id \in Ids
  BY <1>1, <1>4, SettleFacts DEF Threads
<1>5. ASSUME NEW c \in Clients, Ended(c)
      PROVE  /\ flying' \subseteq Ids /\ raced' \in [Ids -> Seq(Report)]
             /\ call' \in [Clients -> Call] /\ lock' \in Threads \cup {None}
             /\ UNCHANGED <<recon, up>>
             /\ \A d \in Clients : call'[d].pc # "idle" => call'[d].id \in Ids
  <2>1. flying' \subseteq Ids /\ raced' \in [Ids -> Seq(Report)]
    BY <1>1, <1>2, <1>5 DEF Ended, CloseRaced
  <2> QED
    BY <1>4, <1>5, <2>1 DEF Ended
<1>6. ASSUME NEW c \in Clients, Drained(c)
      PROVE  /\ UNCHANGED <<flying, raced, recon, up>>
             /\ call' \in [Clients -> Call] /\ lock' \in Threads \cup {None}
             /\ \A d \in Clients : call'[d].pc # "idle" => call'[d].id \in Ids
  <2>1. Tail(call[c].raced) \in Seq(Report)
    BY <1>6, AtKnownOrder, HeadTailProperties DEF Drained, Inv, LockOwned
  <2> QED
    BY <1>4, <1>6, <2>1 DEF Drained
<1>7. ASSUME NEW c \in Clients, Answered(c)
      PROVE  /\ UNCHANGED <<flying, raced, lock, recon, up>>
             /\ call' \in [Clients -> Call]
             /\ \A d \in Clients : call'[d].pc # "idle" => call'[d].id \in Ids
  BY <1>1, <1>7, ZenonT(60) DEF Answered, Call
<1>8. CASE Buffered
  <2>1. PICK id \in flying, report \in Report : raced' = [raced EXCEPT ![id] = Append(@, report)]
    BY <1>8 DEF Buffered
  <2>2. Append(raced[id], report) \in Seq(Report)
    BY <1>1, AppendProperties
  <2> QED
    BY <1>1, <1>8, <2>1, <2>2 DEF Buffered
<1>9. ASSUME NEW t \in Recons, Reconciled(t)
      PROVE  /\ UNCHANGED <<flying, raced, call>> /\ up' \in BOOLEAN
             /\ lock' \in Threads \cup {None} /\ recon' \in [Recons -> Recon]
             /\ \A u \in Recons : recon'[u].pc \in {"apply", "absent"} => recon'[u].item \in Ids
  <2>1. PICK x \in Recon : recon' = [recon EXCEPT ![t] = x]
                             /\ (x.pc \in {"apply", "absent"} => x.item \in Ids)
    BY <1>9 DEF Reconciled
  <2> QED
    BY <1>1, <1>9, <2>1 DEF Reconciled, Threads
<1> QED
  BY <1>1, <1>3, <1>5, <1>6, <1>7, <1>8, <1>9 DEF ThreadsMove

-----------------------------------------------------------------------------
(* Ownership *)

\* What a step other than a restart does to the calls, seen from one caller.
LEMMA CallFrame ==
    ASSUME Inv, ThreadsMove, NEW c \in Clients
    PROVE  \/ call'[c] = call[c]
           \/ call[c].pc = "idle" /\ call'[c].pc = "call" /\ Opened(c)
           \/ /\ call[c].pc # "idle" /\ call'[c].pc # "call" /\ (Ended(c) \/ Drained(c))
              /\ call'[c].pc = "drain" => call'[c].id = call[c].id
           \/ /\ call[c].pc = "call" /\ Answered(c)
              /\ call'[c].pc = "call" /\ call'[c].op = call[c].op
              /\ call'[c].id = call[c].id /\ call'[c].qty = call[c].qty
<1>1. TypeOK /\ call \in [Clients -> Call]
  BY DEF Inv, TypeOK
<1>2. ASSUME NEW d \in Clients, Opened(d)
      PROVE  call'[d].pc = "call" /\ \A e \in Clients \ {d} : call'[e] = call[e]
  BY <1>1, <1>2, OpenCallFacts DEF Opened
<1>3. ASSUME NEW d \in Clients, Ended(d)
      PROVE  /\ call'[d].pc # "call" /\ \A e \in Clients \ {d} : call'[e] = call[e]
             /\ call'[d].pc = "drain" => call'[d].id = call[d].id
  BY <1>1, <1>3, SettleFacts DEF Ended
<1>4. ASSUME NEW d \in Clients, Drained(d)
      PROVE  /\ call'[d].pc # "call" /\ \A e \in Clients \ {d} : call'[e] = call[e]
             /\ call'[d].pc = "drain" => call'[d].id = call[d].id
  <2>1. Tail(call[d].raced) \in Seq(Report)
    BY <1>4, AtKnownOrder, HeadTailProperties DEF Drained, Inv, LockOwned
  <2> QED
    BY <1>1, <1>4, <2>1, SettleFacts DEF Drained
<1>5. ASSUME NEW d \in Clients, Answered(d)
      PROVE  /\ \A e \in Clients \ {d} : call'[e] = call[e]
             /\ call'[d].pc = "call" /\ call'[d].op = call[d].op
             /\ call'[d].id = call[d].id /\ call'[d].qty = call[d].qty
  BY <1>1, <1>5 DEF Answered, Call
<1>6. CASE \E d \in Clients : Opened(d)
  BY <1>2, <1>6 DEF Opened
<1>7. CASE \E d \in Clients : Ended(d)
  BY <1>3, <1>7 DEF Ended
<1>8. CASE \E d \in Clients : Drained(d)
  BY <1>4, <1>8 DEF Drained
<1>9. CASE \E d \in Clients : Answered(d)
  BY <1>5, <1>9 DEF Answered
<1>10. CASE Buffered \/ (\E t \in Recons : Reconciled(t)) \/ UNCHANGED call
  BY <1>10 DEF Buffered, Reconciled
<1> QED
  BY <1>6, <1>7, <1>8, <1>9, <1>10 DEF ThreadsMove

\* The record that a newly opened call is about is known after the step.
LEMMA OpenedKnown ==
    ASSUME Inv, Next, ~CrashRestart, NEW c \in Clients, Opened(c)
    PROVE  known(orders'[call'[c].id])
<1>1. PICK op \in Ops, id \in Ids, qty \in Nat :
        /\ OpenCall(c, op, id, qty)
        /\ IF op = "place" THEN ~known(orders[id]) /\ orders' = [orders EXCEPT ![id] = NewRecord(qty)]
                           ELSE Working(orders[id].state)
  BY DEF Opened
<1>2. call'[c].id = id
  BY <1>1, OpenCallFacts DEF Inv
<1>3. CASE op = "place"
  <2>1. orders'[id] = NewRecord(qty)
    BY <1>1, <1>3 DEF Inv, TypeOK
  <2> QED
    BY <1>2, <2>1, NoRecordTyped
<1>4. CASE op # "place"
  <2>1. known(orders[id])
    BY <1>1, <1>4 DEF Working, known
  <2> QED
    BY <1>2, <2>1, RegistryKept DEF Advances
<1> QED
  BY <1>3, <1>4

\* An order with a caller at it stays in the registry.
LEMMA CallsKnownKept ==
    ASSUME Inv, Next, ~CrashRestart
    PROVE  CallsKnown'
<1> SUFFICES ASSUME NEW c \in Clients, call'[c].pc # "idle"
             PROVE  known(orders'[call'[c].id])
  BY DEF CallsKnown
<1>1. ThreadsMove
  BY ThreadsStep
<1>2. CASE call[c].pc # "idle" /\ call'[c].id = call[c].id
  <2>1. call[c].id \in Ids /\ known(orders[call[c].id])
    BY <1>2, AtKnownOrder
  <2> QED
    BY <1>2, <2>1, RegistryKept DEF Advances
<1>3. CASE Opened(c)
  BY <1>3, OpenedKnown
<1>4. call'[c].pc \in {"idle", "call", "drain"}
  BY <1>1, ThreadsTyped DEF Call
<1> QED
  BY <1>1, <1>2, <1>3, <1>4, CallFrame

\* Nobody gets to an order while its place is open.
LEMMA PlaceAloneKept ==
    ASSUME Inv, Next, ~CrashRestart
    PROVE  PlaceAlone'
<1> SUFFICES ASSUME NEW c \in Clients, NEW d \in Clients, PlaceOpen(c)', call'[d].pc # "idle",
                    call'[d].id = call'[c].id
             PROVE  c = d
  BY DEF PlaceAlone
<1>1. ThreadsMove /\ TypeOK
  BY ThreadsStep DEF Inv
<1>2. call'[c].pc = "call" /\ call'[c].op = "place"
  BY DEF PlaceOpen
<1>3. call'[d].pc \in {"idle", "call", "drain"}
  BY <1>1, ThreadsTyped DEF Call
<1>4. ASSUME NEW e \in Clients, call'[e].pc # "idle", ~Opened(e)
      PROVE  call[e].pc # "idle" /\ call[e].id = call'[e].id
  BY <1>1, <1>4, CallFrame, ThreadsTyped DEF Call
<1>5. ASSUME NEW e \in Clients, PlaceOpen(e)', ~Opened(e)
      PROVE  PlaceOpen(e) /\ call[e].id = call'[e].id
  BY <1>1, <1>5, CallFrame DEF PlaceOpen
<1>6. ASSUME NEW e \in Clients, Opened(e)
      PROVE  \A f \in Clients \ {e} : call'[f] = call[f]
  BY <1>1, <1>6, OpenCallFacts DEF Opened
<1>7. CASE ~Opened(c) /\ ~Opened(d)
  BY <1>4, <1>5, <1>7 DEF Inv, PlaceAlone
<1>8. CASE Opened(c) /\ c # d
  <2>1. PICK op \in Ops, id \in Ids, qty \in Nat :
          /\ OpenCall(c, op, id, qty)
          /\ IF op = "place" THEN ~known(orders[id]) /\ orders' = [orders EXCEPT ![id] = NewRecord(qty)]
                             ELSE Working(orders[id].state)
    BY <1>8 DEF Opened
  <2>2. call'[c].id = id /\ op = "place"
    BY <1>1, <1>2, <2>1, OpenCallFacts
  <2>3. call[d].pc # "idle" /\ call[d].id = id
    BY <1>6, <1>8, <2>2
  <2> QED
    BY <2>1, <2>2, <2>3, AtKnownOrder
<1>9. CASE Opened(d) /\ c # d
  <2>1. PICK op \in Ops, id \in Ids, qty \in Nat :
          /\ OpenCall(d, op, id, qty)
          /\ IF op = "place" THEN ~known(orders[id]) /\ orders' = [orders EXCEPT ![id] = NewRecord(qty)]
                             ELSE Working(orders[id].state)
    BY <1>9 DEF Opened
  <2>2. call'[d].id = id
    BY <1>1, <2>1, OpenCallFacts
  <2>3. PlaceOpen(c) /\ call[c].id = id
    BY <1>2, <1>6, <1>9, <2>2 DEF PlaceOpen
  <2>4. orders[id] = NewRecord(call[c].qty) /\ call[c].qty \in Nat
    BY <2>3, AtKnownOrder DEF Inv, PlaceOwnsRecord, PlaceOpen
  <2>5. orders[id].state = "Pending" /\ known(orders[id])
    BY <2>4, NoRecordTyped
  <2> QED
    BY <2>1, <2>5 DEF Working
<1> QED
  BY <1>7, <1>8, <1>9

\* As long as a place stays open nobody else writes its record.
LEMMA RecordUntouched ==
    ASSUME Inv, Next, ~CrashRestart, NEW c \in Clients, PlaceOpen(c), PlaceOpen(c)'
    PROVE  orders'[call[c].id] = orders[call[c].id]
<1> DEFINE id == call[c].id
<1>1. orders \in [Ids -> Record] /\ id \in Ids /\ id \in flying /\ known(orders[id])
  BY AtKnownOrder DEF Inv, TypeOK, PlaceOwnsRecord, PlaceOpen
<1>2. ASSUME NEW x, NEW r, orders' = [orders EXCEPT ![x] = r], x # id
      PROVE  orders'[id] = orders[id]
  BY <1>1, <1>2
<1>3. UNCHANGED registry => orders' = orders
  BY DEF registry
<1>4. ASSUME NEW d \in Clients, call[d].pc # "idle", call[d].id = id
      PROVE  d = c
  BY <1>4 DEF Inv, PlaceAlone
<1>5. ASSUME NEW d \in Clients, Caller(d)
      PROVE  orders'[id] = orders[id]
  <2>1. ASSUME NEW i \in Ids, NEW qty \in Quantities,
               PlaceRiskRejected(d, i, qty) \/ PlaceStaged(d, i, qty)
        PROVE  orders'[id] = orders[id]
    BY <1>1, <1>2, <2>1 DEF PlaceRiskRejected, PlaceStaged
  <2>2. CASE PlaceAccepted(d) \/ PlaceRefused(d)
    <3>1. call[d].pc = "call" /\ call'[d].pc # "call"
      <4>1. Settle(d, raced[call[d].id]) \/ Settle(d, <<>>)
        BY <2>2 DEF PlaceAccepted, PlaceRefused, Finish
      <4>2. call[d].pc = "call"
        BY <2>2 DEF PlaceAccepted, PlaceRefused, Returns
      <4>3. raced[call[d].id] \in Seq(Report) /\ <<>> \in Seq(Report)
        BY <4>2, AtKnownOrder DEF Inv, TypeOK
      <4> QED
        BY <4>1, <4>2, <4>3, SettleFacts DEF Inv
    <3>2. d # c
      BY <3>1 DEF PlaceOpen
    <3>3. call[d].id # id
      BY <1>4, <3>1, <3>2
    <3> QED
      BY <1>1, <1>2, <2>2, <3>3 DEF PlaceAccepted, PlaceRefused
  <2>3. CASE CancelAccepted(d) \/ AmendAccepted(d) \/ AmendFailed(d)
    <3>1. call[d].pc = "call" /\ d # c
      BY <2>3 DEF CancelAccepted, AmendAccepted, AmendFailed, Returns, PlaceOpen
    <3>2. call[d].id # id
      BY <1>4, <3>1
    <3> QED
      BY <1>1, <2>3, <3>2 DEF CancelAccepted, AmendAccepted, AmendFailed
  <2>4. CASE Drain(d)
    <3>1. call[d].pc = "drain" /\ d # c
      BY <2>4 DEF Drain, PlaceOpen
    <3>2. call[d].id # id
      BY <1>4, <3>1
    <3> QED
      BY <1>1, <1>2, <2>4, <3>2 DEF Drain, ApplyReport
  <2> QED
    BY <1>3, <1>5, <2>1, <2>2, <2>3, <2>4
       DEF Caller, PlaceNotPersisted, PlaceUnresolved, CancelSent, CancelFailed, AmendSent
<1>6. CASE Reader
  BY <1>1, <1>2, <1>3, <1>6 DEF Reader, ReportBuffered, ReportUnknown, ReportArbitrated, ApplyReport
<1>7. ASSUME NEW t \in Recons, Reconciler(t)
      PROVE  orders'[id] = orders[id]
  <2>1. ASSUME NEW e \in recon[t].listing,
               ListedSkipped(t, e) \/ ListedAdopted(t, e) \/ ListedRefreshed(t, e)
        PROVE  orders'[id] = orders[id]
    BY <1>1, <1>2, <2>1 DEF ListedSkipped, ListedAdopted, ListedRefreshed
  <2>2. CASE ReconFound(t) \/ ReconAbsent(t)
    <3>1. recon[t].pc = "apply"
      BY <2>2 DEF ReconFound, ReconAbsent
    <3>2. recon[t].item \in Ids /\ recon[t].item # None
      BY <3>1, OmsAssumption DEF OmsAssumption, Inv, TypeOK
    <3>3. recon[t].item # id
      BY <3>2 DEF Inv, WorkKnown, Pursued
    <3> QED
      BY <1>1, <1>2, <2>2, <3>3 DEF ReconFound, ReconAbsent
  <2> QED
    BY <1>3, <1>7, <2>1, <2>2
       DEF Reconciler, ReconList, ReconWorklist, ReconLookup, ReconLookupFails, ReconAbsentLogged,
           ReconDone
<1>8. CASE Venue
  BY <1>3, <1>8 DEF Venue, VenueAnswers, LateArrival, VenueFill, VenueCancel, FeedLoss
<1> QED
  BY <1>5, <1>6, <1>7, <1>8 DEF Next

\* A call is open for a place or an amend of id.
MutatingCall(c, id) ==
    call[c].pc = "call" /\ call[c].op \in {"place", "amend"} /\ call[c].id = id

\* OneOpenCall, quantified over calls instead of sets of calls.
LEMMA OneOpenCallAsCalls ==
    ASSUME TypeOK
    PROVE  OneOpenCall <=>
              /\ \A id \in flying : \E c \in Clients : MutatingCall(c, id)
              /\ \A id \in Ids, c, d \in Clients : MutatingCall(c, id) /\ MutatingCall(d, id) => c = d
              /\ \A id \in Ids \ flying :
                    raced[id] = <<>> /\ \A c \in Clients : ~MutatingCall(c, id)
<1>1. \A id : OpenCalls(id) = {c \in Clients : MutatingCall(c, id)}
  BY DEF OpenCalls, MutatingCall
<1>2. flying \subseteq Ids
  BY DEF TypeOK
<1> HIDE DEF MutatingCall
<1> QED
  BY <1>1, <1>2 DEF OneOpenCall

Owned ==
    /\ \A id \in flying : \E c \in Clients : MutatingCall(c, id)
    /\ \A id \in Ids, c, d \in Clients : MutatingCall(c, id) /\ MutatingCall(d, id) => c = d
    /\ \A id \in Ids \ flying : raced[id] = <<>> /\ \A c \in Clients : ~MutatingCall(c, id)

\* Every step but a restart keeps one mutating call per buffer.
LEMMA OwnedKept ==
    ASSUME Inv, ThreadsMove
    PROVE  Owned'
<1>1. TypeOK /\ call \in [Clients -> Call] /\ flying \subseteq Ids /\ raced \in [Ids -> Seq(Report)]
  BY DEF Inv, TypeOK
<1>2. Owned
  BY <1>1, OneOpenCallAsCalls DEF Inv, Owned
<1>3. ASSUME NEW c \in Clients, Opened(c)
      PROVE  Owned'
  <2>1. PICK op \in Ops, id \in Ids, qty \in Nat :
          /\ call[c].pc = "idle" /\ OpenCall(c, op, id, qty)
          /\ IF op = "cancel" THEN UNCHANGED <<flying, raced>> ELSE id \notin flying /\ OpenRaced(id)
    BY <1>3 DEF Opened
  <2>2. /\ call'[c].pc = "call" /\ call'[c].op = op /\ call'[c].id = id
        /\ \A d \in Clients \ {c} : call'[d] = call[d]
    BY <1>1, <2>1, OpenCallFacts
  <2>3. \A i : ~MutatingCall(c, i)
    BY <2>1 DEF MutatingCall
  <2>4. \A d \in Clients \ {c}, i \in Ids : MutatingCall(d, i)' <=> MutatingCall(d, i)
    BY <2>2 DEF MutatingCall
  <2>5. CASE op = "cancel"
    <3>1. \A i \in Ids : ~MutatingCall(c, i)'
      BY <2>2, <2>5 DEF MutatingCall
    <3>2. UNCHANGED <<flying, raced>>
      BY <2>1, <2>5
    <3> QED
      BY <1>1, <1>2, <2>3, <2>4, <3>1, <3>2 DEF Owned
  <2>6. CASE op # "cancel"
    <3>1. \A i \in Ids : MutatingCall(c, i)' <=> i = id
      BY <2>2, <2>6 DEF MutatingCall, Ops
    <3>2. id \notin flying /\ flying' = flying \cup {id} /\ raced' = [raced EXCEPT ![id] = <<>>]
      BY <2>1, <2>6 DEF OpenRaced
    <3>3. \A i \in flying' : \E d \in Clients : MutatingCall(d, i)'
      <4> TAKE i \in flying'
      <4>1. CASE i = id
        BY <3>1, <4>1
      <4>2. CASE i \in flying
        <5>1. PICK d \in Clients : MutatingCall(d, i)
          BY <1>2, <4>2 DEF Owned
        <5> QED
          BY <1>1, <2>3, <2>4, <4>2, <5>1
      <4> QED
        BY <3>2, <4>1, <4>2
    <3>4. \A i \in Ids, d, e \in Clients : MutatingCall(d, i)' /\ MutatingCall(e, i)' => d = e
      <4> SUFFICES ASSUME NEW i \in Ids, NEW d \in Clients, NEW e \in Clients,
                          MutatingCall(d, i)', MutatingCall(e, i)', d # e
                   PROVE  FALSE
        OBVIOUS
      <4>1. CASE d # c /\ e # c
        BY <1>2, <2>4, <4>1 DEF Owned
      <4>2. CASE d = c \/ e = c
        BY <1>2, <2>4, <3>1, <3>2, <4>2 DEF Owned
      <4> QED
        BY <4>1, <4>2
    <3>5. \A i \in Ids \ flying' : raced'[i] = <<>> /\ \A d \in Clients : ~MutatingCall(d, i)'
      BY <1>1, <1>2, <2>4, <3>1, <3>2 DEF Owned
    <3> QED
      BY <3>3, <3>4, <3>5 DEF Owned
  <2> QED
    BY <2>5, <2>6
<1>4. ASSUME NEW c \in Clients, Ended(c) \/ Drained(c)
      PROVE  Owned'
  <2>1. call'[c].pc # "call" /\ \A d \in Clients \ {c} : call'[d] = call[d]
    <3>1. CASE Ended(c)
      BY <1>1, <3>1, SettleFacts DEF Ended
    <3>2. CASE Drained(c)
      <4>1. Tail(call[c].raced) \in Seq(Report)
        BY <3>2, AtKnownOrder, HeadTailProperties DEF Drained, Inv, LockOwned
      <4> QED
        BY <1>1, <3>2, <4>1, SettleFacts DEF Drained
    <3> QED
      BY <1>4, <3>1, <3>2
  <2>2. \A d \in Clients \ {c}, i \in Ids : MutatingCall(d, i)' <=> MutatingCall(d, i)
    BY <2>1 DEF MutatingCall
  <2>3. \A i \in Ids : ~MutatingCall(c, i)'
    BY <2>1 DEF MutatingCall
  <2>4. CASE UNCHANGED <<flying, raced>> /\ (call[c].pc = "drain" \/ call[c].op = "cancel")
    <3>1. \A i \in Ids : ~MutatingCall(c, i)
      BY <2>4 DEF MutatingCall
    <3> QED
      BY <1>1, <1>2, <2>2, <2>3, <2>4, <3>1, SMTT(30) DEF Owned
  <2>5. CASE call[c].pc = "call" /\ call[c].op # "cancel" /\ CloseRaced(call[c].id)
    <3>1. call[c].id \in Ids /\ call[c].op \in {"place", "amend"}
      BY <1>1, <2>5, AtKnownOrder DEF Call, Ops
    <3>2. \A i \in Ids : MutatingCall(c, i) <=> i = call[c].id
      BY <2>5, <3>1 DEF MutatingCall
    <3>3. flying' = flying \ {call[c].id} /\ raced' = [raced EXCEPT ![call[c].id] = <<>>]
      BY <2>5 DEF CloseRaced
    <3>4. \A i \in flying' : \E d \in Clients : MutatingCall(d, i)'
      <4> TAKE i \in flying'
      <4>1. i \in flying /\ i \in Ids /\ i # call[c].id
        BY <1>1, <3>3
      <4>2. PICK d \in Clients : MutatingCall(d, i)
        BY <1>2, <4>1 DEF Owned
      <4> QED
        BY <2>2, <3>2, <4>1, <4>2
    <3>5. \A i \in Ids, d, e \in Clients : MutatingCall(d, i)' /\ MutatingCall(e, i)' => d = e
      BY <1>2, <2>2, <2>3 DEF Owned
    <3>6. \A i \in Ids \ flying' : raced'[i] = <<>> /\ \A d \in Clients : ~MutatingCall(d, i)'
      <4> TAKE i \in Ids \ flying'
      <4>1. raced'[i] = <<>>
        BY <1>1, <1>2, <3>1, <3>3 DEF Owned
      <4>2. ASSUME NEW d \in Clients, MutatingCall(d, i)'
            PROVE  FALSE
        <5>1. d # c /\ MutatingCall(d, i)
          BY <2>2, <2>3, <4>2
        <5>2. i \in flying /\ i = call[c].id
          BY <1>2, <3>3, <5>1 DEF Owned
        <5> QED
          BY <1>2, <3>2, <5>1, <5>2 DEF Owned
      <4> QED
        BY <4>1, <4>2
    <3> QED
      BY <3>4, <3>5, <3>6 DEF Owned
  <2> QED
    BY <1>4, <2>4, <2>5 DEF Ended, Drained
<1>5. ASSUME NEW c \in Clients, Answered(c)
      PROVE  Owned'
  <2>1. \A d \in Clients, i \in Ids : MutatingCall(d, i)' <=> MutatingCall(d, i)
    BY <1>1, <1>5 DEF MutatingCall, Answered, Call
  <2>2. UNCHANGED <<flying, raced>>
    BY <1>5 DEF Answered
  <2> QED
    BY <1>1, <1>2, <2>1, <2>2 DEF Owned
<1>6. CASE Buffered
  <2>1. \A d \in Clients, i \in Ids : MutatingCall(d, i)' <=> MutatingCall(d, i)
    BY <1>6 DEF MutatingCall, Buffered
  <2>2. flying' = flying /\ \A i \in Ids \ flying : raced'[i] = raced[i]
    BY <1>1, <1>6 DEF Buffered
  <2> QED
    BY <1>1, <1>2, <2>1, <2>2 DEF Owned
<1>7. CASE UNCHANGED <<flying, raced, call>>
  <2>1. \A d \in Clients, i \in Ids : MutatingCall(d, i)' <=> MutatingCall(d, i)
    BY <1>7 DEF MutatingCall
  <2> QED
    BY <1>1, <1>2, <1>7, <2>1 DEF Owned
<1> QED
  BY <1>3, <1>4, <1>5, <1>6, <1>7 DEF ThreadsMove, Reconciled

\* Every step but a restart leaves the record of an open place alone.
LEMMA PlaceOwnsRecordKept ==
    ASSUME Inv, Next, ~CrashRestart, TypeOK'
    PROVE  PlaceOwnsRecord'
<1> SUFFICES ASSUME NEW c \in Clients, PlaceOpen(c)'
             PROVE  call'[c].id \in flying' /\ orders'[call'[c].id] = NewRecord(call'[c].qty)
  BY DEF PlaceOwnsRecord, PlaceOpen
<1>1. ThreadsMove
  BY ThreadsStep
<1>2. PICK i \in Ids : i = call'[c].id
  BY DEF TypeOK, PlaceOpen
<1>3. call'[c].id \in flying'
  <2>1. MutatingCall(c, i)'
    BY <1>2 DEF PlaceOpen, MutatingCall
  <2> QED
    BY <1>1, <1>2, <2>1, OwnedKept DEF Owned
<1>4. CASE Opened(c)
  <2>1. PICK op \in Ops, id \in Ids, qty \in Nat :
          /\ OpenCall(c, op, id, qty)
          /\ op = "place" => orders' = [orders EXCEPT ![id] = NewRecord(qty)]
    BY <1>4 DEF Opened
  <2>2. call'[c].op = op /\ call'[c].id = id /\ call'[c].qty = qty
    BY <2>1, OpenCallFacts DEF Inv
  <2>3. orders'[id] = NewRecord(qty)
    BY <2>1, <2>2 DEF PlaceOpen, Inv, TypeOK
  <2> QED
    BY <1>3, <2>2, <2>3
<1>5. CASE ~Opened(c)
  <2>1. PlaceOpen(c) /\ call'[c].id = call[c].id /\ call'[c].qty = call[c].qty
    BY <1>1, <1>5, CallFrame DEF PlaceOpen
  <2>2. orders[call[c].id] = NewRecord(call[c].qty)
    BY <2>1 DEF Inv, PlaceOwnsRecord, PlaceOpen
  <2> QED
    BY <1>3, <2>1, <2>2, RecordUntouched
<1> QED
  BY <1>4, <1>5

\* No observation brings a rejected order back.
LEMMA RejectedStays ==
    ASSUME Inv, Next, ~CrashRestart, NEW id \in Ids, orders[id].state = "Rejected"
    PROVE  orders'[id].state = "Rejected"
<1>1. Advances(orders[id], orders'[id]) /\ known(orders[id])
  BY RegistryKept DEF known
<1>2. ~can_transition(orders[id].state, orders'[id].state)
  BY TableTyped DEF is_terminal
<1> QED
  BY <1>1, <1>2 DEF Advances

\* The lock is handed on as LockOwned says.
LEMMA LockOwnedKept ==
    ASSUME Inv, Next, ~CrashRestart
    PROVE  LockOwned'
<1> USE OmsAssumption DEF OmsAssumption, Threads
<1>1. ThreadsMove /\ TypeOK /\ call \in [Clients -> Call] /\ recon \in [Recons -> Recon]
  BY ThreadsStep DEF Inv, TypeOK
<1>2. LockOwned
  BY DEF Inv
<1>3. ASSUME NEW c \in Clients, lock = None \/ lock = c,
             \A d \in Clients \ {c} : call'[d] = call[d],
             UNCHANGED recon,
             call'[c].pc = "drain" => lock' = c /\ call'[c].id \notin flying' /\ call'[c].raced # <<>>
      PROVE  LockOwned'
  <2>1. \A d \in Clients \ {c} : call[d].pc # "drain"
    BY <1>2, <1>3 DEF LockOwned
  <2>2. \A t \in Recons : recon[t].pc # "absent"
    BY <1>2, <1>3 DEF LockOwned
  <2> QED
    BY <1>3, <2>1, <2>2 DEF LockOwned
<1>4. ASSUME NEW t \in Recons, recon[t].pc = "absent"
      PROVE  orders'[recon[t].item].state = "Rejected"
  BY <1>2, <1>4, RejectedStays DEF LockOwned, Inv, TypeOK
<1>5. ASSUME NEW c \in Clients, Opened(c)
      PROVE  LockOwned'
  BY <1>1, <1>3, <1>5, OpenCallFacts DEF Opened
<1>6. ASSUME NEW c \in Clients, Ended(c)
      PROVE  LockOwned'
  <2>1. PICK q \in Seq(Report) :
          /\ call[c].pc = "call" /\ lock = None /\ Settle(c, q) /\ UNCHANGED recon
          /\ IF call[c].op = "cancel" THEN q = <<>> /\ UNCHANGED <<flying, raced>>
                                      ELSE CloseRaced(call[c].id)
    BY <1>6 DEF Ended
  <2>2. CASE q = <<>>
    BY <1>1, <1>3, <2>1, <2>2, SettleFacts
  <2>3. CASE q # <<>>
    <3>1. call[c].id \notin flying'
      BY <2>1, <2>3 DEF CloseRaced
    <3> QED
      BY <1>1, <1>3, <2>1, <2>3, <3>1, SettleFacts
  <2> QED
    BY <2>2, <2>3
<1>7. ASSUME NEW c \in Clients, Drained(c)
      PROVE  LockOwned'
  <2>1. Tail(call[c].raced) \in Seq(Report)
    BY <1>7, AtKnownOrder, HeadTailProperties DEF Drained, Inv, LockOwned
  <2>2. lock = c /\ call[c].id \notin flying /\ flying' = flying /\ UNCHANGED recon
    BY <1>2, <1>7 DEF Drained, LockOwned
  <2>3. Settle(c, Tail(call[c].raced))
    BY <1>7 DEF Drained
  <2> QED
    BY <1>1, <1>3, <2>1, <2>2, <2>3, SettleFacts
<1>8. ASSUME NEW c \in Clients, Answered(c)
      PROVE  LockOwned'
  <2>1. \A d \in Clients : call'[d].pc = call[d].pc /\ (d # c => call'[d] = call[d])
    BY <1>1, <1>8 DEF Answered, Call
  <2>2. UNCHANGED <<flying, lock, recon>> /\ call[c].pc = "call"
    BY <1>8 DEF Answered
  <2> QED
    BY <1>2, <1>4, <2>1, <2>2 DEF LockOwned
<1>9. CASE UNCHANGED <<flying, call, lock, recon>>
  BY <1>2, <1>4, <1>9 DEF LockOwned
<1>10. ASSUME NEW t \in Recons, Reconciled(t)
       PROVE  LockOwned'
  <2>1. PICK x \in Recon : /\ recon' = [recon EXCEPT ![t] = x]
                           /\ x.pc = "absent" => lock' = t /\ orders'[x.item].state = "Rejected"
    BY <1>10 DEF Reconciled
  <2>2. UNCHANGED <<flying, call>> /\ (lock' = lock \/ lock \in {None, t})
    BY <1>10 DEF Reconciled
  <2>3. \A c \in Clients : call[c].pc = "drain" => lock' = c
    BY <1>2, <2>2 DEF LockOwned
  <2>4. \A u \in Recons \ {t} : recon[u].pc = "absent" => lock' = u
    BY <1>2, <2>2 DEF LockOwned
  <2>5. \A u \in Recons \ {t} : recon'[u] = recon[u]
    BY <1>1, <2>1
  <2>6. recon'[t] = x
    BY <1>1, <2>1
  <2> QED
    BY <1>2, <1>4, <2>1, <2>2, <2>3, <2>4, <2>5, <2>6 DEF LockOwned
<1> QED
  BY <1>1, <1>5, <1>6, <1>7, <1>8, <1>9, <1>10 DEF ThreadsMove, Buffered

\* What reconciling threads pursue stays known and out of the hands of places.
LEMMA WorkKnownKept ==
    ASSUME Inv, Next, ~CrashRestart
    PROVE  WorkKnown'
<1>1. ThreadsMove /\ TypeOK /\ recon \in [Recons -> Recon]
  BY ThreadsStep DEF Inv, TypeOK
<1>2. \A t \in Recons : Pursued(t) \subseteq Ids
  BY <1>1 DEF Pursued, Recon
<1>3. WorkKnown
  BY DEF Inv
<1>4. ASSUME NEW id \in Ids, known(orders[id]), \A c \in Clients : PlaceOpen(c) => call[c].id # id,
             NEW c \in Clients, PlaceOpen(c)'
      PROVE  known(orders'[id]) /\ call'[c].id # id
  <2>1. known(orders'[id])
    BY <1>4, RegistryKept DEF Advances
  <2>2. CASE Opened(c)
    <3>1. PICK op \in Ops, i \in Ids, qty \in Nat :
            /\ OpenCall(c, op, i, qty)
            /\ op = "place" => ~known(orders[i])
      BY <2>2 DEF Opened
    <3>2. call'[c].id = i /\ op = "place"
      BY <1>1, <1>4, <3>1, OpenCallFacts DEF PlaceOpen
    <3> QED
      BY <1>4, <2>1, <3>1, <3>2
  <2>3. CASE ~Opened(c)
    <3>1. PlaceOpen(c) /\ call'[c].id = call[c].id
      BY <1>1, <1>4, <2>3, CallFrame DEF PlaceOpen
    <3> QED
      BY <1>4, <2>1, <3>1
  <2> QED
    BY <2>2, <2>3
<1>5. ASSUME NEW id \in Ids, known(orders[id]), \A c \in Clients : PlaceOpen(c) => call[c].id # id
      PROVE  known(orders'[id]) /\ \A c \in Clients : PlaceOpen(c)' => call'[c].id # id
  <2>1. known(orders'[id])
    BY <1>5, RegistryKept DEF Advances
  <2> QED
    BY <1>4, <1>5, <2>1
<1>6. CASE UNCHANGED recon
  <2>1. \A t \in Recons : Pursued(t)' = Pursued(t)
    BY <1>6 DEF Pursued
  <2> QED
    BY <1>2, <1>3, <1>5, <2>1 DEF WorkKnown
<1>7. ASSUME NEW t \in Recons, Reconciled(t)
      PROVE  WorkKnown'
  <2>1. PICK x \in Recon :
          /\ recon' = [recon EXCEPT ![t] = x]
          /\ \A id \in x.work \cup ({x.item} \ {None}) :
                id \in Pursued(t) \/ (known(orders[id]) /\ id \notin flying)
    BY <1>7 DEF Reconciled
  <2>2. \A u \in Recons \ {t} : Pursued(u)' = Pursued(u)
    BY <1>1, <2>1 DEF Pursued
  <2>3. Pursued(t)' = x.work \cup ({x.item} \ {None})
    BY <1>1, <2>1 DEF Pursued
  <2>4. Pursued(t)' \subseteq Ids
    BY <2>3 DEF Recon
  <2>5. \A id \in Pursued(t)' : known(orders[id]) /\ \A c \in Clients : PlaceOpen(c) => call[c].id # id
    BY <1>3, <2>1, <2>3 DEF WorkKnown, Inv, PlaceOwnsRecord, PlaceOpen
  <2> QED
    BY <1>2, <1>3, <1>5, <2>2, <2>4, <2>5 DEF WorkKnown
<1> QED
  BY <1>1, <1>6, <1>7 DEF ThreadsMove, Opened, Ended, Drained, Answered, Buffered

-----------------------------------------------------------------------------
(* The invariant *)

\* Only a staged place counts as sent; the bounds stay numbers.
LEMMA OthersStep ==
    ASSUME Inv, Next
    PROVE  /\ \/ UNCHANGED sent
              \/ \E c \in Clients, id \in Ids, qty \in Quantities : PlaceStaged(c, id, qty)
           /\ amendsLeft' \in Nat /\ crashesLeft' \in Nat
<1>1. amendsLeft \in Nat /\ crashesLeft \in Nat
  BY DEF Inv, TypeOK
<1>2. UNCHANGED others => UNCHANGED <<sent, amendsLeft, crashesLeft>>
  BY DEF others
<1>3. ASSUME NEW c \in Clients, Caller(c)
      PROVE  /\ \/ UNCHANGED sent
                \/ \E d \in Clients, id \in Ids, qty \in Quantities : PlaceStaged(d, id, qty)
             /\ amendsLeft' \in Nat /\ crashesLeft' \in Nat
  <2>1. ASSUME NEW id \in Ids, NEW qty \in Quantities, PlaceStaged(c, id, qty)
        PROVE  amendsLeft' = amendsLeft /\ crashesLeft' = crashesLeft
    BY <2>1 DEF PlaceStaged
  <2>2. ASSUME NEW id \in Ids, NEW qty \in Quantities, AmendSent(c, id, qty)
        PROVE  UNCHANGED <<sent, crashesLeft>> /\ amendsLeft' \in Nat
    BY <1>1, <2>2 DEF AmendSent
  <2>3. ASSUME NEW id \in Ids, NEW qty \in Quantities,
               PlaceRiskRejected(c, id, qty) \/ PlaceNotPersisted(c, id, qty)
        PROVE  UNCHANGED others
    BY <2>3 DEF PlaceRiskRejected, PlaceNotPersisted
  <2>4. ASSUME NEW id \in Ids, CancelSent(c, id)
        PROVE  UNCHANGED others
    BY <2>4 DEF CancelSent
  <2>5. CASE UNCHANGED others
    BY <1>1, <1>2, <2>5
  <2> QED
    BY <1>1, <1>3, <2>1, <2>2, <2>3, <2>4, <2>5
       DEF Caller, PlaceAccepted, PlaceRefused, PlaceUnresolved, CancelAccepted, CancelFailed,
           AmendAccepted, AmendFailed, Drain
<1>4. ASSUME Reader \/ Venue
      PROVE  UNCHANGED others
  BY <1>4 DEF Reader, ReportBuffered, ReportUnknown, ReportArbitrated, Venue, VenueAnswers,
        LateArrival, VenueFill, VenueCancel, FeedLoss
<1>6. ASSUME NEW t \in Recons, Reconciler(t)
      PROVE  UNCHANGED others
  BY <1>6 DEF Reconciler, ReconList, ListedSkipped, ListedAdopted, ListedRefreshed, Listed,
        ReconWorklist, ReconLookup, ReconLookupFails, ReconFound, ReconAbsent, ReconAbsentLogged,
        ReconDone
<1>5. CASE CrashRestart
  BY <1>1, <1>5 DEF CrashRestart
<1> QED
  BY <1>1, <1>2, <1>3, <1>4, <1>5, <1>6 DEF Next

\* The number of sends stays a number.
LEMMA SentTyped ==
    ASSUME Inv, Next
    PROVE  sent' \in [Ids -> Nat]
<1>1. sent \in [Ids -> Nat]
  BY DEF Inv, TypeOK
<1>2. ASSUME NEW c \in Clients, NEW id \in Ids, NEW qty \in Quantities, PlaceStaged(c, id, qty)
      PROVE  sent' \in [Ids -> Nat]
  BY <1>1, <1>2 DEF PlaceStaged
<1> QED
  BY <1>1, <1>2, OthersStep

\* After a restart no thread is inside the OMS.
LEMMA RestartedThreads ==
    ASSUME Inv, CrashRestart
    PROVE  /\ flying' = {} /\ raced' \in [Ids -> Seq(Report)] /\ lock' = None /\ up' = FALSE
           /\ \A id \in Ids : raced'[id] = <<>>
           /\ call' \in [Clients -> Call] /\ recon' \in [Recons -> Recon]
           /\ \A c \in Clients : call'[c].pc = "idle"
           /\ \A t \in Recons : recon'[t].pc = "idle" /\ recon'[t].work = {} /\ recon'[t].item = None
<1>1. <<>> \in Seq(Report)
  OBVIOUS
<1>2. /\ flying' = {} /\ raced' = [id \in Ids |-> <<>>] /\ lock' = None /\ up' = FALSE
      /\ call' = [c \in Clients |-> IdleCall] /\ recon' = [t \in Recons |-> IdleRecon]
  BY DEF CrashRestart
<1> QED
  BY <1>1, <1>2, IdleTyped

\* Every step keeps the types.
LEMMA TypeKept ==
    ASSUME Inv, Next
    PROVE  TypeOK'
<1>1. /\ flying' \subseteq Ids /\ raced' \in [Ids -> Seq(Report)]
      /\ lock' \in Threads \cup {None} /\ up' \in BOOLEAN
      /\ call' \in [Clients -> Call]
      /\ \A c \in Clients : call'[c].pc # "idle" => call'[c].id \in Ids
      /\ recon' \in [Recons -> Recon]
      /\ \A t \in Recons : recon'[t].pc \in {"apply", "absent"} => recon'[t].item \in Ids
  <2>1. CASE ThreadsMove
    BY <2>1, ThreadsTyped
  <2>2. CASE CrashRestart
    BY <2>2, RestartedThreads
  <2> QED
    BY <2>1, <2>2, ThreadsStep
<1> QED
  BY <1>1, RegistryKept, MarketTyped, OthersStep, SentTyped DEF TypeOK

\* With every thread idle, all that is said of threads holds.
LEMMA IdleOwnsNothing ==
    ASSUME flying = {}, \A id \in Ids : raced[id] = <<>>,
           \A c \in Clients : call[c].pc = "idle",
           \A t \in Recons : recon[t].pc = "idle" /\ recon[t].work = {} /\ recon[t].item = None
    PROVE  LockOwned /\ CallsKnown /\ PlaceAlone /\ WorkKnown /\ PlaceOwnsRecord /\ OneOpenCall
BY DEF LockOwned, CallsKnown, PlaceAlone, PlaceOpen, WorkKnown, Pursued, PlaceOwnsRecord,
       OneOpenCall, OpenCalls

\* A restart leaves all threads idle.
LEMMA RestartOwnsNothing ==
    ASSUME Inv, CrashRestart
    PROVE  (LockOwned /\ CallsKnown /\ PlaceAlone /\ WorkKnown /\ PlaceOwnsRecord /\ OneOpenCall)'
BY RestartedThreads
   DEF LockOwned, CallsKnown, PlaceAlone, PlaceOpen, WorkKnown, Pursued, PlaceOwnsRecord,
       OneOpenCall, OpenCalls

\* Init establishes the invariant.
LEMMA InitInv ==
    ASSUME Init
    PROVE  Inv
<1> USE OmsAssumption DEF OmsAssumption
<1>1. TypeOK
  <2>1. orders \in [Ids -> Record] /\ disk \in [Ids -> Record]
    BY NoRecordTyped DEF Init
  <2>2. raced \in [Ids -> Seq(Report)] /\ feed \in Seq(FeedReport)
    BY DEF Init
  <2>3. /\ call \in [Clients -> Call] /\ recon \in [Recons -> Recon]
        /\ \A c \in Clients : call[c].pc = "idle"
        /\ \A t \in Recons : recon[t].pc = "idle"
    BY IdleTyped DEF Init
  <2>4. venue \in [Ids -> VenueOrder]
    <3>1. PICK F \in SUBSET Foreign, qty \in [Foreign -> Quantities] :
             venue = [id \in Ids |-> IF id \in F THEN NewVenueOrder(qty[id]) ELSE NoVenueOrder]
      BY DEF Init
    <3>2. NoVenueOrder \in VenueOrder
      BY DEF NoVenueOrder, VenueOrder
    <3>3. \A n \in Nat : NewVenueOrder(n) \in VenueOrder
      BY <3>2 DEF NewVenueOrder, VenueOrder, VenueStates, States
    <3>4. \A id \in Foreign : qty[id] \in Nat
      OBVIOUS
    <3> QED
      BY <3>1, <3>2, <3>3, <3>4
  <2>5. sent \in [Ids -> Nat] /\ amendsLeft \in Nat /\ failsLeft \in Nat /\ crashesLeft \in Nat
    BY DEF Init
  <2> QED
    BY <2>1, <2>2, <2>3, <2>4, <2>5 DEF Init, TypeOK
<1>2. LockOwned /\ CallsKnown /\ PlaceAlone /\ WorkKnown /\ PlaceOwnsRecord /\ OneOpenCall
  BY IdleTyped, IdleOwnsNothing DEF Init
<1>3. BlankUnknown /\ DiskAgrees
  BY DEF Init, BlankUnknown, DiskAgrees, NoRecord
<1> QED
  BY <1>1, <1>2, <1>3 DEF Inv

\* Every step keeps the invariant.
LEMMA NextInv ==
    ASSUME Inv, [Next]_vars
    PROVE  Inv'
<1>1. CASE Next /\ ~CrashRestart
  <2>1. TypeOK' /\ BlankUnknown' /\ DiskAgrees'
    BY <1>1, TypeKept, RegistryKept
  <2>2. OneOpenCall'
    <3>1. Owned'
      BY <1>1, ThreadsStep, OwnedKept
    <3>2. (TypeOK /\ Owned => OneOpenCall)'
      BY OneOpenCallAsCalls, PTL DEF Owned
    <3> QED
      BY <2>1, <3>1, <3>2
  <2> QED
    BY <1>1, <2>1, <2>2, LockOwnedKept, CallsKnownKept, PlaceAloneKept, WorkKnownKept,
       PlaceOwnsRecordKept DEF Inv
<1>2. CASE Next /\ CrashRestart
  BY <1>2, TypeKept, RegistryKept, RestartOwnsNothing DEF Inv
<1>3. CASE UNCHANGED vars
  <2>1. UNCHANGED <<orders, flying, raced, disk, unlogged, failsLeft, lock, call, recon, up, venue,
                    feed, late, sent, amendsLeft, crashesLeft>>
    BY <1>3 DEF vars, registry, log, market, others
  <2>2. TypeOK'
    BY <2>1 DEF Inv, TypeOK
  <2>3. LockOwned' /\ CallsKnown' /\ PlaceAlone'
    BY <2>1 DEF Inv, LockOwned, CallsKnown, PlaceAlone, PlaceOpen
  <2>4. WorkKnown' /\ PlaceOwnsRecord'
    BY <2>1 DEF Inv, WorkKnown, Pursued, PlaceOpen, PlaceOwnsRecord
  <2>5. OneOpenCall'
    BY <2>1 DEF Inv, OneOpenCall, OpenCalls
  <2>6. BlankUnknown' /\ DiskAgrees'
    BY <2>1 DEF Inv, BlankUnknown, DiskAgrees
  <2> QED
    BY <2>2, <2>3, <2>4, <2>5, <2>6 DEF Inv
<1> QED
  BY <1>1, <1>2, <1>3

-----------------------------------------------------------------------------
(* The theorems *)

\* The inductive invariant holds in every reachable state of the OMS.
THEOREM Invariance == Spec => []Inv
<1>1. Init => Inv
  BY InitInv
<1>2. Inv /\ [Next]_vars => Inv'
  BY NextInv
<1> QED
  BY <1>1, <1>2, PTL DEF Spec

\* Registry, buffers, log, threads and venue keep their types under every
\* interleaving of place, cancel, amend, on_execution_report, reconcile,
\* failing appends and restarts.
THEOREM TypeCorrect == Spec => []TypeOK
<1>1. Inv => TypeOK
  BY DEF Inv
<1> QED
  BY <1>1, Invariance, PTL

\* "The record cannot have advanced meanwhile" (place): from the send to the
\* second critical section nobody but the placing thread writes the record,
\* for any number of callers and reconciling threads.
THEOREM PlaceOwnsItsRecord == Spec => []PlaceOwnsRecord
<1>1. Inv => PlaceOwnsRecord
  BY DEF Inv
<1> QED
  BY <1>1, Invariance, PTL

\* raced_reports_ has an entry for an id exactly while one place or amend of
\* it is open: order_busy never lets a second mutating call in, and no
\* buffer outlives its call.
THEOREM OneMutatingCall == Spec => []OneOpenCall
<1>1. Inv => OneOpenCall
  BY DEF Inv
<1> QED
  BY <1>1, Invariance, PTL

\* load_from_log rebuilds the lifecycle state and the fills of every order
\* whose appends did not fail, at whatever step the process dies.
THEOREM LogFaithful == Spec => []DiskAgrees
<1>1. Inv => DiskAgrees
  BY DEF Inv
<1> QED
  BY <1>1, Invariance, PTL

\* No interleaving of reports, listings, lookups, acks and restarts takes an
\* order back in its lifecycle or lowers its fills (apply_observation,
\* can_transition, and the replay of the log).
THEOREM NoRegression == Spec => NeverRegresses
<1> DEFINE Step == \A id \in Ids \ unlogged :
                      known(orders[id]) =>
                         /\ \/ orders'[id].state = orders[id].state
                            \/ can_transition(orders[id].state, orders'[id].state)
                         /\ orders'[id].filled >= orders[id].filled
<1>1. ASSUME Inv, [Next]_vars
      PROVE  [Step]_vars
  <2>1. ASSUME Next, CrashRestart
        PROVE  Step
    <3> SUFFICES ASSUME NEW id \in Ids \ unlogged
                 PROVE  orders'[id].state = orders[id].state /\ orders'[id].filled >= orders[id].filled
      OBVIOUS
    <3>1. orders'[id] = disk[id]
      BY <2>1 DEF CrashRestart
    <3>2. disk[id].state = orders[id].state /\ disk[id].filled = orders[id].filled
      BY <1>1 DEF Inv, DiskAgrees
    <3>3. orders[id].filled \in Nat
      BY <1>1 DEF Inv, TypeOK, Record
    <3> QED
      BY <3>1, <3>2, <3>3
  <2>2. ASSUME Next, ~CrashRestart
        PROVE  Step
    BY <1>1, <2>2, RegistryKept DEF Advances
  <2> QED
    BY <1>1, <2>1, <2>2
<1>2. Spec => [][Step]_vars
  BY <1>1, Invariance, PTL DEF Spec
<1> QED
  BY <1>2 DEF NeverRegresses

\* An id that was sent was sent once and is in the registry and in the log.
SentKnown == \A id \in Ids : sent[id] <= 1 /\ (sent[id] > 0 => known(orders[id]) /\ known(disk[id]))

\* place sends only ids that the registry does not hold.
LEMMA SentKnownKept ==
    ASSUME Inv, SentKnown, [Next]_vars
    PROVE  SentKnown'
<1>1. sent \in [Ids -> Nat] /\ orders \in [Ids -> Record] /\ disk \in [Ids -> Record]
  BY DEF Inv, TypeOK
<1>2. ASSUME Next, NEW id \in Ids, known(orders[id]), known(disk[id])
      PROVE  known(orders'[id]) /\ known(disk'[id])
  <2>1. CASE CrashRestart
    BY <1>2, <2>1 DEF CrashRestart
  <2>2. CASE ~CrashRestart
    BY <1>2, <2>2, RegistryKept DEF Advances
  <2> QED
    BY <2>1, <2>2
<1>3. ASSUME Next, UNCHANGED sent
      PROVE  SentKnown'
  BY <1>2, <1>3 DEF SentKnown
<1>4. ASSUME Next, NEW c \in Clients, NEW id \in Ids, NEW qty \in Quantities, PlaceStaged(c, id, qty)
      PROVE  SentKnown'
  <2>1. /\ ~known(orders[id])
        /\ orders' = [orders EXCEPT ![id] = NewRecord(qty)]
        /\ Logged(id, "place_submitted", NewRecord(qty))
        /\ sent' = [sent EXCEPT ![id] = @ + 1]
    BY <1>4 DEF PlaceStaged
  <2>2. qty \in Nat
    BY OmsAssumption DEF OmsAssumption
  <2>3. NewRecord(qty) \in Record /\ known(NewRecord(qty))
    BY <2>2, NoRecordTyped
  <2>4. disk' = [disk EXCEPT ![id] = replay(disk[id], "place_submitted", NewRecord(qty))]
    BY <1>1, <2>1 DEF Logged
  <2>5. known(replay(disk[id], "place_submitted", NewRecord(qty)))
    <3>1. replay(disk[id], "place_submitted", NewRecord(qty)) = ReplayPlaced("place_submitted", NewRecord(qty))
      BY DEF replay
    <3> QED
      BY <2>3, <3>1, ReplayPlacedTyped
  <2>6. known(orders'[id]) /\ known(disk'[id])
    BY <1>1, <2>1, <2>3, <2>4, <2>5
  <2>7. sent[id] = 0 /\ sent'[id] = 1
    BY <1>1, <2>1 DEF SentKnown
  <2>8. \A i \in Ids \ {id} : sent'[i] = sent[i]
    BY <1>1, <2>1
  <2> QED
    BY <1>2, <1>4, <2>6, <2>7, <2>8 DEF SentKnown
<1>5. CASE UNCHANGED vars
  BY <1>5 DEF vars, registry, log, others, SentKnown
<1> QED
  BY <1>3, <1>4, <1>5, OthersStep

\* SentKnown holds in every reachable state.
LEMMA SentKnownAlways == Spec => []SentKnown
<1>1. Init => SentKnown
  BY DEF Init, SentKnown
<1>2. Inv /\ SentKnown /\ [Next]_vars => SentKnown'
  BY SentKnownKept
<1> QED
  BY <1>1, <1>2, Invariance, PTL DEF Spec

\* place sends a client order id at most once, over retries, transport
\* errors, failing appends and any number of restarts.
THEOREM SentOnce == Spec => []AtMostOnePlace
<1>1. SentKnown => AtMostOnePlace
  BY DEF SentKnown, AtMostOnePlace
<1> QED
  BY <1>1, SentKnownAlways, PTL

\* Write-ahead: an order that has been sent to the venue is in the registry
\* and in the log, so that no restart forgets it.
THEOREM SentNotForgotten == Spec => []NotForgotten
<1>1. SentKnown => NotForgotten
  BY DEF SentKnown, NotForgotten
<1> QED
  BY <1>1, SentKnownAlways, PTL

-----------------------------------------------------------------------------
(* What the threads and the venue leave alone *)

\* Head and tail of a sequence hold what the sequence holds.
LEMMA SplitSeq ==
    ASSUME NEW S, NEW s \in Seq(S), s # <<>>
    PROVE  /\ Head(s) \in S /\ Tail(s) \in Seq(S)
           /\ 1 \in DOMAIN s /\ s[1] = Head(s)
           /\ \A i \in DOMAIN Tail(s) : i \in Nat /\ i >= 1 /\ i + 1 \in DOMAIN s /\ Tail(s)[i] = s[i + 1]
           /\ \A i \in DOMAIN s : i \in Nat /\ (i = 1 \/ (i - 1 \in DOMAIN Tail(s) /\ Tail(s)[i - 1] = s[i]))
<1>1. /\ Len(s) \in Nat /\ DOMAIN s = 1..Len(s) /\ Head(s) \in S /\ Head(s) = s[1]
      /\ Tail(s) \in Seq(S) /\ Len(Tail(s)) = Len(s) - 1
      /\ \A i \in 1..Len(Tail(s)) : Tail(s)[i] = s[i + 1]
  BY HeadTailProperties, LenProperties
<1>2. Len(s) # 0
  BY EmptySeq
<1>3. DOMAIN Tail(s) = 1..(Len(s) - 1)
  BY <1>1, LenProperties
<1> QED
  BY <1>1, <1>2, <1>3

LEMMA ReconcilerFrame ==
    ASSUME NEW t \in Recons, Reconciler(t)
    PROVE  UNCHANGED <<flying, raced, call, venue, feed, late, crashesLeft>>
<1>0. /\ UNCHANGED registry => UNCHANGED <<flying, raced>>
      /\ UNCHANGED market => UNCHANGED <<venue, feed, late>>
      /\ UNCHANGED others => UNCHANGED crashesLeft
  BY DEF registry, market, others
<1>1. CASE ReconList(t)
  BY <1>0, <1>1 DEF ReconList
<1>2. ASSUME NEW e \in recon[t].listing, ListedSkipped(t, e) \/ ListedAdopted(t, e) \/ ListedRefreshed(t, e)
      PROVE  UNCHANGED <<flying, raced, call, venue, feed, late, crashesLeft>>
  <2>1. Listed(t, e)
    BY <1>2 DEF ListedSkipped, ListedAdopted, ListedRefreshed
  <2> QED
    BY <1>0, <2>1 DEF Listed
<1>3. CASE ReconWorklist(t) \/ ReconDone(t)
  BY <1>0, <1>3 DEF ReconWorklist, ReconDone
<1>4. ASSUME NEW id \in Ids, ReconLookup(t, id) \/ ReconLookupFails(t, id)
      PROVE  UNCHANGED <<flying, raced, call, venue, feed, late, crashesLeft>>
  BY <1>0, <1>4 DEF ReconLookup, ReconLookupFails
<1>5. CASE ReconFound(t)
  BY <1>0, <1>5 DEF ReconFound
<1>6. CASE ReconAbsent(t) \/ ReconAbsentLogged(t)
  BY <1>0, <1>6 DEF ReconAbsent, ReconAbsentLogged
<1> QED
  BY <1>1, <1>2, <1>3, <1>4, <1>5, <1>6 DEF Reconciler

LEMMA CallerFrame ==
    ASSUME NEW c \in Clients, Caller(c)
    PROVE  /\ UNCHANGED <<venue, feed, crashesLeft>>
           /\ late' = late \/ PlaceUnresolved(c) \/ CancelFailed(c) \/ AmendFailed(c)
<1>0. /\ UNCHANGED market => UNCHANGED <<venue, feed, late>>
      /\ UNCHANGED others => UNCHANGED crashesLeft
  BY DEF market, others
<1>1. ASSUME NEW id \in Ids, NEW qty \in Quantities,
             \/ PlaceStaged(c, id, qty) \/ AmendSent(c, id, qty)
             \/ PlaceRiskRejected(c, id, qty) \/ PlaceNotPersisted(c, id, qty)
      PROVE  UNCHANGED <<venue, feed, late, crashesLeft>>
  BY <1>0, <1>1 DEF PlaceStaged, AmendSent, PlaceRiskRejected, PlaceNotPersisted
<1>2. ASSUME NEW id \in Ids, CancelSent(c, id)
      PROVE  UNCHANGED <<venue, feed, late, crashesLeft>>
  BY <1>0, <1>2 DEF CancelSent
<1>3. CASE PlaceAccepted(c) \/ PlaceRefused(c) \/ AmendAccepted(c)
  BY <1>0, <1>3 DEF PlaceAccepted, PlaceRefused, AmendAccepted
<1>4. CASE CancelAccepted(c) \/ Drain(c)
  BY <1>0, <1>4 DEF CancelAccepted, Drain
<1>5. CASE PlaceUnresolved(c) \/ CancelFailed(c) \/ AmendFailed(c)
  BY <1>0, <1>5 DEF PlaceUnresolved, CancelFailed, AmendFailed
<1> QED
  BY <1>1, <1>2, <1>3, <1>4, <1>5 DEF Caller

LEMMA VenueFrame ==
    ASSUME Venue
    PROVE  UNCHANGED <<registry, log, lock, recon, up, others>> /\ late' \subseteq late
<1>1. ASSUME NEW c \in Clients, VenueAnswers(c)
      PROVE  UNCHANGED <<registry, log, lock, recon, up, others, late>>
  BY <1>1 DEF VenueAnswers
<1>2. ASSUME NEW p \in late, LateArrival(p)
      PROVE  UNCHANGED <<registry, log, lock, recon, up, others>> /\ late' \subseteq late
  BY <1>2 DEF LateArrival
<1>3. ASSUME NEW id \in Ids, VenueFill(id) \/ VenueCancel(id)
      PROVE  UNCHANGED <<registry, log, lock, recon, up, others, late>>
  BY <1>3 DEF VenueFill, VenueCancel
<1> QED
  BY <1>1, <1>2, <1>3 DEF Venue, FeedLoss

-----------------------------------------------------------------------------
(* Reports on their way: in the feed, in the buffer of an open call, or in *)
(* a drain                                                                 *)

InFeed(id) == {feed[i].report : i \in {j \in DOMAIN feed : feed[j].id = id}}

InBuffer(id) == {raced[id][i] : i \in DOMAIN raced[id]}

DrainedBy(c) == {call[c].raced[i] : i \in DOMAIN call[c].raced}

Drainers(id) == {c \in Clients : call[c].pc = "drain" /\ call[c].id = id}

InDrain(id) == UNION {DrainedBy(c) : c \in Drainers(id)}

\* The reports about an order that are not applied yet.
Due(id) == InFeed(id) \cup InBuffer(id) \cup InDrain(id)

\* What is appended to the feed is due.
LEMMA FeedAppended ==
    ASSUME feed \in Seq(FeedReport), NEW e \in FeedReport, feed' = Append(feed, e), NEW id
    PROVE  InFeed(id)' = InFeed(id) \cup (IF e.id = id THEN {e.report} ELSE {})
<1>1. /\ Len(feed) \in Nat /\ DOMAIN feed = 1..Len(feed) /\ DOMAIN feed' = 1..(Len(feed) + 1)
      /\ \A i \in 1..Len(feed) : feed'[i] = feed[i]
      /\ feed'[Len(feed) + 1] = e
  BY AppendProperties, LenProperties
<1>2. \A i \in DOMAIN feed' : i \in DOMAIN feed \/ i = Len(feed) + 1
  BY <1>1
<1>3. \A i \in DOMAIN feed : i \in DOMAIN feed' /\ feed'[i] = feed[i]
  BY <1>1
<1>4. Len(feed) + 1 \in DOMAIN feed'
  BY <1>1
<1> QED
  BY <1>1, <1>2, <1>3, <1>4 DEF InFeed

\* What is taken from the feed is its head.
LEMMA FeedTaken ==
    ASSUME feed \in Seq(FeedReport), feed # <<>>, feed' = Tail(feed), NEW id
    PROVE  /\ InFeed(id)' \subseteq InFeed(id)
           /\ InFeed(id) \subseteq InFeed(id)' \cup (IF Head(feed).id = id THEN {Head(feed).report} ELSE {})
           /\ Head(feed).id = id => Head(feed).report \in InFeed(id)
<1>1. /\ 1 \in DOMAIN feed /\ feed[1] = Head(feed)
      /\ \A i \in DOMAIN Tail(feed) : i + 1 \in DOMAIN feed /\ Tail(feed)[i] = feed[i + 1]
      /\ \A i \in DOMAIN feed : i = 1 \/ (i - 1 \in DOMAIN Tail(feed) /\ Tail(feed)[i - 1] = feed[i])
  BY SplitSeq
<1>2. InFeed(id)' \subseteq InFeed(id)
  <2> SUFFICES ASSUME NEW i \in DOMAIN feed', feed'[i].id = id
               PROVE  feed'[i].report \in InFeed(id)
    BY DEF InFeed
  <2> QED
    BY <1>1 DEF InFeed
<1>3. Head(feed).id = id => Head(feed).report \in InFeed(id)
  BY <1>1 DEF InFeed
<1>4. ASSUME NEW i \in DOMAIN feed, feed[i].id = id
      PROVE  feed[i].report \in InFeed(id)' \cup (IF Head(feed).id = id THEN {Head(feed).report} ELSE {})
  <2>1. CASE i = 1
    BY <1>1, <1>4, <2>1
  <2>2. CASE i # 1
    <3>1. i - 1 \in DOMAIN feed' /\ feed'[i - 1] = feed[i]
      BY <1>1, <2>2
    <3> QED
      BY <1>4, <3>1 DEF InFeed
  <2> QED
    BY <2>1, <2>2
<1>5. InFeed(id) \subseteq InFeed(id)' \cup (IF Head(feed).id = id THEN {Head(feed).report} ELSE {})
  BY <1>4 DEF InFeed
<1> QED
  BY <1>2, <1>3, <1>5

\* What is appended to a buffer is in it.
LEMMA BufferAppended ==
    ASSUME raced \in [Ids -> Seq(Report)], NEW id \in Ids, NEW e \in Report,
           raced' = [raced EXCEPT ![id] = Append(@, e)]
    PROVE  \A i \in Ids : InBuffer(i)' = IF i = id THEN InBuffer(i) \cup {e} ELSE InBuffer(i)
<1> DEFINE q == raced[id]
<1>1. q \in Seq(Report) /\ raced'[id] = Append(q, e) /\ \A i \in Ids \ {id} : raced'[i] = raced[i]
  OBVIOUS
<1> HIDE DEF q
<1>2. /\ DOMAIN q = 1..Len(q) /\ Len(q) \in Nat /\ DOMAIN Append(q, e) = 1..(Len(q) + 1)
      /\ \A i \in 1..Len(q) : Append(q, e)[i] = q[i]
      /\ Append(q, e)[Len(q) + 1] = e
  BY <1>1, AppendProperties, LenProperties
<1>3. {Append(q, e)[i] : i \in DOMAIN Append(q, e)} = {q[i] : i \in DOMAIN q} \cup {e}
  <2>1. \A i \in DOMAIN Append(q, e) : i \in DOMAIN q \/ i = Len(q) + 1
    BY <1>2
  <2>2. \A i \in DOMAIN q : i \in DOMAIN Append(q, e)
    BY <1>2
  <2>3. Len(q) + 1 \in DOMAIN Append(q, e)
    BY <1>2
  <2> QED
    BY <1>2, <2>1, <2>2, <2>3
<1>4. InBuffer(id) = {q[i] : i \in DOMAIN q}
  BY DEF InBuffer, q
<1>5. InBuffer(id)' = {Append(q, e)[i] : i \in DOMAIN Append(q, e)}
  BY <1>1 DEF InBuffer
<1>6. \A i \in Ids \ {id} : InBuffer(i)' = InBuffer(i)
  BY <1>1 DEF InBuffer
<1> QED
  BY <1>3, <1>4, <1>5, <1>6

\* Calls that are not draining hold no report.
LEMMA DrainFrame ==
    ASSUME NEW c \in Clients, call[c].pc # "drain", call'[c].pc # "drain",
           \A d \in Clients \ {c} : call'[d] = call[d]
    PROVE  \A id : Drainers(id)' = Drainers(id) /\ InDrain(id)' = InDrain(id)
<1>1. \A id : Drainers(id)' = Drainers(id)
  BY DEF Drainers
<1>2. \A id : \A d \in Drainers(id) : DrainedBy(d)' = DrainedBy(d)
  BY DEF DrainedBy, Drainers
<1>3. ASSUME NEW id PROVE InDrain(id)' = InDrain(id)
  BY <1>1, <1>2 DEF InDrain
<1> QED
  BY <1>1, <1>3

\* What is due are reports.
LEMMA DueTyped ==
    ASSUME Inv, NEW id \in Ids
    PROVE  Due(id) \subseteq Report
<1>1. feed \in Seq(FeedReport) /\ raced[id] \in Seq(Report)
  BY DEF Inv, TypeOK
<1>2. InFeed(id) \subseteq Report
  <2>1. \A i \in DOMAIN feed : feed[i] \in FeedReport
    BY <1>1, ElementOfSeq, LenProperties
  <2> QED
    BY <2>1 DEF InFeed, FeedReport
<1>3. InBuffer(id) \subseteq Report
  BY <1>1, ElementOfSeq, LenProperties DEF InBuffer
<1>4. InDrain(id) \subseteq Report
  <2> SUFFICES ASSUME NEW c \in Clients, call[c].pc = "drain" PROVE DrainedBy(c) \subseteq Report
    BY DEF InDrain, Drainers
  <2>1. call[c].raced \in Seq(Report)
    BY AtKnownOrder
  <2> QED
    BY <2>1, ElementOfSeq, LenProperties DEF DrainedBy
<1> QED
  BY <1>2, <1>3, <1>4 DEF Due

\* A venue call that ends hands the reports of its buffer to the drain ...
LEMMA SettleDue ==
    ASSUME Inv, NEW c \in Clients, call[c].pc = "call", Settle(c, raced[call[c].id]),
           CloseRaced(call[c].id), feed' = feed
    PROVE  \A id \in Ids : Due(id)' = Due(id)
<1>0. PICK x : x = call[c].id
  OBVIOUS
<1> DEFINE q == raced[x]
<1>1. x \in Ids /\ q \in Seq(Report) /\ raced \in [Ids -> Seq(Report)] /\ TypeOK
  BY <1>0, AtKnownOrder DEF Inv, TypeOK
<1>2. \A id : InFeed(id)' = InFeed(id)
  BY DEF InFeed
<1>3. /\ InBuffer(x)' = {}
      /\ \A id \in Ids \ {x} : InBuffer(id)' = InBuffer(id)
  <2>1. raced'[x] = <<>> /\ \A id \in Ids \ {x} : raced'[id] = raced[id]
    BY <1>0, <1>1 DEF CloseRaced
  <2>2. DOMAIN raced'[x] = {}
    BY <2>1
  <2> QED
    BY <2>1, <2>2 DEF InBuffer
<1> HIDE DEF q
<1>4. Settle(c, q)
  BY <1>0 DEF q
<1>5. CASE q = <<>>
  <2>1. call'[c].pc = "idle" /\ \A d \in Clients \ {c} : call'[d] = call[d]
    BY <1>1, <1>4, <1>5, SettleFacts
  <2>2. \A id : InDrain(id)' = InDrain(id)
    BY <2>1, DrainFrame
  <2>3. InBuffer(x) = {}
    BY <1>5 DEF InBuffer, q
  <2> QED
    BY <1>2, <1>3, <2>2, <2>3 DEF Due
<1>6. CASE q # <<>>
  <2>1. /\ call'[c].pc = "drain" /\ call'[c].id = x /\ call'[c].raced = q
        /\ \A d \in Clients \ {c} : call'[d] = call[d]
    BY <1>0, <1>1, <1>4, <1>6, SettleFacts
  <2>2. Drainers(x)' = Drainers(x) \cup {c} /\ \A id \in Ids \ {x} : Drainers(id)' = Drainers(id)
    BY <2>1 DEF Drainers
  <2>3. c \notin Drainers(x) /\ \A id \in Ids : c \notin Drainers(id)
    BY DEF Drainers
  <2>4. DrainedBy(c)' = InBuffer(x) /\ \A d \in Clients \ {c} : DrainedBy(d)' = DrainedBy(d)
    BY <2>1 DEF DrainedBy, InBuffer, q
  <2>5. \A id : Drainers(id) \subseteq Clients
    BY DEF Drainers
  <2>6. InDrain(x)' = InDrain(x) \cup InBuffer(x)
    BY <2>2, <2>3, <2>4, <2>5 DEF InDrain
  <2>7. \A id \in Ids \ {x} : InDrain(id)' = InDrain(id)
    BY <2>2, <2>3, <2>4, <2>5 DEF InDrain
  <2> QED
    BY <1>1, <1>2, <1>3, <2>6, <2>7 DEF Due
<1> QED
  BY <1>0, <1>5, <1>6

\* ... or drops them.
LEMMA FinishDue ==
    ASSUME Inv, NEW c \in Clients, call[c].pc = "call", Finish(c),
           CloseRaced(call[c].id) \/ UNCHANGED raced, feed' = feed
    PROVE  \A id \in Ids : /\ Due(id)' \subseteq Due(id)
                           /\ id # call[c].id \/ UNCHANGED raced => Due(id)' = Due(id)
<1>0. PICK x : x = call[c].id
  OBVIOUS
<1>1. x \in Ids /\ <<>> \in Seq(Report) /\ raced \in [Ids -> Seq(Report)] /\ TypeOK
  BY <1>0, AtKnownOrder DEF Inv, TypeOK
<1>2. \A id : InFeed(id)' = InFeed(id)
  BY DEF InFeed
<1>3. call'[c].pc = "idle" /\ \A d \in Clients \ {c} : call'[d] = call[d]
  BY <1>1, SettleFacts DEF Finish
<1>4. \A id : InDrain(id)' = InDrain(id)
  BY <1>3, DrainFrame
<1>5. CASE UNCHANGED raced
  <2>1. \A id : InBuffer(id)' = InBuffer(id)
    BY <1>5 DEF InBuffer
  <2> QED
    BY <1>2, <1>4, <2>1 DEF Due
<1>6. CASE CloseRaced(x)
  <2>1. raced'[x] = <<>> /\ \A id \in Ids \ {x} : raced'[id] = raced[id]
    BY <1>0, <1>1, <1>6 DEF CloseRaced
  <2>2. InBuffer(x)' = {} /\ \A id \in Ids \ {x} : InBuffer(id)' = InBuffer(id)
    <3>1. DOMAIN raced'[x] = {}
      BY <2>1
    <3> QED
      BY <2>1, <3>1 DEF InBuffer
  <2>3. \A id \in Ids : Due(id)' \subseteq Due(id) /\ (id # x => Due(id)' = Due(id))
    BY <1>2, <1>4, <2>2 DEF Due
  <2> QED
    BY <1>0, <1>5, <2>3
<1> QED
  BY <1>0, <1>5, <1>6

\* A call that opens finds its buffer empty.
LEMMA OpenDue ==
    ASSUME Inv, NEW c \in Clients, call[c].pc = "idle", NEW op \in Ops, NEW i \in Ids, NEW qty \in Nat,
           OpenCall(c, op, i, qty), UNCHANGED raced \/ (i \notin flying /\ OpenRaced(i)), feed' = feed
    PROVE  \A id \in Ids : Due(id)' = Due(id)
<1>1. raced' = raced
  BY DEF OpenRaced, Inv, TypeOK, OneOpenCall
<1>2. call'[c].pc = "call" /\ \A d \in Clients \ {c} : call'[d] = call[d]
  BY OpenCallFacts DEF Inv
<1>3. \A id : InDrain(id)' = InDrain(id)
  BY <1>2, DrainFrame
<1> QED
  BY <1>1, <1>3 DEF Due, InFeed, InBuffer

\* An iteration of the drain applies the first of its reports.
LEMMA DrainDue ==
    ASSUME Inv, NEW c \in Clients, Drain(c)
    PROVE  /\ ApplyReport(call[c].id, Head(call[c].raced))
           /\ \A id \in Ids :
                 /\ Due(id)' \subseteq Due(id)
                 /\ \A r \in Due(id) : \/ r \in Due(id)'
                                       \/ id = call[c].id /\ r = Head(call[c].raced)
<1>0. PICK x : x = call[c].id
  OBVIOUS
<1> DEFINE q == call[c].raced
<1>1. x \in Ids /\ q \in Seq(Report) /\ q # <<>> /\ TypeOK
  BY <1>0, AtKnownOrder DEF Inv, Drain, LockOwned
<1>2. Tail(q) \in Seq(Report) /\ Settle(c, Tail(q)) /\ ApplyReport(x, Head(q)) /\ call[c].pc = "drain"
  BY <1>0, <1>1, SplitSeq DEF Drain
<1>3. /\ \A i \in DOMAIN Tail(q) : i + 1 \in DOMAIN q /\ Tail(q)[i] = q[i + 1]
      /\ \A i \in DOMAIN q : i = 1 \/ (i - 1 \in DOMAIN Tail(q) /\ Tail(q)[i - 1] = q[i])
      /\ q[1] = Head(q)
  BY <1>1, SplitSeq
<1> HIDE DEF q
<1>4. \A id : InFeed(id)' = InFeed(id) /\ InBuffer(id)' = InBuffer(id)
  BY DEF Drain, market, InFeed, InBuffer
<1>5. \A d \in Clients \ {c} : call'[d] = call[d] /\ DrainedBy(d)' = DrainedBy(d)
  <2>1. \A d \in Clients \ {c} : call'[d] = call[d]
    BY <1>1, <1>2, SettleFacts
  <2> QED
    BY <2>1 DEF DrainedBy
<1>6. DrainedBy(c) = {q[i] : i \in DOMAIN q}
  BY DEF DrainedBy, q
<1>7. \A id : Drainers(id) \subseteq Clients /\ (c \in Drainers(id) => id = x)
  BY <1>0 DEF Drainers
<1>8. c \in Drainers(x)
  BY <1>0, <1>2 DEF Drainers
<1>9. CASE Tail(q) = <<>>
  <2>1. call'[c].pc = "idle"
    BY <1>1, <1>2, <1>9, SettleFacts
  <2>2. \A id : Drainers(id)' = Drainers(id) \ {c}
    BY <1>5, <2>1 DEF Drainers
  <2>3. DOMAIN Tail(q) = {}
    BY <1>9
  <2>4. \A r \in DrainedBy(c) : r = Head(q)
    BY <1>3, <1>6, <2>3
  <2>5. \A id : InDrain(id)' \subseteq InDrain(id)
    BY <1>5, <1>7, <2>2 DEF InDrain
  <2>6. ASSUME NEW id, NEW r \in InDrain(id)
        PROVE  r \in InDrain(id)' \/ (id = x /\ r = Head(q))
    BY <1>5, <1>7, <2>2, <2>4, <2>6 DEF InDrain
  <2> QED
    BY <1>0, <1>2, <1>4, <2>5, <2>6 DEF Due, q
<1>10. CASE Tail(q) # <<>>
  <2>1. call'[c].pc = "drain" /\ call'[c].id = x /\ call'[c].raced = Tail(q)
    BY <1>0, <1>1, <1>2, <1>10, SettleFacts
  <2>2. \A id : Drainers(id)' = Drainers(id)
    BY <1>0, <1>2, <1>5, <2>1 DEF Drainers
  <2>3. DrainedBy(c)' = {Tail(q)[i] : i \in DOMAIN Tail(q)}
    BY <2>1 DEF DrainedBy
  <2>4. DrainedBy(c)' \subseteq DrainedBy(c) /\ \A r \in DrainedBy(c) : r \in DrainedBy(c)' \/ r = Head(q)
    <3>1. DrainedBy(c)' \subseteq DrainedBy(c)
      BY <1>3, <1>6, <2>3
    <3>2. ASSUME NEW i \in DOMAIN q
          PROVE  q[i] \in DrainedBy(c)' \/ q[i] = Head(q)
      BY <1>3, <2>3
    <3> QED
      BY <1>6, <3>1, <3>2
  <2>5. \A id : InDrain(id)' \subseteq InDrain(id)
    BY <1>5, <1>7, <2>2, <2>4 DEF InDrain
  <2>6. ASSUME NEW id, NEW r \in InDrain(id)
        PROVE  r \in InDrain(id)' \/ (id = x /\ r = Head(q))
    BY <1>5, <1>7, <2>2, <2>4, <2>6 DEF InDrain
  <2> QED
    BY <1>0, <1>2, <1>4, <2>5, <2>6 DEF Due, q
<1> QED
  BY <1>9, <1>10

\* The feed thread applies the head of the feed, a drain that of its queue.
Applied(id, r) ==
    /\ ApplyReport(id, r)
    /\ \/ ReportArbitrated /\ Head(feed).id = id /\ Head(feed).report = r
       \/ \E c \in Clients : Drain(c) /\ call[c].id = id /\ Head(call[c].raced) = r

\* The feed thread moves the head of the feed to a buffer or applies it.
LEMMA ReaderDue ==
    ASSUME Inv, Reader, NEW id \in Ids
    PROVE  /\ Due(id)' \subseteq Due(id)
           /\ \A r \in Due(id) : r \in Due(id)' \/ Applied(id, r) \/ ~known(orders[id])
<1>1. feed \in Seq(FeedReport) /\ feed # <<>> /\ feed' = Tail(feed)
  BY DEF Inv, TypeOK, Reader, ReportBuffered, ReportUnknown, ReportArbitrated
<1>2. Head(feed).id \in Ids /\ Head(feed).report \in Report
  <2>1. Head(feed) \in FeedReport
    BY <1>1, SplitSeq
  <2> QED
    BY <2>1 DEF FeedReport
<1>3. /\ InFeed(id)' \subseteq InFeed(id)
      /\ InFeed(id) \subseteq InFeed(id)' \cup (IF Head(feed).id = id THEN {Head(feed).report} ELSE {})
      /\ Head(feed).id = id => Head(feed).report \in InFeed(id)
  BY <1>1, FeedTaken
<1>4. InDrain(id)' = InDrain(id)
  <2>1. UNCHANGED call
    BY DEF Reader, ReportBuffered, ReportUnknown, ReportArbitrated
  <2> QED
    BY <2>1 DEF InDrain, Drainers, DrainedBy
<1>5. CASE ReportBuffered
  <2>1. raced \in [Ids -> Seq(Report)] /\ raced' = [raced EXCEPT ![Head(feed).id] = Append(@, Head(feed).report)]
    BY <1>5 DEF ReportBuffered, Inv, TypeOK
  <2>2. InBuffer(id)' = IF id = Head(feed).id THEN InBuffer(id) \cup {Head(feed).report} ELSE InBuffer(id)
    BY <1>2, <2>1, BufferAppended
  <2> QED
    BY <1>3, <1>4, <2>2 DEF Due
<1>6. CASE ReportUnknown
  <2>1. InBuffer(id)' = InBuffer(id) /\ ~known(orders[Head(feed).id])
    BY <1>6 DEF ReportUnknown, registry, InBuffer
  <2> QED
    BY <1>3, <1>4, <2>1 DEF Due
<1>7. CASE ReportArbitrated
  <2>1. InBuffer(id)' = InBuffer(id) /\ ApplyReport(Head(feed).id, Head(feed).report)
    BY <1>7 DEF ReportArbitrated, InBuffer
  <2>2. Head(feed).id = id => Applied(id, Head(feed).report)
    BY <1>7, <2>1 DEF Applied
  <2> QED
    BY <1>3, <1>4, <2>1, <2>2 DEF Due
<1> QED
  BY <1>5, <1>6, <1>7 DEF Reader

\* The ways in which a report about an order can go without being applied.
Lost(id) ==
    \/ FeedLoss \/ CrashRestart
    \/ id \in unlogged'
    \/ ~known(orders[id])
    \/ \E c \in Clients : PlaceRefused(c) /\ call[c].id = id

NewsOf(id) == ReportOf(id, venue[id]).report

\* A caller only hands reports on, applies or drops them.
LEMMA CallerDue ==
    ASSUME Inv, NEW c \in Clients, Caller(c), NEW id \in Ids
    PROVE  /\ Due(id)' \subseteq Due(id)
           /\ \A r \in Due(id) : r \in Due(id)' \/ Applied(id, r) \/ Lost(id)
<1> USE OmsAssumption DEF OmsAssumption, Ops
<1>0. call \in [Clients -> Call]
  BY DEF Inv, TypeOK
<1>1. ASSUME NEW i \in Ids, NEW qty \in Quantities,
             PlaceRiskRejected(c, i, qty) \/ PlaceNotPersisted(c, i, qty)
      PROVE  Due(id)' = Due(id)
  <2>1. UNCHANGED <<feed, raced, call>>
    BY <1>1 DEF PlaceRiskRejected, PlaceNotPersisted, market, registry
  <2> QED
    BY <2>1 DEF Due, InFeed, InBuffer, InDrain, Drainers, DrainedBy
<1>2. ASSUME NEW i \in Ids, NEW qty \in Quantities, PlaceStaged(c, i, qty) \/ AmendSent(c, i, qty)
      PROVE  Due(id)' = Due(id)
  <2>1. i \notin flying
    BY <1>2, FlyingKnown DEF PlaceStaged, AmendSent
  <2>2. /\ call[c].pc = "idle" /\ OpenRaced(i) /\ feed' = feed
        /\ OpenCall(c, "place", i, qty) \/ OpenCall(c, "amend", i, qty)
    BY <1>2 DEF PlaceStaged, AmendSent, Enters, market
  <2> QED
    BY <2>1, <2>2, OpenDue
<1>3. ASSUME NEW i \in Ids, CancelSent(c, i)
      PROVE  Due(id)' = Due(id)
  <2>1. call[c].pc = "idle" /\ OpenCall(c, "cancel", i, 0) /\ feed' = feed /\ UNCHANGED raced
    BY <1>3 DEF CancelSent, Enters, market, registry
  <2> QED
    BY <2>1, OpenDue
<1>4. CASE PlaceUnresolved(c) \/ AmendFailed(c)
  <2>1. call[c].pc = "call" /\ Settle(c, raced[call[c].id]) /\ CloseRaced(call[c].id) /\ feed' = feed
    BY <1>4 DEF PlaceUnresolved, AmendFailed, Returns
  <2> QED
    BY <2>1, SettleDue
<1>5. CASE PlaceAccepted(c) \/ AmendAccepted(c)
  <2>1. /\ call[c].pc = "call" /\ CloseRaced(call[c].id) /\ feed' = feed
        /\ Settle(c, raced[call[c].id]) \/ (LogFails(call[c].id) /\ Finish(c))
    BY <1>5 DEF PlaceAccepted, AmendAccepted, Returns, market
  <2>2. CASE Settle(c, raced[call[c].id])
    BY <2>1, <2>2, SettleDue
  <2>3. CASE LogFails(call[c].id) /\ Finish(c)
    <3>1. call[c].id \in unlogged'
      BY <2>3 DEF LogFails
    <3> QED
      BY <2>1, <2>3, <3>1, FinishDue DEF Lost
  <2> QED
    BY <2>1, <2>2, <2>3
<1>6. CASE PlaceRefused(c)
  <2>1. call[c].pc = "call" /\ CloseRaced(call[c].id) /\ feed' = feed /\ Finish(c)
    BY <1>6 DEF PlaceRefused, Returns, market
  <2> QED
    BY <1>6, <2>1, FinishDue DEF Lost
<1>7. CASE CancelAccepted(c) \/ CancelFailed(c)
  <2>1. call[c].pc = "call" /\ UNCHANGED raced /\ feed' = feed /\ Finish(c)
    BY <1>7 DEF CancelAccepted, CancelFailed, Returns, market, registry
  <2> QED
    BY <2>1, FinishDue
<1>8. CASE Drain(c)
  BY <1>8, DrainDue DEF Applied
<1> QED
  BY <1>1, <1>2, <1>3, <1>4, <1>5, <1>6, <1>7, <1>8 DEF Caller

\* When nothing is under way, no report is due.
LEMMA QuietDue ==
    ASSUME Inv, Quiet, NEW id \in Ids
    PROVE  Due(id) = {}
<1>1. feed = <<>> /\ \A c \in Clients : call[c].pc = "idle"
  BY DEF Quiet
<1>2. id \notin flying
  BY <1>1 DEF Inv, OneOpenCall, OpenCalls
<1>3. raced[id] = <<>>
  BY <1>2 DEF Inv, OneOpenCall
<1>4. DOMAIN feed = {} /\ DOMAIN raced[id] = {} /\ Drainers(id) = {}
  BY <1>1, <1>3 DEF Drainers
<1> QED
  BY <1>4 DEF Due, InFeed, InBuffer, InDrain

\* What an observation leaves in a record.
LEMMA Observation ==
    ASSUME NEW r \in Record, NEW state, NEW filled \in Nat, NEW qty \in Nat, NEW lifecycle \in BOOLEAN
    PROVE  LET o == apply_observation(r, state, filled, qty, lifecycle) IN
           /\ o.state = IF lifecycle THEN apply_transition(r.state, state) ELSE r.state
           /\ o.filled = HigherFill(r, filled)
           /\ o.xid = r.xid /\ o.legs = r.legs
BY DEF apply_observation, Record

\* What an applied report leaves in a record.
LEMMA ReportApplied ==
    ASSUME Inv, NEW id \in Ids, NEW r \in Report, ApplyReport(id, r)
    PROVE  /\ orders'[id].filled = HigherFill(orders[id], r.filled)
           /\ DrivesLifecycle(orders[id], r) => orders'[id].state = apply_transition(orders[id].state, r.state)
<1> DEFINE a == Arbitrated(orders[id], r)
           d == DrivesLifecycle(orders[id], r)
           o == apply_observation(a, r.state, r.filled, 0, d)
<1>1. orders \in [Ids -> Record] /\ orders[id] \in Record
  BY DEF Inv, TypeOK
<1>2. a \in Record /\ a.state = orders[id].state /\ a.filled = orders[id].filled
  BY <1>1, ArbitratedKeeps
<1>3. r.filled \in Nat /\ d \in BOOLEAN
  BY DEF Report, DrivesLifecycle
<1>4. orders'[id] = o
  BY <1>1 DEF ApplyReport, apply_arbitrated_report
<1> HIDE DEF a, d
<1>5. o.state = (IF d THEN apply_transition(a.state, r.state) ELSE a.state) /\ o.filled = HigherFill(a, r.filled)
  BY <1>2, <1>3, Observation
<1> HIDE DEF o
<1>6. o.filled = HigherFill(orders[id], r.filled)
  BY <1>2, <1>5 DEF HigherFill
<1>7. d => o.state = apply_transition(orders[id].state, r.state)
  BY <1>2, <1>5
<1> QED
  BY <1>4, <1>6, <1>7 DEF d

\* The failed appends are remembered.
LEMMA UnloggedGrows ==
    ASSUME Inv, Next, ~CrashRestart
    PROVE  unlogged \subseteq unlogged'
BY RegistryStep DEF RegistryMoves, Moved, Written, Logged, LogFails, log

-----------------------------------------------------------------------------
(* Calls away from the venue *)

\* The steps that do not touch the venue, and those that do.
Elsewhere ==
    \/ \E c \in Clients : Caller(c)
    \/ Reader
    \/ \E t \in Recons : Reconciler(t)
    \/ FeedLoss
    \/ CrashRestart

\* Away from the venue a call is open if it was, or opens without an answer.
LEMMA CallsElsewhere ==
    ASSUME Inv, Elsewhere, NEW c \in Clients, call'[c].pc = "call"
    PROVE  \/ call'[c] = call[c]
           \/ /\ call[c].pc = "idle" /\ call'[c].ack = 0
              /\ \E id \in Ids : /\ call'[c].id = id
                                 /\ \/ \E qty \in Quantities : PlaceStaged(c, id, qty)
                                    \/ Working(orders[id].state) /\ call'[c].op # "place"
<1> USE OmsAssumption DEF OmsAssumption, Ops
<1>0. call \in [Clients -> Call] /\ TypeOK /\ <<>> \in Seq(Report)
  BY DEF Inv, TypeOK
<1>1. ASSUME NEW d \in Clients, NEW op, NEW id \in Ids, NEW qty, OpenCall(d, op, id, qty)
      PROVE  /\ d # c => call'[c] = call[c]
             /\ d = c => call'[c].ack = 0 /\ call'[c].id = id /\ call'[c].op = op
  <2> DEFINE k == [IdleCall EXCEPT !.pc = "call", !.op = op, !.id = id, !.qty = qty]
  <2>1. k.ack = 0 /\ k.id = id /\ k.op = op
    BY DEF IdleCall
  <2>2. call' = [call EXCEPT ![d] = k]
    BY <1>1 DEF OpenCall
  <2> HIDE DEF k
  <2> QED
    BY <1>0, <2>1, <2>2
<1>2. ASSUME NEW d \in Clients, NEW q \in Seq(Report), Settle(d, q)
      PROVE  call'[c] = call[c]
  BY <1>0, <1>2, SettleFacts
<1>3. ASSUME NEW d \in Clients, Caller(d),
             ~\E id \in Ids, qty \in Quantities : PlaceStaged(d, id, qty) \/ AmendSent(d, id, qty),
             ~\E id \in Ids : CancelSent(d, id)
      PROVE  call'[c] = call[c]
  <2>1. CASE \E id \in Ids, qty \in Quantities : PlaceRiskRejected(d, id, qty) \/ PlaceNotPersisted(d, id, qty)
    BY <2>1 DEF PlaceRiskRejected, PlaceNotPersisted
  <2>2. CASE CancelAccepted(d) \/ CancelFailed(d) \/ PlaceRefused(d)
    BY <1>0, <1>2, <2>2 DEF CancelAccepted, CancelFailed, PlaceRefused, Finish
  <2>3. CASE PlaceAccepted(d) \/ PlaceUnresolved(d) \/ AmendAccepted(d) \/ AmendFailed(d)
    <3>1. call[d].pc = "call" /\ (Settle(d, raced[call[d].id]) \/ Settle(d, <<>>))
      BY <2>3 DEF PlaceAccepted, PlaceUnresolved, AmendAccepted, AmendFailed, Returns, Finish
    <3>2. raced[call[d].id] \in Seq(Report)
      BY <3>1, AtKnownOrder DEF Inv, TypeOK
    <3> QED
      BY <1>0, <1>2, <3>1, <3>2
  <2>4. CASE Drain(d)
    <3>1. call[d].raced \in Seq(Report) /\ call[d].raced # <<>> /\ Settle(d, Tail(call[d].raced))
      BY <2>4, AtKnownOrder DEF Drain, Inv, LockOwned
    <3>2. Tail(call[d].raced) \in Seq(Report)
      BY <3>1, SplitSeq
    <3> QED
      BY <1>2, <3>1, <3>2
  <2> QED
    BY <1>3, <2>1, <2>2, <2>3, <2>4 DEF Caller
<1>4. ASSUME NEW d \in Clients, NEW id \in Ids, NEW qty \in Quantities, PlaceStaged(d, id, qty)
      PROVE  call'[c] = call[c] \/ (d = c /\ call[c].pc = "idle" /\ call'[c].ack = 0 /\ call'[c].id = id)
  BY <1>1, <1>4 DEF PlaceStaged, Enters
<1>5. ASSUME NEW d \in Clients, NEW id \in Ids, NEW qty \in Quantities, AmendSent(d, id, qty)
      PROVE  \/ call'[c] = call[c]
             \/ /\ d = c /\ call[c].pc = "idle" /\ call'[c].ack = 0 /\ call'[c].id = id
                /\ call'[c].op # "place" /\ Working(orders[id].state)
  BY <1>1, <1>5 DEF AmendSent, Enters
<1>6. ASSUME NEW d \in Clients, NEW id \in Ids, CancelSent(d, id)
      PROVE  \/ call'[c] = call[c]
             \/ /\ d = c /\ call[c].pc = "idle" /\ call'[c].ack = 0 /\ call'[c].id = id
                /\ call'[c].op # "place" /\ Working(orders[id].state)
  BY <1>1, <1>6 DEF CancelSent, Enters
<1>7. CASE \E d \in Clients : Caller(d)
  BY <1>3, <1>4, <1>5, <1>6, <1>7
<1>8. Reader \/ FeedLoss => call'[c] = call[c]
  BY DEF Reader, ReportBuffered, ReportUnknown, ReportArbitrated, FeedLoss
<1>9. ASSUME NEW t \in Recons, Reconciler(t)
      PROVE  call'[c] = call[c]
  BY <1>9, ReconcilerFrame
<1>10. ~CrashRestart
  BY IdleTyped DEF CrashRestart
<1> QED
  BY <1>7, <1>8, <1>9, <1>10 DEF Elsewhere

\* A request that is newly under way is that of a call that has just ended.
LEMMA LateStep ==
    ASSUME Inv, Next, ~CrashRestart, NEW q \in late'
    PROVE  \/ q \in late
           \/ \E c \in Clients : /\ call[c].pc = "call" /\ call'[c].pc # "call"
                                 /\ q.op = call[c].op /\ q.id = call[c].id
<1>1. ASSUME NEW c \in Clients, PlaceUnresolved(c) \/ CancelFailed(c) \/ AmendFailed(c)
      PROVE  \/ q \in late
             \/ /\ call[c].pc = "call" /\ call'[c].pc # "call"
                /\ q.op = call[c].op /\ q.id = call[c].id
  <2>1. call[c].pc = "call" /\ TransportError(c)
    BY <1>1 DEF PlaceUnresolved, CancelFailed, AmendFailed, Returns
  <2>2. raced[call[c].id] \in Seq(Report) /\ <<>> \in Seq(Report)
    BY <2>1, AtKnownOrder DEF Inv, TypeOK
  <2>3. Settle(c, raced[call[c].id]) \/ Settle(c, <<>>)
    BY <1>1 DEF PlaceUnresolved, CancelFailed, AmendFailed, Finish
  <2>4. ASSUME NEW s \in Seq(Report), Settle(c, s) PROVE call'[c].pc \in {"idle", "drain"}
    BY <2>4, SettleFacts DEF Inv
  <2>5. call'[c].pc # "call"
    BY <2>2, <2>3, <2>4
  <2> QED
    BY <2>1, <2>5 DEF TransportError
<1>2. Reader => late' = late
  BY DEF Reader, ReportBuffered, ReportUnknown, ReportArbitrated
<1> QED
  BY <1>1, <1>2, CallerFrame, ReconcilerFrame, VenueFrame DEF Next

\* Away from the venue no report comes up, and each stays due until it is
\* applied or lost.
LEMMA ElsewhereDue ==
    ASSUME Inv, Elsewhere, NEW id \in Ids
    PROVE  /\ Due(id)' \subseteq Due(id)
           /\ \A r \in Due(id) : r \in Due(id)' \/ Applied(id, r) \/ Lost(id)
<1>1. ASSUME NEW t \in Recons, Reconciler(t)
      PROVE  Due(id)' = Due(id)
  <2>1. UNCHANGED <<feed, raced, call>>
    BY <1>1, ReconcilerFrame
  <2> QED
    BY <2>1 DEF Due, InFeed, InBuffer, InDrain, Drainers, DrainedBy
<1>2. ASSUME FeedLoss \/ CrashRestart
      PROVE  Due(id)' \subseteq Due(id)
  <2>1. InFeed(id)' = {}
    <3>1. feed' = <<>>
      BY <1>2 DEF FeedLoss, CrashRestart
    <3>2. DOMAIN feed' = {}
      BY <3>1
    <3> QED
      BY <3>2 DEF InFeed
  <2>2. CASE FeedLoss
    <3>1. UNCHANGED <<raced, call>>
      BY <2>2 DEF FeedLoss, registry
    <3> QED
      BY <2>1, <3>1 DEF Due, InBuffer, InDrain, Drainers, DrainedBy
  <2>3. CASE CrashRestart
    <3>1. raced'[id] = <<>> /\ \A c \in Clients : call'[c] = IdleCall
      BY <2>3 DEF CrashRestart
    <3>2. DOMAIN raced'[id] = {} /\ Drainers(id)' = {}
      BY <3>1, IdleTyped DEF Drainers
    <3> QED
      BY <2>1, <3>2 DEF Due, InBuffer, InDrain
  <2> QED
    BY <1>2, <2>2, <2>3
<1> QED
  BY <1>1, <1>2, CallerDue, ReaderDue DEF Elsewhere, Lost

=============================================================================
