---------------------------- MODULE OrderRecord ----------------------------
(***************************************************************************)
(* One registry entry of the order management system and the pure          *)
(* functions that change it: the leg table, the application of an          *)
(* observation, the arbitration of an execution report by the leg table,   *)
(* and the persisted events with their replay.                             *)
(*                                                                         *)
(* Price and quantity are overwritten together by the same operations, so  *)
(* one number, qty, stands for both.  Exchange order ids are numbered per  *)
(* client order id in the order the venue mints them; 0 is the empty id.   *)
(* The average fill price follows filled and is left out; so is the        *)
(* adopted flag, which nothing decides on.                                 *)
(***************************************************************************)
EXTENDS OrderState, Naturals, Sequences, FiniteSetsExt

\* The recorded rejection: none, or the family of its error code.
Rejections == {"none", "risk", "venue", "venue_absent"}

Leg == [version : Nat, id : Nat]

\* state "none" is an id the registry does not hold.
Record == [state : States \cup {"none"}, filled : Nat, qty : Nat, xid : Nat,
           legs : Seq(Leg), rejection : Rejections]

NoRecord == [state |-> "none", filled |-> 0, qty |-> 0, xid |-> 0,
             legs |-> <<>>, rejection |-> "none"]

known(r) == r.state # "none"

NewRecord(qty) == [NoRecord EXCEPT !.state = "Pending", !.qty = qty]

-----------------------------------------------------------------------------
(* The leg table *)

push_leg(r, id) ==
    [r EXCEPT !.legs = Append(@, [version |-> Len(@) + 1, id |-> id])]

\* Backfill or adoption: an id equal to the current one changes nothing.
note_exchange_id(r, id) ==
    IF id = 0 \/ id = r.xid THEN r ELSE push_leg([r EXCEPT !.xid = id], id)

\* The amend ack advances the version even when the venue echoes the id.
append_amend_leg(r, id) ==
    IF id = 0 THEN r ELSE [push_leg(r, id) EXCEPT !.xid = id]

\* The newest leg that carries id, or 0.
leg_index_of(r, id) ==
    Max({0} \cup {i \in DOMAIN r.legs : r.legs[i].id = id})

\* The version that the persisted events carry.
CurrentVersion(r) == IF r.legs = <<>> THEN 1 ELSE r.legs[Len(r.legs)].version

-----------------------------------------------------------------------------
(* Observations *)

Report == [state : VenueStates, filled : Nat, xid : Nat]

Snapshot == [state : VenueStates, filled : Nat, qty : Nat, xid : Nat]

\* Faulty variant: the increment since the last report.
FillDelta(r, filled) == filled - r.filled

HigherFill(r, filled) == IF filled > r.filled THEN filled ELSE r.filled

\* Faulty variant: a stale state discards the fills that come with it.
observation_all_or_nothing(r, state, filled, qty, lifecycle) ==
    IF lifecycle /\ can_transition(r.state, state)
    THEN [r EXCEPT !.filled = HigherFill(r, filled), !.state = state,
                   !.qty = IF qty # 0 THEN qty ELSE @]
    ELSE r

\* qty = 0 is the empty price/quantity of an execution report.  The code's
\* "changed" is: the result differs from r.
apply_observation(r, state, filled, qty, lifecycle) ==
    [r EXCEPT !.filled = HigherFill(r, filled),
              !.state  = IF lifecycle THEN apply_transition(@, state) ELSE @,
              !.qty    = IF lifecycle /\ qty # 0 THEN qty ELSE @]

\* The record an execution report applies to: an id unknown to a non-empty
\* leg table is adopted as the newest leg, an empty id is backfilled.
Arbitrated(r, report) ==
    IF \/ r.xid = 0
       \/ r.legs # <<>> /\ leg_index_of(r, report.xid) = 0
    THEN note_exchange_id(r, report.xid)
    ELSE r

\* Faulty variant: every report drives the lifecycle.
EveryLegDrives(r, report) == TRUE

\* A report of a superseded leg contributes fills only.
DrivesLifecycle(r, report) ==
    \/ report.xid = 0
    \/ r.legs = <<>>
    \/ leg_index_of(r, report.xid) \in {0, Len(r.legs)}

apply_arbitrated_report(r, report) ==
    apply_observation(Arbitrated(r, report), report.state, report.filled, 0,
                      DrivesLifecycle(r, report))

\* The record adopted from a listing entry the registry does not know.
record_from_snapshot(s) ==
    [NoRecord EXCEPT !.state = s.state, !.filled = s.filled, !.qty = s.qty,
                     !.xid = s.xid,
                     !.legs = IF s.xid = 0 THEN <<>>
                              ELSE <<[version |-> 1, id |-> s.xid]>>]

-----------------------------------------------------------------------------
(* Persistence: an event is its type and the record it was built from, of  *)
(* which replay reads only the fields that the event carries.              *)

\* place_submitted, place_accepted and adopted overwrite the entry.
ReplayPlaced(type, r) ==
    LET fresh == NewRecord(r.qty)
        legged == IF r.xid = 0 THEN fresh
                  ELSE [fresh EXCEPT !.xid = r.xid,
                            !.legs = <<[version |-> CurrentVersion(r), id |-> r.xid]>>]
    IN  CASE type = "place_submitted" -> fresh
          [] type = "place_accepted"  -> [legged EXCEPT !.state = "Live"]
          [] type = "adopted" -> [legged EXCEPT !.state = r.state, !.filled = r.filled]

\* Faulty variant: the reason of a rejection is not restored.
ReplayRejectedBare(d, r) == [d EXCEPT !.state = "Rejected"]

\* An unknown id gets a default-constructed entry.
ReplayRejected(d, r) ==
    [d EXCEPT !.state = "Rejected", !.rejection = r.rejection]

ReplayAmended(d, r) ==
    LET v == CurrentVersion(r)
        legs == IF v <= Len(d.legs)
                THEN IF r.xid = 0 THEN d.legs ELSE [d.legs EXCEPT ![v].id = r.xid]
                ELSE Append(d.legs, [version |-> v, id |-> r.xid])
    IN  [d EXCEPT !.qty = r.qty, !.legs = legs,
                  !.xid = IF r.xid = 0 THEN @ ELSE r.xid]

\* The id is backfilled only when the entry has none.
ReplayState(d, r) ==
    LET seen == apply_observation(d, r.state, r.filled, 0, TRUE)
    IN  IF d.xid = 0 THEN note_exchange_id(seen, r.xid) ELSE seen

\* apply_log_event: what replaying one more event makes of an entry.
replay(d, type, r) ==
    CASE type \in {"place_submitted", "place_accepted", "adopted"} -> ReplayPlaced(type, r)
      [] type = "rejected" -> ReplayRejected(d, r)
      [] type = "amended"  -> IF known(d) THEN ReplayAmended(d, r) ELSE d
      [] type = "state"    -> IF known(d) THEN ReplayState(d, r) ELSE d

=============================================================================
