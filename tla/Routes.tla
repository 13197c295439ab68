------------------------------- MODULE Routes -------------------------------
(***************************************************************************)
(* What a REST client is told.  The handlers of POST and DELETE /orders    *)
(* keep no state: they validate a request (an invalid one is answered 400  *)
(* and goes no further), call the registry and turn what it returns into a *)
(* status.  The module adds the answers to Oms: each step that ends a      *)
(* place or a cancel says what the client is told, and a client may retry  *)
(* a request whenever it likes.                                            *)
(*                                                                         *)
(* An answer is decided in the step that produces it and may still get     *)
(* lost on its way; to count it as given makes the properties stronger.    *)
(***************************************************************************)
EXTENDS Oms

VARIABLES
    told,      \* history: the last definitive answer to POST /orders, per id
    canceled,  \* history: ids for which DELETE was answered 200
    frail      \* history: ids with a failed append, or with a request that the
               \* venue executed after its call had ended; their answers are
               \* not followed any further

routeVars == <<told, canceled, frail>>

-----------------------------------------------------------------------------
(* Status codes *)

\* Families of error codes.  "venue" stands for every definitive refusal of a
\* place: a code of the venue, some of them answered 404, or "protocol", which
\* takes the last line like "persistence", "io", "internal" and "order_busy".
\* Each is recorded as it is and replayed as it is.
map_error(code) ==
    CASE code = "risk" -> 400
      [] code = "not_found" -> 404
      [] code \in {"order_pending", "order_terminal", "venue", "venue_absent"} -> 409
      [] code = "transport" -> 502
      [] OTHER -> 500

\* The answer to a POST for which place returns an error, or a record.
Failed(code) == [status |-> map_error(code), reason |-> code]

Placed(r) == [status |-> IF r.state = "Pending" THEN 202 ELSE 201, reason |-> "none"]

\* place of a known id: the recorded rejection or the record as it is.
Replayed(r) == IF r.rejection # "none" THEN Failed(r.rejection) ELSE Placed(r)

NoAnswer == [status |-> 0, reason |-> "none"]

\* An answer that settles the fate of the place: 201, or a recorded rejection.
Definitive(answer) ==
    answer.status = 201 \/ answer.reason \in Rejections \ {"none"}

-----------------------------------------------------------------------------

RoutesInit ==
    /\ Init
    /\ told = [id \in Ids |-> NoAnswer]
    /\ canceled = {}
    /\ frail = {}

\* The step's answer, if it is about an order that is still followed.
Follow(answers) ==
    /\ frail' = frail \cup unlogged'
    /\ told' = [id \in Ids |-> IF id \in frail' THEN NoAnswer
                               ELSE IF id \in DOMAIN answers THEN answers[id] ELSE told[id]]

Tell(id, answer) ==
    /\ Follow(IF Definitive(answer) THEN [i \in {id} |-> answer] ELSE <<>>)
    /\ UNCHANGED canceled

TellCanceled(id) ==
    /\ canceled' = canceled \cup {id}
    /\ Follow(<<>>)

\* The append of the step, if it has one, did not fail.
Appended == failsLeft' = failsLeft

\* POST of a new id, from the first to the second critical section of place.
PostAnswered(c) ==
    \/ \E id \in Ids, qty \in Quantities :
          \/ PlaceRiskRejected(c, id, qty)
               /\ Tell(id, Failed(IF Appended THEN "risk" ELSE "io"))
          \/ PlaceNotPersisted(c, id, qty) /\ Tell(id, Failed("persistence"))
    \/ /\ PlaceAccepted(c)
       /\ Tell(call[c].id, IF Appended THEN Placed(orders'[call[c].id])
                                       ELSE Failed("persistence"))
    \/ PlaceRefused(c) /\ Tell(call[c].id, Failed("venue"))
    \/ PlaceUnresolved(c) /\ Tell(call[c].id, Failed("transport"))

\* POST of a known id.
PostRetried(c, id) ==
    /\ Enters(c) /\ known(orders[id])
    /\ UNCHANGED vars
    /\ Tell(id, Replayed(orders[id]))

DeleteAnswered(c) == CancelAccepted(c) /\ TellCanceled(call[c].id)

\* Faulty variant: an order that is not acknowledged yet counts as canceled.
DeleteRetriedPending(c, id) ==
    /\ Enters(c) /\ orders[id].state \in {"Pending", "Canceled"}
    /\ UNCHANGED vars
    /\ TellCanceled(id)

\* DELETE of a canceled order: 200 again, without a venue call.
DeleteRetried(c, id) ==
    /\ Enters(c) /\ orders[id].state = "Canceled"
    /\ UNCHANGED vars
    /\ TellCanceled(id)

\* Everything else a caller's thread does: calls that are opened, reports that
\* are drained, amends, and cancels that fail.
Unanswered(c) ==
    \/ \E id \in Ids, qty \in Quantities : PlaceStaged(c, id, qty) \/ AmendSent(c, id, qty)
    \/ \E id \in Ids : CancelSent(c, id)
    \/ CancelFailed(c)
    \/ AmendAccepted(c)
    \/ AmendFailed(c)
    \/ Drain(c)

\* Steps in which no client is told anything.
Aside ==
    /\ \/ \E c \in Clients : Unanswered(c)
       \/ Reader
       \/ \E t \in Recons : Reconciler(t)
       \/ \E c \in Clients : VenueAnswers(c)
       \/ \E id \in Ids : VenueFill(id) \/ VenueCancel(id)
       \/ FeedLoss
       \/ CrashRestart
    /\ Follow(<<>>)
    /\ UNCHANGED canceled

ArrivesLate(q) ==
    /\ LateArrival(q)
    /\ frail' = frail \cup {q.id}
    /\ told' = [told EXCEPT ![q.id] = NoAnswer]
    /\ UNCHANGED canceled

RoutesNext ==
    \/ \E c \in Clients :
          \/ PostAnswered(c)
          \/ DeleteAnswered(c)
          \/ \E id \in Ids : PostRetried(c, id) \/ DeleteRetried(c, id)
    \/ \E q \in late : ArrivesLate(q)
    \/ Aside

RoutesSpec == RoutesInit /\ [][RoutesNext]_<<vars, routeVars>>

-----------------------------------------------------------------------------
(* Properties *)

\* "A known clientOrderId replays its recorded outcome verbatim": once a POST
\* is answered with 201 or with a rejection, every retry gets the same answer,
\* whatever reconciles, feeds, cancels and restarts do in between, a crash
\* between the two appends of one rejection included.  (Not so for an order
\* whose appends failed or whose request was executed after its call had
\* ended: a reconcile may have concluded its absence by then.)
AnswersStable ==
    [][\A id \in Ids : told[id] # NoAnswer =>
          told'[id] = told[id] \/ id \in frail']_<<vars, routeVars>>

\* When DELETE has been answered 200 the venue executes nothing more for the
\* order: neither the first answer nor a retry is given for an order that is
\* pending, or that an amend or a stale observation brings back.
CanceledIsFinal ==
    [][\A id \in canceled : venue'[id].filled = venue[id].filled
                            /\ venue'[id].prior = venue[id].prior]_<<vars, routeVars>>

=============================================================================
