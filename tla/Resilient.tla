----------------------------- MODULE Resilient -----------------------------
(***************************************************************************)
(* Resolve-then-retry, the layer between the order management system and   *)
(* the wire: binance_resilient.hpp, okx_resilient.hpp and the retry driver *)
(* of core/retry.hpp.  A venue call whose request ends in a transport      *)
(* failure has an unknown outcome; the adapter resolves it with a point    *)
(* query (itself retried) and sends the request again, reports a success   *)
(* it has inferred, or gives up.                                           *)
(*                                                                         *)
(* The calls are those the registry makes for one client order id: one     *)
(* place, then amends, one at a time, and cancels at any moment.  Time is  *)
(* abstract: that the retry budget is spent is a nondeterministic choice   *)
(* at every failure.                                                       *)
(***************************************************************************)
EXTENDS Naturals, Sequences, VenueWire

CONSTANTS
    Calls,        \* the calls made for the id
    Venues,       \* the venues the order may be routed to
    MaxAttempts,  \* RetryPolicy::max_attempts
    Values        \* price and quantity of an order, as one value

ASSUME VenuesAssumption == Venues \subseteq {"binance", "okx"}
\* retry_policy_from_json refuses a policy without attempts.
ASSUME AttemptsAssumption == MaxAttempts \in Nat \ {0}
ASSUME ValuesAssumption == Values # {}

VARIABLES
    kind,      \* the venue the order is routed to; it never changes
    call,      \* the state of every call
    orders,    \* the orders the venue has accepted under the id, oldest first
    late       \* requests under way whose call no longer waits for them

vars == <<kind, call, orders, late>>

Ops == {"place", "cancel", "amend"}
Statuses == {"Live", "Canceled", "Done"}
Order == [status : Statuses, value : Values, op : {"place", "amend"}]

\* What an API call reports.
Codes == VenueCodes \cup {"ok", "transport", "protocol", "error", "none"}

\* The outcome of an API call; order is the position in orders that an ack
\* names.
Outcome == [code : Codes, order : Nat]
NoOutcome == [code |-> "none", order |-> 0]
Failure(code) == [code |-> code, order |-> 0]
Ack(i) == [code |-> "ok", order |-> i]

\* BinanceLookup, LookupResult.
Lookup == [outcome : {"Found", "Absent", "Inconclusive"},
           order : Nat, status : Statuses, value : Values]
Blank(outcome) == [outcome |-> outcome, order |-> 0, status |-> "Done",
                   value |-> CHOOSE v \in Values : TRUE]

\* pc: the call is about to send, waits for the answer, looks the order up,
\* or decides on what the lookup said.  tries and looks are the attempts of
\* the two nested retry drivers; resigned says that the request has been signed
\* again, verbatim whether the client spells the amended value as the venue
\* does.
Call == [op : Ops, pc : {"idle", "send", "wait", "lookup", "decide", "done"},
         value : Values, verbatim : BOOLEAN, resigned : BOOLEAN, tries : Nat, looks : Nat,
         answer : Outcome, found : Lookup, result : Outcome]

IdleCall == [op |-> "place", pc |-> "idle", value |-> CHOOSE v \in Values : TRUE,
             verbatim |-> TRUE, resigned |-> FALSE, tries |-> 0, looks |-> 0, answer |-> NoOutcome,
             found |-> Blank("Inconclusive"), result |-> NoOutcome]

\* A request that outlived its call, numbered by the attempt that sent it.
Request == [call : Calls, try : Nat, op : Ops, value : Values]
RequestOf(c) == [call |-> c, try |-> call[c].tries, op |-> call[c].op, value |-> call[c].value]

\* Types of every variable.
TypeOK ==
    /\ kind \in Venues
    /\ call \in [Calls -> Call]
    /\ orders \in Seq(Order)
    /\ late \subseteq Request

Init ==
    /\ kind \in Venues
    /\ call = [c \in Calls |-> IdleCall]
    /\ orders = <<>>
    /\ late = {}

-----------------------------------------------------------------------------
(* The venue (external) *)

Newest == Len(orders)
Live == Newest > 0 /\ orders[Newest].status = "Live"
NewOrder(op, v) == [status |-> "Live", value |-> v, op |-> op]

\* An id is taken as long as the newest order under it is live, and free again
\* afterwards.  The codes of a duplicate also stand for other refusals.
Duplicate == IF kind = "binance" THEN {"venue:-4116", "venue:-2010"}
                                 ELSE {"venue:51000", "venue:51016"}
Refusal == IF kind = "binance" THEN {"venue:-2010", "venue:other"}
                               ELSE {"venue:51000", "venue:other"}
AlreadyDone == IF kind = "binance" THEN "venue:-2011" ELSE "venue:51017"

\* The venue executes a request; answer is what it replies.
ExecutePlace(v, answer) ==
    \/ ~Live /\ orders' = Append(orders, NewOrder("place", v)) /\ answer = Ack(Newest + 1)
    \/ ~Live /\ UNCHANGED orders /\ answer \in {Failure(e) : e \in Refusal}
    \/ Live  /\ UNCHANGED orders /\ answer \in {Failure(e) : e \in Duplicate}

ExecuteCancel(answer) ==
    \/ Live  /\ orders' = [orders EXCEPT ![Newest].status = "Canceled"] /\ answer = Ack(Newest)
    \/ ~Live /\ UNCHANGED orders /\ answer = Failure(AlreadyDone)

\* OKX amends in place; Binance cancels the order and places another under the
\* same id, and may refuse the second half alone.
ExecuteAmend(v, answer) ==
    \/ /\ Live /\ kind = "okx"
       /\ orders' = [orders EXCEPT ![Newest].value = v]
       /\ answer = Ack(Newest)
    \/ /\ Live /\ kind = "binance"
       /\ LET rest == [orders EXCEPT ![Newest].status = "Canceled"] IN
          \/ orders' = Append(rest, NewOrder("amend", v)) /\ answer = Ack(Newest + 1)
          \/ orders' = rest /\ answer = Failure("venue:other")
    \/ Live  /\ UNCHANGED orders /\ answer = Failure("venue:other")
    \/ ~Live /\ UNCHANGED orders /\ answer = Failure(AlreadyDone)

Execute(op, v, answer) ==
    \/ op = "place"  /\ ExecutePlace(v, answer)
    \/ op = "cancel" /\ ExecuteCancel(answer)
    \/ op = "amend"  /\ ExecuteAmend(v, answer)

Answers == {NoOutcome} \cup {Failure(e) : e \in VenueCodes}
             \cup {Ack(i) : i \in {Newest, Newest + 1}}

\* The request a call waits for reaches the venue.
VenueExecutes(c) ==
    /\ call[c].pc = "wait" /\ call[c].answer = NoOutcome
    /\ \E a \in Answers : /\ Execute(call[c].op, call[c].value, a)
                          /\ call' = [call EXCEPT ![c].answer = a]
    /\ UNCHANGED <<kind, late>>

\* A request reaches the venue after its call has stopped waiting for it.
LateArrival(q) ==
    /\ \E a \in Answers : Execute(q.op, q.value, a)
    /\ late' = late \ {q}
    /\ UNCHANGED <<kind, call>>

\* The order fills or expires, or is canceled from another session.
VenueEnds(status) ==
    /\ Live
    /\ orders' = [orders EXCEPT ![Newest].status = status]
    /\ UNCHANGED <<kind, call, late>>

-----------------------------------------------------------------------------
(* What the adapters make of an error and of the lookup that follows it *)

\* The outcome of one attempt, and whether the retry driver may start another.
Final(r) == [result |-> r, resend |-> FALSE]
Resend == [result |-> Failure("transport"), resend |-> TRUE]
\* Faulty variant: the error is returned without a code.
UnresolvedUncoded == Final(Failure(""))
Unresolved == Final(Failure("transport"))
Found(f) == f.outcome = "Found"
Absent(f) == f.outcome = "Absent"

\* A code that only its message shows to be a duplicate is one of these here.
is_duplicate_reject(e) == e \in {"venue:-4116", "venue:-2010"}

\* Faulty variant: an inconclusive lookup counts as absence.
PlaceVerdictHasty(e, duplicate, f) ==
    CASE Found(f)                -> Final(Ack(f.order))
      [] ~Found(f) /\ duplicate  -> Final(Failure(e))
      [] OTHER                   -> Resend

PlaceVerdict(e, duplicate, f) ==
    CASE Found(f)                -> Final(Ack(f.order))
      [] ~Found(f) /\ duplicate  -> Final(Failure(e))
      [] Absent(f) /\ ~duplicate -> Resend
      [] OTHER                   -> Unresolved

binance_resilient_place(e, f) == PlaceVerdict(e, is_duplicate_reject(e), f)
resilient_place(e, f) == PlaceVerdict(e, e = "venue:51000", f)

binance_resilient_cancel(e, f) ==
    CASE Found(f) /\ f.status = "Canceled"                    -> Final(Ack(f.order))
      [] e = "venue:-2011" /\ ~(Found(f) /\ f.status = "Canceled") -> Final(Failure(e))
      [] e = "transport" /\ Found(f) /\ f.status = "Live"     -> Resend
      [] e = "transport" /\ Found(f) /\ f.status = "Done"     -> Final(Failure("venue:-2011"))
      [] e = "transport" /\ Absent(f)                         -> Final(Failure("venue:-2013"))
      [] OTHER                                                -> Unresolved

\* Faulty variant: any order that is found counts as canceled.
resilient_cancel_any_state(e, f) ==
    CASE Found(f)                                             -> Final(Ack(f.order))
      [] e = "venue:51017" /\ ~Found(f)                       -> Final(Failure(e))
      [] e = "transport" /\ Absent(f)                         -> Final(Failure("venue:51603"))
      [] OTHER                                                -> Unresolved

resilient_cancel(e, f) ==
    CASE Found(f) /\ f.status = "Canceled"                    -> Final(Ack(f.order))
      [] e = "venue:51017" /\ ~(Found(f) /\ f.status = "Canceled") -> Final(Failure(e))
      [] e = "transport" /\ Found(f) /\ f.status # "Canceled" -> Resend
      [] e = "transport" /\ Absent(f)                         -> Final(Failure("venue:51603"))
      [] OTHER                                                -> Unresolved

\* Binance's values are compared as numbers, OKX's as the strings they are.
\* Faulty variant: a live order counts as amended.
value_matches_any(v, f) == f.status = "Live"
value_matches(v, f) == f.value = v
matches_request(v, verbatim, f) == verbatim /\ f.value = v

binance_resilient_amend(v, f) ==
    CASE Found(f) /\ value_matches(v, f)                         -> Final(Ack(f.order))
      [] Found(f) /\ ~value_matches(v, f) /\ f.status = "Live"   -> Resend
      [] Found(f) /\ ~value_matches(v, f) /\ f.status # "Live"   -> Final(Failure("venue:-2011"))
      [] Absent(f)                                               -> Final(Failure("venue:-2013"))
      [] OTHER                                                   -> Unresolved

resilient_amend(v, verbatim, f) ==
    CASE Found(f) /\ matches_request(v, verbatim, f)  -> Final(Ack(f.order))
      [] Found(f) /\ ~matches_request(v, verbatim, f) -> Resend
      [] Absent(f)                                    -> Final(Failure("venue:51603"))
      [] OTHER                                        -> Unresolved

Verdict(k) ==
    LET e == k.answer.code IN
    CASE kind = "binance" /\ k.op = "place"  -> binance_resilient_place(e, k.found)
      [] kind = "binance" /\ k.op = "cancel" -> binance_resilient_cancel(e, k.found)
      [] kind = "binance" /\ k.op = "amend"  -> binance_resilient_amend(k.value, k.found)
      [] kind = "okx" /\ k.op = "place"      -> resilient_place(e, k.found)
      [] kind = "okx" /\ k.op = "cancel"     -> resilient_cancel(e, k.found)
      [] kind = "okx" /\ k.op = "amend"      -> resilient_amend(k.value, k.verbatim, k.found)

\* The errors an adapter does not pass on as they are.
NeedsLookup(op, e) ==
    \/ e = "transport"
    \/ op = "place" /\ kind = "binance" /\ is_duplicate_reject(e)
    \/ op = "place" /\ kind = "okx" /\ e = "venue:51000"
    \/ op = "cancel" /\ e = AlreadyDone

-----------------------------------------------------------------------------
(* The calls *)

\* The registry places an id once, and cancels or amends it once the place has
\* ended and the venue is known to have the order; one amend runs at a time.
MayBegin(c, op) ==
    IF op = "place" THEN \A d \in Calls : call[d].pc = "idle"
    ELSE /\ orders # <<>>
         /\ \E d \in Calls : call[d].op = "place" /\ call[d].pc = "done"
                               /\ call[d].result.code \in {"ok", "transport"}
         /\ op = "amend" => \A d \in Calls : call[d].op = "amend" => call[d].pc = "done"

\* One call is like another: whichever is idle is taken.
Begin(c, op, v, verbatim) ==
    /\ call[c].pc = "idle" /\ c = CHOOSE d \in Calls : call[d].pc = "idle"
    /\ MayBegin(c, op)
    /\ kind = "binance" \/ op # "amend" => verbatim
    /\ op = "cancel" => v = IdleCall.value
    /\ call' = [call EXCEPT ![c].op = op, ![c].pc = "send", ![c].value = v,
                            ![c].verbatim = verbatim]
    /\ UNCHANGED <<kind, orders, late>>

\* Faulty variant: attempts are not counted.
SendUncounted(c) ==
    /\ call[c].pc = "send"
    /\ call' = [call EXCEPT ![c].pc = "wait", ![c].answer = NoOutcome, ![c].resigned = FALSE]
    /\ UNCHANGED <<kind, orders, late>>

Send(c) ==
    /\ call[c].pc = "send"
    /\ call' = [call EXCEPT ![c].pc = "wait", ![c].tries = @ + 1, ![c].answer = NoOutcome,
                            ![c].resigned = FALSE]
    /\ UNCHANGED <<kind, orders, late>>

\* The locals of the call are gone.  Its result is kept by the registry, except
\* for which error a cancel or an amend has ended with: that goes to the client
\* and changes nothing.
Kept(op, r) == IF op = "place" \/ r.code = "ok" THEN r ELSE Failure("error")
Return(c, r) ==
    [call EXCEPT ![c] = [IdleCall EXCEPT !.op = call[c].op, !.pc = "done",
                                         !.result = Kept(call[c].op, r)]]
Resolve(c, a) == [call EXCEPT ![c].pc = "lookup", ![c].looks = 1, ![c].answer = a]

\* What may reach the call: the reply to its request, or what the network makes
\* of it.
Arriving(c) == Arrivals[kind][call[c].answer.code][call[c].resigned]

\* A reply without an error; the item in it may still be refused.
Acknowledged(c) ==
    /\ call[c].pc = "wait"
    /\ \E r \in Arriving(c) :
         /\ r.code = "ok"
         /\ call' = Return(c, IF r.item = "ok" THEN call[c].answer ELSE Failure(r.item))
    /\ UNCHANGED <<kind, orders, late>>

\* An error that is passed on as it is.
Refused(c) ==
    /\ call[c].pc = "wait"
    /\ \E r \in Arriving(c) :
         /\ r.code # "ok" /\ ~NeedsLookup(call[c].op, r.code)
         /\ call' = Return(c, Failure(r.code))
    /\ UNCHANGED <<kind, orders, late>>

\* An error that must be resolved: the request or the answer to it is lost, the
\* venue is in trouble, or it answers with a code that may mean a duplicate.
Unclear(c) ==
    /\ call[c].pc = "wait"
    /\ \E r \in Arriving(c) :
         /\ NeedsLookup(call[c].op, r.code)
         /\ call' = Resolve(c, Failure(r.code))
    /\ UNCHANGED <<kind, orders, late>>

\* call_signed: the clock is synchronized and the request signed and sent again.
Resigns(c) ==
    /\ call[c].pc = "wait" /\ ~call[c].resigned
    /\ \E r \in Arriving(c) : r.code = "venue:-1021"
    /\ call' = [call EXCEPT ![c].resigned = TRUE]
    /\ UNCHANGED <<kind, orders, late>>

\* The call stops to wait for a request that is still under way.
TimesOut(c) ==
    /\ call[c].pc = "wait" /\ call[c].answer = NoOutcome
    /\ call' = Resolve(c, Failure("transport"))
    /\ late' = late \cup {RequestOf(c)}
    /\ UNCHANGED <<kind, orders>>

\* binance_lookup, lookup_order: the point query is answered ...
LookupAnswered(c) ==
    /\ call[c].pc = "lookup"
    /\ \E o \in {"Found", "Absent"} \cap Findings[kind][orders # <<>>] :
         call' = [call EXCEPT ![c].pc = "decide", ![c].looks = 0,
                    ![c].found = IF o = "Absent" THEN Blank("Absent")
                                 ELSE [outcome |-> "Found", order |-> Newest,
                                       status |-> orders[Newest].status,
                                       value |-> orders[Newest].value]]
    /\ UNCHANGED <<kind, orders, late>>

\* ... or fails, and is tried again as long as attempts and budget last ...
LookupRetried(c) ==
    /\ call[c].pc = "lookup" /\ call[c].looks < MaxAttempts
    /\ "transport" \in Findings[kind][orders # <<>>]
    /\ call' = [call EXCEPT ![c].looks = @ + 1]
    /\ UNCHANGED <<kind, orders, late>>

\* ... or they are spent, or the answer says nothing.
LookupInconclusive(c) ==
    /\ call[c].pc = "lookup"
    /\ {"transport", "Inconclusive"} \cap Findings[kind][orders # <<>>] # {}
    /\ call' = [call EXCEPT ![c].pc = "decide", ![c].looks = 0,
                            ![c].found = Blank("Inconclusive")]
    /\ UNCHANGED <<kind, orders, late>>

\* with_retries: another attempt, if the last one failed in a way that allows
\* it and attempts are left ...
Retry(c) ==
    /\ call[c].pc = "decide"
    /\ Verdict(call[c]).resend /\ call[c].tries < MaxAttempts
    /\ call' = [call EXCEPT ![c].pc = "send", ![c].found = Blank("Inconclusive")]
    /\ UNCHANGED <<kind, orders, late>>

\* ... and otherwise, or when the budget is spent, the outcome of the last one.
Decide(c) ==
    /\ call[c].pc = "decide"
    /\ call' = Return(c, Verdict(call[c]).result)
    /\ UNCHANGED <<kind, orders, late>>

CallStep(c) ==
    \/ Send(c) \/ Acknowledged(c) \/ Refused(c) \/ Unclear(c) \/ Resigns(c)
    \/ LookupAnswered(c) \/ LookupRetried(c) \/ LookupInconclusive(c)
    \/ Retry(c) \/ Decide(c)

Next ==
    \/ \E c \in Calls, op \in Ops, v \in Values, b \in BOOLEAN : Begin(c, op, v, b)
    \/ \E c \in Calls : CallStep(c)
    \/ \E c \in Calls : VenueExecutes(c)
    \/ \E status \in {"Canceled", "Done"} : VenueEnds(status)

Spec == Init /\ [][Next]_vars

\* With requests that outlive their call.
LateNext ==
    \/ Next
    \/ \E c \in Calls : TimesOut(c)
    \/ \E q \in late : LateArrival(q)

LateSpec == Init /\ [][LateNext]_vars

\* Every API call has a timeout and every backoff is bounded, so a call takes
\* its next step; nothing is assumed of the venue.
FairSpec == Spec /\ \A c \in Calls : WF_vars(CallStep(c))

-----------------------------------------------------------------------------
(* Properties *)

Ended(c, op, codes) ==
    call[c].pc = "done" /\ call[c].op = op /\ call[c].result.code \in codes
PlacedIn(o) == {i \in DOMAIN o : o[i].op = "place"}
Placed == PlacedIn(orders)

\* The id is placed on the venue once, however often the request is sent: the
\* adapters send it again only after a lookup that shows that the venue does
\* not have it (binance_resilient.hpp:197, okx_resilient.hpp:114).
PlacedOnce == \A i, j \in Placed : i = j

\* When a place returns with a refusal there is no order on the venue: the
\* registry turns the record terminal on that word (oms.cpp:349).
RefusedIsAbsent ==
    [][\A c \in Calls : Ended(c, "place", VenueCodes)' /\ call[c].pc # "done"
         => Placed = {}]_vars

\* A place that the venue has answered with the code of a duplicate is refused
\* only if the lookup has shown that there is no such order, never while the
\* order is there and the lookup has shown nothing (binance_resilient.hpp:193).
DuplicateResolved ==
    [][\A c \in Calls : Ended(c, "place", VenueCodes)' /\ call[c].pc = "decide"
         => Absent(call[c].found) \/ Placed = {}]_vars

\* A cancel that is reported as successful leaves nothing live under the id,
\* although amends that replace the order run at the same time.
CanceledIsDead == \A c \in Calls : Ended(c, "cancel", {"ok"}) => ~Live

\* An amend that is reported as successful, inferred from a lookup or not, is
\* in effect: when the call returns, the order it names has the value asked
\* for.
AmendInEffect ==
    [][\A c \in Calls : Ended(c, "amend", {"ok"})' /\ call[c].pc # "done"
         => orders[call'[c].result.order].value = call[c].value]_vars

\* Every call returns, whatever fails: in the end no call is under way.
CallsReturn == <>[](\A c \in Calls : call[c].pc \in {"idle", "done"})

=============================================================================
