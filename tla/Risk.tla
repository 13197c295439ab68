-------------------------------- MODULE Risk --------------------------------
(***************************************************************************)
(* Pre-trade risk in the arithmetic of the code: the registry's records    *)
(* with their decimal texts, the projection that place and amend build     *)
(* from them record by record in the order of a hash table, and the three  *)
(* limits.  A check runs under mutex_, so nothing changes during it.       *)
(* Texts are well-formed decimals, as the routes require, but some are     *)
(* beyond the machine integer and do not parse; one with too many          *)
(* fractional digits is refused in the same branches and is left out.      *)
(***************************************************************************)
EXTENDS Decimal

CONSTANTS
    Ids, Symbols,
    Quantities,  \* the texts of quantities that clients ask for and venues fill
    Prices,      \* the texts of prices, Empty for a market order
    Defaults,    \* risk.default: limits, or Unlimited
    Instruments  \* risk.instruments: limits per symbol that has an entry

Empty == [neg |-> FALSE, digits |-> 0, frac |-> -1]

ZeroText == decimal_to_string(Zero)

LimitText == Text \cup {Empty}

Limits == [max_qty : LimitText, max_notional : LimitText, max_position : LimitText]

\* An instrument without limits, for which nothing is checked.
Unlimited == [limited |-> FALSE]

ASSUME RiskAssumption ==
    /\ \A t \in Quantities \cup (Prices \ {Empty}) :
          t \in Text /\ ~t.neg /\ t.frac <= kMaxDecimalScale
    /\ Defaults = Unlimited \/ Defaults \in Limits
    /\ DOMAIN Instruments \subseteq Symbols
    /\ \A s \in DOMAIN Instruments : Instruments[s] \in Limits

VARIABLES
    records,  \* orders_
    check,    \* the check under way: candidate, records still to add, projection
    beyond    \* history: symbols with an order accepted when the sum was not in range

vars == <<records, check, beyond>>

Sides == {"buy", "sell"}

NoRecord == [state |-> "none", symbol |-> "", side |-> "buy", quantity |-> ZeroText,
             filled |-> ZeroText]

NoCheck == [pc |-> "idle", op |-> "place", id |-> "", symbol |-> "", side |-> "buy",
            quantity |-> ZeroText, price |-> Empty, work |-> {}, projected |-> Zero]

\* Types of the records and of the check; the projection is a normalized
\* decimal of at most kMaxDecimalScale fractional digits, which its text can
\* carry to check_risk.
TypeOK ==
    /\ \A i \in Ids :
          /\ records[i].state \in {"none", "working", "ended"}
          /\ records[i].symbol \in Symbols \cup {""}
          /\ records[i].side \in Sides
          /\ {records[i].quantity, records[i].filled} \subseteq Text
    /\ check.pc \in {"idle", "sum", "decide"}
    /\ check.work \subseteq Ids
    /\ IsDecimal(check.projected) /\ check.projected.scale <= kMaxDecimalScale
    /\ normalized(check.projected) = check.projected
    /\ beyond \subseteq Symbols

Init ==
    /\ records = [i \in Ids |-> NoRecord]
    /\ check = NoCheck
    /\ beyond = {}

limits_for(symbol) ==
    IF symbol \in DOMAIN Instruments THEN Instruments[symbol] ELSE Defaults

-----------------------------------------------------------------------------
(* The projection: signed fills of every record of the symbol, signed      *)
(* outstanding quantity of those that work, and the candidate in place of  *)
(* the order that it amends.                                               *)

signed_amount(side, d) == IF side = "sell" THEN negate(d) ELSE d

\* An addition that overflows is left out.
add_in(projected, d) ==
    LET sum == add(projected, d) IN IF IsOk(sum) THEN sum ELSE projected

\* Without limits there is no projection.
Starts(op, id, symbol, side, quantity, price) ==
    /\ check.pc = "idle"
    /\ check' = [pc |-> IF limits_for(symbol) = Unlimited THEN "decide" ELSE "sum",
                 op |-> op, id |-> id, symbol |-> symbol, side |-> side,
                 quantity |-> quantity, price |-> price, projected |-> Zero,
                 work |-> {i \in Ids : records[i].symbol = symbol}]
    /\ UNCHANGED <<records, beyond>>

PlaceStarts(id, symbol, side, quantity, price) ==
    /\ records[id].state = "none"
    /\ Starts("place", id, symbol, side, quantity, price)

AmendStarts(id, quantity, price) ==
    /\ records[id].state = "working"
    /\ Starts("amend", id, records[id].symbol, records[id].side, quantity, price)

\* Faulty variant: the amended order counts with its old quantity as well.
NothingReplaced(i) == FALSE

Replaced(i) == check.op = "amend" /\ i = check.id

\* Faulty variant: the fills of an ended order are forgotten.
ContributionWorking(i, projected) ==
    LET r == records[i]
        filled == parse_decimal(r.filled)
        left == sub_clamped_zero(parse_decimal(r.quantity), filled)
    IN  IF r.state = "ended" THEN projected
        ELSE IF Replaced(i) THEN add_in(projected, signed_amount(r.side, filled))
        ELSE add_in(add_in(projected, signed_amount(r.side, filled)),
                    signed_amount(r.side, left))

Contribution(i, projected) ==
    LET r == records[i]
        filled == parse_decimal(r.filled)
        left == sub_clamped_zero(parse_decimal(r.quantity), filled)
        executed == add_in(projected, signed_amount(r.side, filled))
    IN  IF r.state = "ended" \/ Replaced(i) THEN executed
        ELSE add_in(executed, signed_amount(r.side, left))

Accumulate(i) ==
    /\ check.pc = "sum" /\ i \in check.work
    /\ check' = [check EXCEPT !.work = @ \ {i}, !.projected = Contribution(i, @)]
    /\ UNCHANGED <<records, beyond>>

\* A new order has no fills; a quantity that does not parse is left out.
AddCandidate ==
    LET quantity == parse_decimal(check.quantity)
        left == sub_clamped_zero(quantity, parse_decimal(records[check.id].filled))
    IN  /\ check.pc = "sum" /\ check.work = {}
        /\ check' = [check EXCEPT !.pc = "decide",
                         !.projected = IF IsOk(quantity) THEN add_in(@, signed_amount(check.side, left))
                                                         ELSE @]
        /\ UNCHANGED <<records, beyond>>

-----------------------------------------------------------------------------
(* Exact values, to which the arithmetic of the code is compared *)

\* The value of a text as an integer in units of 10^-kMaxDecimalScale.
TextValue(t) ==
    (IF t.neg THEN -1 ELSE 1) * t.digits * 10^(kMaxDecimalScale - t.frac)

\* What a record executes in all if it fills.
Exposure(r) ==
    IF r.state = "ended" THEN TextValue(r.filled)
    ELSE Larger(TextValue(r.quantity), TextValue(r.filled))

OfSymbol(symbol) == {i \in Ids : records[i].symbol = symbol}

\* The records as they are once the candidate is accepted.
AfterCandidate(i) ==
    IF i = check.id
    THEN [records[i] EXCEPT !.state = "working", !.side = check.side, !.quantity = check.quantity]
    ELSE records[i]

\* No partial sum of the projection can overflow, in whatever order.
InRange ==
    MapThenSumSet(LAMBDA i : Exposure(AfterCandidate(i)), OfSymbol(check.symbol) \cup {check.id})
        <= kLlMax

-----------------------------------------------------------------------------
(* The limits *)

\* The code of the rejection, or "ok".  The projection goes through its text.
check_risk(limits, quantity, price, projected_position) ==
    LET qty == parse_decimal(quantity)
        notional == IF IsOk(parse_decimal(price)) THEN mul(parse_decimal(price), qty) ELSE Failure
        position == parse_signed_decimal(projected_position)
        magnitude == IF position.unscaled < 0 THEN negate(position) ELSE position
        above(d, limit) == limit # Empty /\ compare(d, parse_decimal(limit)) > 0
        priced == limits.max_notional # Empty /\ price # Empty
    IN  IF limits = Unlimited THEN "ok"
        ELSE IF ~IsOk(qty) THEN "risk_invalid_value"
        ELSE IF above(qty, limits.max_qty) THEN "risk_max_qty"
        ELSE IF priced /\ ~IsOk(notional) THEN "risk_invalid_value"
        ELSE IF priced /\ above(notional, limits.max_notional) THEN "risk_max_notional"
        ELSE IF limits.max_position # Empty /\ ~IsOk(position) THEN "risk_invalid_value"
        ELSE IF above(magnitude, limits.max_position) THEN "risk_max_position"
        ELSE "ok"

\* What check_risk says of the candidate.
Verdict ==
    check_risk(limits_for(check.symbol), check.quantity, check.price,
               decimal_to_string(check.projected))

Accepted ==
    /\ check.pc = "decide" /\ Verdict = "ok"
    /\ records' = [records EXCEPT ![check.id] =
                      [@ EXCEPT !.state = "working", !.symbol = check.symbol,
                                !.side = check.side, !.quantity = check.quantity]]
    /\ check' = NoCheck
    /\ beyond' = beyond \cup (IF InRange THEN {} ELSE {check.symbol})

\* A rejected place is a terminal record; a rejected amend changes nothing.
Rejected ==
    /\ check.pc = "decide" /\ Verdict # "ok"
    /\ records' = IF check.op = "amend" THEN records
                  ELSE [records EXCEPT ![check.id] =
                           [@ EXCEPT !.state = "ended", !.symbol = check.symbol,
                                     !.side = check.side, !.quantity = check.quantity]]
    /\ check' = NoCheck
    /\ UNCHANGED beyond

-----------------------------------------------------------------------------
(* Observations of the venue, which computes exactly *)

\* A higher fill within the quantity.
Fills(i, filled) ==
    /\ check.pc = "idle" /\ records[i].state = "working"
    /\ TextValue(filled) \in TextValue(records[i].filled) + 1 .. TextValue(records[i].quantity)
    /\ records' = [records EXCEPT ![i].filled = filled,
                      ![i].state = IF TextValue(filled) = TextValue(records[i].quantity)
                                   THEN "ended" ELSE "working"]
    /\ UNCHANGED <<check, beyond>>

Ends(i) ==
    /\ check.pc = "idle" /\ records[i].state = "working"
    /\ records' = [records EXCEPT ![i].state = "ended"]
    /\ UNCHANGED <<check, beyond>>

Next ==
    \/ \E i \in Ids, quantity \in Quantities, price \in Prices :
          \/ \E symbol \in Symbols, side \in Sides :
                PlaceStarts(i, symbol, side, quantity, price)
          \/ AmendStarts(i, quantity, price)
    \/ \E i \in Ids : Accumulate(i)
    \/ AddCandidate
    \/ Accepted
    \/ Rejected
    \/ \E i \in Ids : Ends(i) \/ \E filled \in Quantities : Fills(i, filled)

Spec == Init /\ [][Next]_vars

-----------------------------------------------------------------------------
(* Properties.  The reference is exact: sums and products of TextValue.    *)

Signed(side, n) == IF side = "sell" THEN -n ELSE n

ExactPosition ==
    MapThenSumSet(LAMBDA i : Signed(AfterCandidate(i).side, Exposure(AfterCandidate(i))),
                  OfSymbol(check.symbol) \cup {check.id})

WithinLimits(limits) ==
    LET below(n, limit) == limit = Empty \/ n <= TextValue(limit) IN
    \/ limits = Unlimited
    \/ /\ below(TextValue(check.quantity), limits.max_qty)
       /\ \/ check.price = Empty \/ limits.max_notional = Empty
          \/ TextValue(check.price) * TextValue(check.quantity)
                <= TextValue(limits.max_notional) * 10^kMaxDecimalScale
       /\ below(Abs(ExactPosition), limits.max_position)

\* The arithmetic that a check rests on is exact or an error, for all operands
\* up to the limits of the machine integer (decimal.hpp): see DecimalsExact.
ArithmeticExact == check.pc # "idle" => DecimalsExact

\* Whatever orders have been placed, amended, filled and ended before, and in
\* whatever order the registry is walked, an order passes the risk check only
\* if the exact values are within the limits of its symbol; one that is within
\* them is rejected only when its price or notional does not fit a machine
\* integer.  Sums that do not fit one are left out (add_in is no error then).
RiskExact ==
    check.pc = "decide" /\ InRange =>
        IF Verdict = "ok" THEN WithinLimits(limits_for(check.symbol))
        ELSE \/ ~WithinLimits(limits_for(check.symbol))
             \/ \E n \in {check.quantity.digits, check.price.digits,
                          TextValue(check.price) * TextValue(check.quantity)} : n > kLlMax

\* If the orders of a symbol are all on one side, what they can execute
\* together is within maxPosition.  (Orders on opposite sides are netted while
\* they work, so there the limit is no bound.)
SideBounded(symbol) ==
    LET limits == limits_for(symbol) IN
    \/ limits = Unlimited \/ limits.max_position = Empty
    \/ {records[i].side : i \in OfSymbol(symbol)} = Sides
    \/ MapThenSumSet(LAMBDA i : Exposure(records[i]), OfSymbol(symbol))
          <= TextValue(limits.max_position)

\* The orders of a symbol that are all on one side can together never execute
\* more than maxPosition, over amends, partial fills and cancels, as long as
\* each was accepted when the sum of all fitted a machine integer: beyond that
\* projected_position leaves summands out.
OneSidedPosition == \A symbol \in Symbols \ beyond : SideBounded(symbol)

\* The same without that premise, which is how README.md:155 states maxPosition.
\* It fails where quantities reach the limits of the integer (oms.cpp:195).
PositionBounded == \A symbol \in Symbols : SideBounded(symbol)

=============================================================================
