----------------------------- MODULE OrderState -----------------------------
(***************************************************************************)
(* The normalized order lifecycle: the states and the explicit table of    *)
(* legal transitions that arbitrates every observation (venue ack, REST    *)
(* snapshot, execution report, replayed log event) against a record.       *)
(***************************************************************************)

States == {"Pending", "Live", "PartiallyFilled", "Filled", "Canceled", "Rejected"}

\* What a venue can report: Pending is gateway-local.
VenueStates == States \ {"Pending"}

\* kLegalTransitions
LegalTransitions ==
    ({"Pending"} \X (States \ {"Canceled"}))
        \cup ({"Live"} \X (States \ {"Pending"}))
        \cup ({"PartiallyFilled"} \X (States \ {"Pending", "Live"}))

is_terminal(s) == s \in {"Filled", "Canceled", "Rejected"}

can_transition(from, to) == <<from, to>> \in LegalTransitions

\* Faulty variant: the table is not consulted.
apply_transition_unchecked(s, next) == next

\* An illegal transition is a stale observation: the state is unchanged.
apply_transition(s, next) == IF can_transition(s, next) THEN next ELSE s

Working(s) == s \in {"Live", "PartiallyFilled"}

=============================================================================
