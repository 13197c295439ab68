----------------------------- MODULE DurableLog ----------------------------
(***************************************************************************)
(* The log the order management system counts on (core/event_log.hpp): a   *)
(* sequence of events that only ever grows, by one event at a time, and    *)
(* that holds every event whose append was reported as successful.  A      *)
(* crash may leave an event in the log that nobody was told of.            *)
(***************************************************************************)
EXTENDS Sequences

CONSTANT Event

VARIABLES
    log,    \* the events a restart would replay
    acked   \* events whose append has returned success

Init == log = <<>> /\ acked = {}

Appends(e) ==
    /\ log' = Append(log, e)
    /\ acked' \in {acked, acked \cup {e}}

Next == \E e \in Event : Appends(e)

Spec == Init /\ [][Next]_<<log, acked>>

=============================================================================
