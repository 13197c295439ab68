------------------------------ MODULE EventLog -----------------------------
(***************************************************************************)
(* The append-only log file (core/event_log.cpp): one event per line,      *)
(* flushed on append, and replayed at startup, where an unterminated tail  *)
(* is cut off and a complete line that does not parse is refused.          *)
(*                                                                         *)
(* A line is an event, or Garbage when it does not parse.  Bytes behind    *)
(* the last newline are a torn tail, whatever they are: replay drops them  *)
(* even if they make a whole event, and the next line is garbled by them.  *)
(* Death of the process keeps what was written; loss of the machine's      *)
(* power is not considered.                                                *)
(***************************************************************************)
EXTENDS Naturals, Sequences

CONSTANTS
    Event,     \* the events
    Garbage    \* a complete line that is not a JSON object

ASSUME GarbageAssumption == Garbage \notin Event

VARIABLES
    file,      \* the complete lines
    torn,      \* the file has a tail without a newline
    buffer,    \* out_: lines that a failed flush has left in the stream
    process,   \* "down", "up", or "refused": replay has failed
    acked,     \* history: events whose append has returned success
    used       \* events that were appended; each one is, once

vars == <<file, torn, buffer, process, acked, used>>

\* Types of every variable.
TypeOK ==
    /\ file \in Seq(Event \cup {Garbage})
    /\ torn \in BOOLEAN
    /\ buffer \in Seq(Event)
    /\ process \in {"down", "up", "refused"}
    /\ acked \subseteq used /\ used \subseteq Event

Init ==
    /\ file = <<>> /\ torn = FALSE /\ buffer = <<>>
    /\ process = "down" /\ acked = {} /\ used = {}

-----------------------------------------------------------------------------
\* The lines that text adds to the file: a torn tail garbles the first.
Joined(text) == IF torn /\ text # <<>> THEN <<Garbage>> \o Tail(text) ELSE text

\* The first k lines of text are written, and perhaps part of the next.
CutOff(text, k) ==
    /\ file' = file \o SubSeq(Joined(text), 1, k)
    /\ torn' \in (IF k = Len(text) THEN {FALSE} ELSE {TRUE, torn /\ k = 0})

Uses(e) == process = "up" /\ e \notin used /\ used' = used \cup {e}

append(e) ==
    /\ Uses(e)
    /\ file' = file \o Joined(Append(buffer, e))
    /\ torn' = FALSE /\ buffer' = <<>>
    /\ acked' = acked \cup {e}
    /\ UNCHANGED process

\* The process dies in the middle of an append, or at another moment.
AppendCrashes(e) ==
    /\ Uses(e)
    /\ \E k \in 0..Len(buffer) + 1 : CutOff(Append(buffer, e), k)
    /\ buffer' = <<>> /\ process' = "down"
    /\ UNCHANGED acked

Crash ==
    /\ process = "up"
    /\ process' = "down" /\ buffer' = <<>>
    /\ UNCHANGED <<file, torn, acked, used>>

\* Faulty variant: the torn tail stays.
ReplayKeepsTail ==
    /\ process = "down" /\ \A i \in DOMAIN file : file[i] # Garbage
    /\ process' = "up"
    /\ UNCHANGED <<file, torn, buffer, acked, used>>

\* Faulty variant: the file is cut in front of the last complete line.
ReplayCutsShort ==
    /\ process = "down" /\ \A i \in DOMAIN file : file[i] # Garbage
    /\ process' = "up" /\ torn' = FALSE
    /\ file' = IF torn /\ file # <<>> THEN SubSeq(file, 1, Len(file) - 1) ELSE file
    /\ UNCHANGED <<buffer, acked, used>>

replay ==
    /\ process = "down" /\ \A i \in DOMAIN file : file[i] # Garbage
    /\ process' = "up" /\ torn' = FALSE
    /\ UNCHANGED <<file, buffer, acked, used>>

Next ==
    \/ \E e \in Event : append(e) \/ AppendCrashes(e)
    \/ Crash
    \/ replay

Spec == Init /\ [][Next]_vars

-----------------------------------------------------------------------------
(* Writes that fail, as on a full disk *)

\* Part of the text may have been written; whether the stream then drops the
\* text or writes it again with the next append is up to the library.
AppendFails(e) ==
    LET text == Append(buffer, e) IN
    /\ Uses(e)
    /\ \E k \in 0..Len(buffer) : CutOff(text, k)
    /\ buffer' \in {text, <<>>}
    /\ UNCHANGED <<process, acked>>

\* The destructor of the stream writes what it holds.
Exits ==
    /\ process = "up"
    /\ file' = file \o Joined(buffer)
    /\ torn' = (torn /\ buffer = <<>>)
    /\ process' = "down" /\ buffer' = <<>>
    /\ UNCHANGED <<acked, used>>

ReplayRefused ==
    /\ process = "down" /\ \E i \in DOMAIN file : file[i] = Garbage
    /\ process' = "refused"
    /\ UNCHANGED <<file, torn, buffer, acked, used>>

FaultyNext == Next \/ (\E e \in Event : AppendFails(e)) \/ Exits \/ ReplayRefused

FaultySpec == Init /\ [][FaultyNext]_vars

-----------------------------------------------------------------------------
(* Properties *)

\* The gateway can start: replay finds no complete line it does not
\* understand, since a torn tail is cut off before anything follows it.
Readable == \A i \in DOMAIN file : file[i] # Garbage

Durable == INSTANCE DurableLog WITH log <- file

\* The file is the log the order management system counts on, through any
\* number of crashes in the middle of an append.
Implements == Durable!Spec

=============================================================================
