--------------------------- MODULE EventLogProofs --------------------------
(***************************************************************************)
(* The log file implements the durable log, for any set of events and any  *)
(* number of crashes, as long as writes that return do not fail.           *)
(***************************************************************************)
EXTENDS EventLog, SequenceTheorems, TLAPS

\* A tail is torn only while the process is down, and the stream holds nothing
\* back.
Clean == /\ process = "up" => ~torn
         /\ buffer = <<>>

Inv == TypeOK /\ Readable /\ Clean

\* What the first lines of a one-line text are.
LEMMA OneLine ==
    ASSUME NEW S, NEW s \in Seq(S), NEW e \in S, NEW k \in 0..1
    PROVE  /\ k = 0 => s \o SubSeq(<<e>>, 1, k) = s
           /\ k = 1 => s \o SubSeq(<<e>>, 1, k) = Append(s, e)
           /\ s \o <<e>> = Append(s, e)
OBVIOUS

\* A step adds one event to the file or leaves it as it is, and an event is
\* acknowledged only together with its line.
LEMMA FileStep ==
    ASSUME Inv, [Next]_vars
    PROVE  \/ UNCHANGED <<file, acked>>
           \/ \E e \in Event : Durable!Appends(e)
<1>1. ASSUME NEW e \in Event, append(e) PROVE Durable!Appends(e)
  <2>1. file' = file \o <<e>>
    BY <1>1 DEF append, Uses, Joined, Inv, Clean
  <2>2. file' = Append(file, e)
    BY <2>1, OneLine DEF Inv, TypeOK
  <2> QED BY <1>1, <2>2 DEF append, Durable!Appends
<1>2. ASSUME NEW e \in Event, AppendCrashes(e)
      PROVE  UNCHANGED <<file, acked>> \/ Durable!Appends(e)
  <2>1. Joined(Append(buffer, e)) = <<e>>
    BY <1>2 DEF AppendCrashes, Uses, Joined, Inv, Clean
  <2>2. PICK k \in 0..1 : file' = file \o SubSeq(<<e>>, 1, k)
    BY <1>2, <2>1 DEF AppendCrashes, CutOff, Inv, Clean
  <2>3. file' = file \/ file' = Append(file, e)
    BY <2>2, OneLine DEF Inv, TypeOK
  <2> QED BY <1>2, <2>3 DEF AppendCrashes, Durable!Appends
<1>3. CASE Crash \/ replay \/ UNCHANGED vars
  BY <1>3 DEF Crash, replay, vars
<1> QED BY <1>1, <1>2, <1>3 DEF Next

\* The file keeps to events and the stream stays clean.
LEMMA InvKept ==
    ASSUME Inv, [Next]_vars
    PROVE  Inv'
<1>1. /\ file' \in Seq(Event \cup {Garbage})
      /\ Readable'
  <2>1. CASE UNCHANGED <<file, acked>>
    BY <2>1 DEF Inv, TypeOK, Readable
  <2>2. ASSUME NEW e \in Event, Durable!Appends(e)
        PROVE  file' \in Seq(Event \cup {Garbage}) /\ Readable'
    <3>1. file' = Append(file, e)
      BY <2>2 DEF Durable!Appends
    <3>2. e # Garbage
      BY GarbageAssumption
    <3> QED BY <3>1, <3>2 DEF Inv, TypeOK, Readable
  <2> QED BY <2>1, <2>2, FileStep
<1>2. ASSUME NEW e \in Event, append(e) \/ AppendCrashes(e)
      PROVE  /\ torn' \in BOOLEAN /\ process' \in {"down", "up"}
             /\ acked' \subseteq used' /\ used' \subseteq Event
             /\ Clean'
  BY <1>2 DEF append, AppendCrashes, Uses, CutOff, Inv, TypeOK, Clean
<1>3. CASE Crash \/ replay \/ UNCHANGED vars
  <2>1. torn' \in BOOLEAN /\ (process' = "up" => ~torn')
    <3>1. CASE Crash
      BY <3>1 DEF Crash, Inv, TypeOK
    <3>2. CASE replay
      BY <3>2, Zenon DEF replay
    <3>3. CASE UNCHANGED vars
      BY <3>3 DEF vars, Inv, TypeOK, Clean
    <3> QED BY <1>3, <3>1, <3>2, <3>3
  <2>2. /\ buffer' = <<>> /\ process' \in {"down", "up", "refused"}
        /\ acked' \subseteq used' /\ used' \subseteq Event
    BY <1>3 DEF Crash, replay, vars, Inv, TypeOK, Clean
  <2> QED BY <1>1, <2>1, <2>2 DEF Inv, TypeOK, Clean
<1>4. ASSUME NEW e \in Event, append(e) \/ AppendCrashes(e) PROVE Inv'
  BY <1>1, <1>2, <1>4 DEF Inv, TypeOK, Clean
<1> QED BY <1>3, <1>4 DEF Next

\* The inductive invariant.
THEOREM Invariance == Spec => []Inv
<1>1. Init => Inv
  <2> SUFFICES ASSUME Init PROVE Inv
    OBVIOUS
  <2>1. torn \in BOOLEAN /\ ~torn
    BY Zenon DEF Init
  <2>2. file \in Seq(Event \cup {Garbage}) /\ buffer \in Seq(Event) /\ Readable
    BY DEF Init, Readable
  <2> QED BY <2>1, <2>2, Zenon DEF Init, Inv, TypeOK, Clean
<1>2. Inv /\ [Next]_vars => Inv'
  BY InvKept
<1> QED BY <1>1, <1>2, PTL DEF Spec

\* The gateway can always start again: no crash in the middle of an append
\* leaves a line behind that replay refuses.
THEOREM AlwaysReadable == Spec => []Readable
BY Invariance, PTL DEF Inv

\* The file implements the durable log: it grows by whole events only, loses
\* none, and holds every event whose append has returned success.
THEOREM Refinement == Spec => Implements
<1>1. Init => Durable!Init
  BY DEF Init, Durable!Init
<1>2. Inv /\ [Next]_vars => [Durable!Next]_<<file, acked>>
  BY FileStep DEF Durable!Next
<1> QED BY <1>1, <1>2, Invariance, PTL DEF Spec, Implements, Durable!Spec

=============================================================================
