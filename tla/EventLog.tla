------------------------------ MODULE EventLog ------------------------------
(***************************************************************************)
(* What the event log of one agent task promises: events are recorded one  *)
(* after the other, each once and for ever; a reader's cursor only moves   *)
(* forward while it is connected, and shows nothing that is not recorded.  *)
(* TaskEvents implements this with indices read before they are committed, *)
(* two sources of events and a client that reloads.                        *)
(***************************************************************************)
EXTENDS Naturals, Sequences, FiniteSets

CONSTANT Event

VARIABLES log,       \* the recorded events, in order
          connected, \* a reader is connected
          cursor,    \* the last index the reader was sent
          shown      \* the indices of the events on display

vars == <<log, connected, cursor, shown>>

Init ==
    /\ log = <<>>
    /\ connected = FALSE
    /\ cursor = 0
    /\ shown = {}

Record(e) ==
    /\ \A i \in DOMAIN log : log[i] # e
    /\ log' = Append(log, e)
    /\ UNCHANGED <<connected, cursor, shown>>

\* A reader that connects loads the log and goes on from its end.
Connect ==
    /\ ~connected
    /\ connected' = TRUE
    /\ cursor' = Len(log)
    /\ shown' = 1..Len(log)
    /\ UNCHANGED log

Send ==
    /\ connected
    /\ cursor' \in (cursor + 1)..Len(log)
    /\ UNCHANGED <<log, connected, shown>>

Disconnect ==
    /\ connected
    /\ connected' = FALSE
    /\ cursor' = 0
    /\ UNCHANGED <<log, shown>>

Show ==
    /\ shown' \in SUBSET (1..Len(log))
    /\ UNCHANGED <<log, connected, cursor>>

Next == (\E e \in Event : Record(e)) \/ Connect \/ Send \/ Disconnect \/ Show

Spec == Init /\ [][Next]_vars
=============================================================================
