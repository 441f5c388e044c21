----------------------------- MODULE TaskEvents -----------------------------
(***************************************************************************)
(* The events of one agent task, from its creation by a web client that    *)
(* retries once: the writers that append to agent_events and publish to a  *)
(* Redis stream, the server-sent event loop that merges both, and the web  *)
(* client that connects, reloads and reconnects.  Implements EventLog.     *)
(***************************************************************************)
EXTENDS Integers, Sequences, FiniteSets

CONSTANTS Run,            \* deliveries that run the graph and write its events
          Api,            \* cancel and resume requests, each writes one event
          MaxTries,       \* attempts of append_event
          MaxIdle,        \* idle rounds after which the stream ends
          ReloadIsPrompt, \* TRUE: a list response is not outlived by a whole stream
          MaxEvents,      \* bound: events of one run before it ends
          MaxCuts,        \* bound: connections that break
          MaxTokens       \* bound: token chunks

ASSUME EventsAssumption ==
    /\ Run \cap Api = {}
    /\ MaxTries \in Nat \ {0} /\ MaxIdle \in Nat \ {0}
    /\ ReloadIsPrompt \in BOOLEAN
    /\ {MaxEvents, MaxCuts, MaxTokens} \subseteq Nat

VARIABLES
    \* task creation
    tasks,      \* the number of task rows with the client's idempotency key
    request,    \* [Request -> where the handler stands]
    client,     \* what the web client waits for
    \* agent_events and its writers
    rows,       \* index -> event; a function because (task_id, event_index) is unique
    writer,     \* [Writer -> where append_event stands]
    index,      \* [Writer -> event_index to be inserted; 0: not given]
    tries,      \* [Writer -> unique violations so far]
    written,    \* [Writer -> events it has dealt with]
    seenRows,   \* history: [Writer -> rows when its append began]
    finished,   \* the row's status is completed, failed or cancelled
    early,      \* history: indices recorded before the status was final
    \* the Redis stream, after the generator's position in it
    pushed,     \* published and not read: indices, 0 for an entry without one
    position,   \* "$": none; "call": where the blocked XREAD began; "id": after an entry
    tokens,     \* token chunks published so far
    \* event_generator and what it has sent and the client not received
    server, cursor, idle,
    wire,       \* indices sent and not received: they arrive in their order
    \* the client's state.events and a list request that is under way
    shown, reload, cuts

creation == <<tasks, request>>
writers == <<rows, writer, index, tries, written, seenRows, finished, early>>
stream == <<pushed, position, tokens>>
generator == <<server, cursor, idle, wire>>
view == <<client, shown, reload, cuts>>
vars == <<creation, writers, stream, generator, view>>
-----------------------------------------------------------------------------
\* The POST that creates the task and its one retry.
Request == 1..2
Writer == Run \cup Api
Quota(w) == IF w \in Api THEN 1 ELSE IF finished THEN MaxEvents + 1 ELSE MaxEvents
Event == [by : Writer, nr : 1..(MaxEvents + 1)]
Index == DOMAIN rows
Newest(I) == IF I = {} THEN 0 ELSE CHOOSE i \in I : \A j \in I : j <= i

NoReload == {-1}
Unused == {-2}

Init ==
    /\ tasks = 0
    /\ request = [r \in Request |-> "unsent"]
    /\ client = "creating"
    /\ rows = <<>>
    /\ writer = [w \in Writer |-> "idle"]
    /\ index = [w \in Writer |-> 0]
    /\ tries = [w \in Writer |-> 0]
    /\ written = [w \in Writer |-> 0]
    /\ seenRows = [w \in Writer |-> 0]
    /\ finished = FALSE
    /\ early = {}
    /\ pushed = <<>>
    /\ position = "$"
    /\ tokens = 0
    /\ server = "none"
    /\ cursor = 0
    /\ idle = 0
    /\ wire = {}
    /\ shown = {}
    /\ reload = Unused
    /\ cuts = 0
-----------------------------------------------------------------------------
(* Creation: the client sends the request, and once more, with the same    *)
(* key, if the answer does not arrive.                                     *)

Send(r) ==
    /\ client = "creating"
    /\ request[r] = "unsent"
    /\ r = 2 => request[1] # "unsent"
    /\ request' = [request EXCEPT ![r] = "received"]
    /\ UNCHANGED <<tasks, writers, stream, generator, view>>

\* create_task looks the key up; an existing task is the answer.
FindExisting(r) ==
    /\ request[r] = "received"
    /\ request' = [request EXCEPT ![r] = IF tasks = 0 THEN "inserting" ELSE "answered"]
    /\ UNCHANGED <<tasks, writers, stream, generator, view>>

\* Mutation: no unique key stops the second of two inserts.
InsertAgain(r) ==
    /\ request[r] = "inserting"
    /\ tasks' = tasks + 1
    /\ request' = [request EXCEPT ![r] = "answered"]
    /\ UNCHANGED <<writers, stream, generator, view>>

\* The unique key admits one insert; the loser answers with the winner's task.
Insert(r) ==
    /\ request[r] = "inserting"
    /\ tasks' = IF tasks = 0 THEN 1 ELSE tasks
    /\ request' = [request EXCEPT ![r] = "answered"]
    /\ UNCHANGED <<writers, stream, generator, view>>

\* The first answer the client gets; others are ignored.
Created(r) ==
    /\ client = "creating"
    /\ request[r] = "answered"
    /\ client' = "refreshing"
    /\ UNCHANGED <<creation, writers, stream, generator, shown, reload, cuts>>
-----------------------------------------------------------------------------
(* Writers: append_event, then publish_task_event.                         *)

\* Failure events are given the count plus one as their index and are not
\* published; else append_event itself reads the maximum.
BeginEvent(w) ==
    /\ tasks > 0
    /\ writer[w] = "idle"
    /\ written[w] < Quota(w)
    /\ \E kind \in IF w \in Api THEN {"append"}
                   ELSE IF finished THEN {"given"} ELSE {"publish", "given"} :
        /\ writer' = [writer EXCEPT ![w] = kind]
        /\ index' = [index EXCEPT ![w] = (IF kind = "given" THEN Cardinality(Index)
                                                          ELSE Newest(Index)) + 1]
    /\ written' = [written EXCEPT ![w] = @ + 1]
    /\ tries' = [tries EXCEPT ![w] = 0]
    /\ seenRows' = [seenRows EXCEPT ![w] = Cardinality(Index)]
    /\ UNCHANGED <<creation, rows, finished, early, stream, generator, view>>

Appending == {"append", "publish", "given"}
Inserting(w) == index[w] > 0

ReadMaximum(w) ==
    /\ writer[w] \in Appending
    /\ ~Inserting(w)
    /\ index' = [index EXCEPT ![w] = Newest(Index) + 1]
    /\ UNCHANGED <<creation, rows, writer, tries, written, seenRows, finished, early, stream,
                   generator, view>>

CommitRow(w) ==
    /\ writer[w] \in Appending
    /\ Inserting(w)
    /\ index[w] \notin Index
    /\ LET i == index[w] IN
       rows' = [j \in Index \cup {i} |-> IF j = i THEN [by |-> w, nr |-> written[w]] ELSE rows[j]]
    /\ early' = IF finished THEN early ELSE early \cup {index[w]}
    /\ writer' = [writer EXCEPT ![w] = IF @ = "publish" THEN "publishing" ELSE "idle"]
    /\ index' = [index EXCEPT ![w] = IF writer[w] = "publish" THEN @ ELSE 0]
    /\ tries' = [tries EXCEPT ![w] = 0]
    /\ seenRows' = [seenRows EXCEPT ![w] = 0]
    /\ UNCHANGED <<creation, written, finished, stream, generator, view>>

\* Mutation: the index that collided is tried again.
CollideKeepIndex(w) ==
    /\ writer[w] \in Appending
    /\ Inserting(w)
    /\ index[w] \in Index
    /\ tries' = [tries EXCEPT ![w] = @ + 1]
    /\ index' = [index EXCEPT ![w] = IF tries[w] + 1 < MaxTries THEN @ ELSE 0]
    /\ writer' = [writer EXCEPT ![w] = IF tries[w] + 1 < MaxTries THEN @
                                       ELSE IF @ = "publish" THEN "publishing" ELSE "idle"]
    /\ UNCHANGED <<creation, rows, written, seenRows, finished, early, stream, generator, view>>

\* IntegrityError: forget the index and read the maximum again, or give up.
Collide(w) ==
    /\ writer[w] \in Appending
    /\ Inserting(w)
    /\ index[w] \in Index
    /\ tries' = [tries EXCEPT ![w] = @ + 1]
    /\ index' = [index EXCEPT ![w] = 0]
    /\ writer' = [writer EXCEPT ![w] = IF tries[w] + 1 < MaxTries THEN @
                                       ELSE IF @ = "publish" THEN "publishing" ELSE "idle"]
    /\ UNCHANGED <<creation, rows, written, seenRows, finished, early, stream, generator, view>>

\* XADD; who reads from "$" gets only what is added while its call blocks.
Add(entry) == pushed' = IF position = "$" THEN pushed ELSE Append(pushed, entry)

\* An event that was not recorded is published without an index.
Publish(w) ==
    /\ writer[w] = "publishing"
    /\ Add(index[w])
    /\ writer' = [writer EXCEPT ![w] = "idle"]
    /\ index' = [index EXCEPT ![w] = 0]
    /\ UNCHANGED <<creation, rows, tries, written, seenRows, finished, early, position, tokens,
                   generator, view>>

\* Redis is away, or the worker dies between the two calls.
PublishFails(w) ==
    /\ writer[w] = "publishing"
    /\ writer' = [writer EXCEPT ![w] = "idle"]
    /\ index' = [index EXCEPT ![w] = 0]
    /\ UNCHANGED <<creation, rows, tries, written, seenRows, finished, early, stream, generator, view>>

PublishToken ==
    /\ tasks > 0
    /\ ~finished
    /\ server = "blocked"    \* an earlier one is read when the next call blocks
    /\ tokens < MaxTokens
    /\ tokens' = tokens + 1
    /\ Add(0)
    /\ UNCHANGED <<creation, writers, position, generator, view>>

\* save_task_state with a final status; a failure event may follow it.
Finish ==
    /\ ~finished
    /\ tasks > 0
    /\ \A w \in Run : writer[w] = "idle" /\ written[w] > 0
    /\ finished' = TRUE
    /\ written' = [w \in Writer |-> IF w \in Run THEN MaxEvents ELSE written[w]]
    /\ UNCHANGED <<creation, rows, writer, index, tries, seenRows, early, stream, generator, view>>
-----------------------------------------------------------------------------
(* The server: event_generator.                                            *)

Connected == server # "none"

ListEvents ==
    /\ server = "list"
    /\ LET new == {i \in Index : i > cursor} IN
       IF new # {}
       THEN /\ wire' = wire \cup new
            /\ cursor' = Newest(new)
            /\ idle' = 0
            /\ server' = "sent"
       ELSE /\ idle' = idle + 1
            /\ server' = "read"
            /\ UNCHANGED <<wire, cursor>>
    /\ UNCHANGED <<creation, writers, stream, view>>

\* XREAD BLOCK starts: "$" is resolved when Redis receives the call.
BeginRead ==
    /\ server = "read"
    /\ server' = "blocked"
    /\ position' = IF position = "$" THEN "call" ELSE position
    /\ UNCHANGED <<creation, writers, pushed, tokens, cursor, idle, wire, view>>

\* Mutation: pushed events are sent whatever the cursor is.
SendAll(entries) == {entries[k] : k \in DOMAIN entries} \ {0}

\* The pushed entries that are sent: each index larger than all before it.
Unseen(entries) ==
    {entries[k] : k \in {k \in DOMAIN entries :
                            /\ entries[k] > cursor
                            /\ \A j \in 1..(k - 1) : entries[k] > entries[j]}}

ReadPushed ==
    /\ server = "blocked"
    /\ pushed # <<>>
    /\ wire' = wire \cup Unseen(pushed)
    /\ cursor' = IF Unseen(pushed) = {} THEN cursor ELSE Newest(Unseen(pushed))
    /\ pushed' = <<>>
    /\ position' = "id"
    /\ idle' = 0
    /\ server' = "silent"
    /\ UNCHANGED <<creation, writers, tokens, view>>

\* The block times out, or Redis does not answer: a heartbeat.
ReadNothing ==
    /\ server = "blocked"
    /\ IF position = "call" THEN pushed' = <<>> /\ position' = "$"
                            ELSE UNCHANGED <<pushed, position>>
    /\ server' = "silent"
    /\ UNCHANGED <<creation, writers, tokens, cursor, idle, wire, view>>

\* Mutation: one idle round too many.
NextRoundLate ==
    /\ server \in {"sent", "silent"}
    /\ server' = IF (finished /\ server = "silent") \/ idle > MaxIdle THEN "ended" ELSE "list"
    /\ UNCHANGED <<creation, writers, stream, cursor, idle, wire, view>>

\* The loop ends with a final status and nothing listed, or when idle.
NextRound ==
    /\ server \in {"sent", "silent"}
    /\ server' = IF (finished /\ server = "silent") \/ idle >= MaxIdle THEN "ended" ELSE "list"
    /\ UNCHANGED <<creation, writers, stream, cursor, idle, wire, view>>
-----------------------------------------------------------------------------
(* The client: refreshTasks, connectAgentStream, upsertAgentEvent.         *)

\* listAgentTasks, then listAgentEvents replaces what is shown; an active task
\* is connected from the largest index shown.
Reset ==
    /\ server' = "none"
    /\ pushed' = <<>>
    /\ position' = "$"
    /\ idle' = 0
    /\ wire' = {}
    /\ cursor' = 0
    /\ UNCHANGED tokens

ListTasks ==
    /\ client = "refreshing"
    /\ client' = IF finished THEN "lastList" ELSE "activeList"
    /\ UNCHANGED <<creation, writers, stream, generator, shown, reload, cuts>>

RefreshEvents ==
    /\ client \in {"lastList", "activeList"}
    /\ shown' = Index
    /\ IF client = "lastList"
       THEN client' = "done" /\ UNCHANGED <<server, cursor>>
       ELSE client' = "streaming" /\ server' = "list" /\ cursor' = Newest(Index)
    /\ UNCHANGED <<creation, writers, stream, idle, wire, reload, cuts>>

\* startAgentReview lists the events again while the stream is already open.
BeginReload ==
    /\ client = "streaming"
    /\ reload = Unused
    /\ reload' = Index
    /\ UNCHANGED <<creation, writers, stream, generator, client, shown, cuts>>

Reloading == reload \notin {NoReload, Unused}

Reload ==
    /\ Reloading
    /\ ReloadIsPrompt => client = "streaming"
    /\ shown' = reload
    /\ reload' = NoReload
    /\ UNCHANGED <<creation, writers, stream, generator, client, cuts>>

Receive ==
    /\ client = "streaming"
    /\ \E i \in wire :
          /\ \A j \in wire : i <= j
          /\ shown' = shown \cup {i}
          /\ wire' = wire \ {i}
    /\ UNCHANGED <<creation, writers, stream, server, cursor, idle, client, reload, cuts>>

\* Mutation: the end of the stream is taken for the end of the task.
StopAtEnd ==
    /\ client = "streaming"
    /\ server = "ended"
    /\ wire = {}
    /\ ReloadIsPrompt => ~Reloading
    /\ Reset
    /\ client' = "done"
    /\ UNCHANGED <<creation, writers, shown, reload, cuts>>

StreamEnds ==
    /\ client = "streaming"
    /\ server = "ended"
    /\ wire = {}
    /\ ReloadIsPrompt => ~Reloading
    /\ Reset
    /\ client' = "refreshing"
    /\ UNCHANGED <<creation, writers, shown, reload, cuts>>

\* The connection breaks, or the user cancels and the stream is aborted: what
\* was sent and not received is lost.
StreamBreaks ==
    /\ client = "streaming"
    /\ cuts < MaxCuts
    /\ cuts' = cuts + 1
    /\ ReloadIsPrompt => ~Reloading
    /\ Reset
    /\ client' = "refreshing"
    /\ UNCHANGED <<creation, writers, shown, reload>>
-----------------------------------------------------------------------------
WriterStep(w) == BeginEvent(w) \/ ReadMaximum(w) \/ CommitRow(w) \/ Collide(w)
                 \/ Publish(w) \/ PublishFails(w)
ServerStep == ListEvents \/ BeginRead \/ ReadPushed \/ ReadNothing \/ NextRound
ClientStep == ListTasks \/ RefreshEvents \/ Reload \/ Receive \/ StreamEnds

Next ==
    \/ \E r \in Request : Send(r) \/ FindExisting(r) \/ Insert(r) \/ Created(r)
    \/ \E w \in Writer : WriterStep(w)
    \/ PublishToken \/ Finish
    \/ ServerStep \/ ClientStep \/ BeginReload \/ StreamBreaks

Spec == Init /\ [][Next]_vars

\* Requests are answered, a writer finishes its append, the loop runs on and
\* the browser takes what arrives and asks again.  Nobody is obliged to write
\* an event, to finish the task or to break a connection.
Fairness ==
    /\ \A r \in Request : WF_vars(Send(r)) /\ WF_vars(FindExisting(r) \/ Insert(r) \/ Created(r))
    /\ \A w \in Writer : WF_vars(writer[w] # "idle" /\ WriterStep(w))
    /\ WF_vars(ServerStep)
    /\ WF_vars(ClientStep)

FairSpec == Spec /\ Fairness
-----------------------------------------------------------------------------
TypeOK ==
    /\ tasks \in Nat
    /\ request \in [Request -> {"unsent", "received", "inserting", "answered"}]
    /\ client \in {"creating", "refreshing", "lastList", "activeList",
                   "streaming", "done"}
    /\ Index \subseteq Nat /\ \A i \in Index : rows[i] \in Event
    /\ writer \in [Writer -> Appending \cup {"idle", "publishing"}]
    /\ index \in [Writer -> Nat] /\ tries \in [Writer -> 0..MaxTries]
    /\ written \in [Writer -> 0..(MaxEvents + 1)] /\ seenRows \in [Writer -> Nat]
    /\ finished \in BOOLEAN /\ early \subseteq Index
    /\ pushed \in Seq(Nat) /\ position \in {"$", "call", "id"} /\ tokens \in 0..MaxTokens
    /\ server \in {"none", "list", "sent", "read", "blocked", "silent", "ended"}
    /\ cursor \in Nat /\ idle \in 0..MaxIdle
    /\ wire \subseteq Index /\ shown \subseteq Index
    /\ cuts \in 0..MaxCuts

\* However the first request and its retry interleave in create_task, the key
\* they share makes one task.
RetryMakesOneTask == tasks <= 1

\* append_event fails MaxTries times, and drops its event, only if as many
\* other events were recorded meanwhile: each violation forgets the stale
\* index, also one that the caller gave.
LostOnlyIfOvertaken ==
    \A w \in Writer : tries[w] <= Cardinality(Index) - seenRows[w]

\* Indices are gapless, no event is recorded twice or overwritten, a
\* connection sends each index at most once and in order, and only recorded
\* events are shown.
Log == INSTANCE EventLog WITH log <- rows, connected <- Connected
LogSpec == Log!Spec

\* Why: a writer inserts at most one past the end, and what is pushed, sent or shown was
\* recorded before.
LogIsDense ==
    /\ rows \in Seq(Event)
    /\ index \in [Writer -> Nat] /\ written \in [Writer -> 0..(MaxEvents + 1)]
    /\ writer \in [Writer -> Appending \cup {"idle", "publishing"}]
    /\ ~finished => \A w \in Run : written[w] <= MaxEvents
    /\ \A w \in Writer :
          /\ writer[w] \in Appending => index[w] <= Len(rows) + 1 /\ written[w] > 0
          /\ writer[w] = "publishing" => index[w] <= Len(rows)
    /\ \A i \in 1..Len(rows) :
          LET w == rows[i].by
          IN rows[i].nr <= written[w] /\ (writer[w] \in Appending => rows[i].nr < written[w])
    /\ pushed \in Seq(0..Len(rows)) /\ cursor \in 0..Len(rows)
    /\ wire \subseteq 1..Len(rows) /\ shown \subseteq 1..Len(rows)
    /\ Reloading => reload \subseteq 1..Len(rows)
    /\ client = "streaming" <=> Connected

\* Why: an index that collided was free when it was chosen.
CollisionsCount ==
    /\ tries \in [Writer -> Nat] /\ seenRows \in [Writer -> Nat]
    /\ \A w \in Writer :
          /\ tries[w] + seenRows[w] <= Len(rows)
          /\ writer[w] \in Appending /\ Inserting(w) => tries[w] + seenRows[w] < index[w]

\* Why: a writer begins no attempt, and the loop no round, beyond the last.
AttemptsAreLeft == \A w \in Writer : writer[w] \in Appending => tries[w] < MaxTries
RoundsAreLeft == /\ server = "list" => idle < MaxIdle
                 /\ server = "none" => idle = 0

\* Whatever the stream skips, because it commits after an event with a higher
\* index was sent, or a broken connection loses, the client ends up showing
\* every event recorded before the task's final status.
EarlyEventsAreShown == <>[](early \subseteq shown)
=============================================================================
