-------------------------- MODULE TaskEventsProofs --------------------------
(***************************************************************************)
(* For any writers, requests, attempts and idle rounds: the rows and the   *)
(* stream of TaskEvents implement EventLog, an event is dropped only when  *)
(* enough others were recorded, and a retried creation makes one task.     *)
(***************************************************************************)
EXTENDS TaskEvents, SequenceTheorems, FiniteSetTheorems, WellFoundedInduction, TLAPS

-----------------------------------------------------------------------------
(* The newest index.                                                       *)

\* A bounded set of indices has a greatest one, which is the newest.
LEMMA NewestIsGreatest ==
    ASSUME NEW n \in Nat, NEW I, I \subseteq 0..n, I # {}
    PROVE  Newest(I) \in I /\ \A j \in I : j <= Newest(I)
  <1> DEFINE T == {n - i : i \in I}
  <1>1. T \subseteq Nat /\ T # {}
    <2>1. \A i \in I : i \in Int /\ n - i \in Nat
      OBVIOUS
    <2>2. PICK i \in I : TRUE
      OBVIOUS
    <2> QED
      BY <2>1, <2>2
  <1>2. PICK x \in T : \A y \in T : ~(<<y, x>> \in OpToRel(<, Nat))
    <2> HIDE DEF T
    <2> QED
      BY <1>1, NatLessThanWellFounded, WFMin
  <1>3. \A y \in T : x <= y
    <2> SUFFICES ASSUME NEW y \in T
                 PROVE  ~(y < x)
      BY <1>1
    <2> QED
      BY <1>1, <1>2 DEF OpToRel
  <1>4. \E i \in I : \A j \in I : j <= i
    <2>1. PICK i \in I : x = n - i
      OBVIOUS
    <2>2. ASSUME NEW j \in I PROVE j <= i
      <3>1. n - i <= n - j
        BY <1>3, <2>1
      <3>2. i \in Int /\ j \in Int
        OBVIOUS
      <3> QED
        BY <3>1, <3>2
    <2> QED
      BY <2>2
  <1> QED
    BY <1>4 DEF Newest

\* Of a log without gaps it is the length, which is also what counting yields.
LEMMA NewestOfLog ==
    ASSUME LogIsDense
    PROVE  /\ Index = 1..Len(rows) /\ Len(rows) \in Nat
           /\ Newest(Index) = Len(rows) /\ Cardinality(Index) = Len(rows)
           /\ \A i \in Nat : i \notin Index /\ i > 0 /\ i <= Len(rows) + 1 => i = Len(rows) + 1
  <1>1. Index = 1..Len(rows) /\ Len(rows) \in Nat
    BY LenProperties DEF LogIsDense, Index
  <1>2. Newest(Index) = Len(rows)
    <2>1. CASE Len(rows) = 0
      BY <1>1, <2>1 DEF Newest
    <2>2. CASE Len(rows) > 0
      <3>1. Index \subseteq 0..Len(rows) /\ Index # {} /\ Len(rows) \in Index
        BY <1>1, <2>2
      <3>2. Newest(Index) \in Index /\ Len(rows) <= Newest(Index)
        BY <1>1, <3>1, NewestIsGreatest
      <3> QED
        BY <1>1, <3>2
    <2> QED
      BY <1>1, <2>1, <2>2
  <1>3. Cardinality(Index) = Len(rows)
    <2>1. Cardinality(1..Len(rows)) = IF 1 > Len(rows) THEN 0 ELSE Len(rows) - 1 + 1
      BY <1>1, FS_Interval
    <2> QED
      BY <1>1, <2>1
  <1> QED
    BY <1>1, <1>2, <1>3

\* What ReadPushed sends is recorded and lies after the cursor.
LEMMA UnseenIsNew ==
    ASSUME LogIsDense
    PROVE  /\ Unseen(pushed) \subseteq (cursor + 1)..Len(rows)
           /\ Unseen(pushed) # {} => Newest(Unseen(pushed)) \in (cursor + 1)..Len(rows)
  <1>1. cursor \in Nat /\ Len(rows) \in Nat
    BY NewestOfLog DEF LogIsDense
  <1>2. \A k \in DOMAIN pushed : pushed[k] \in 0..Len(rows)
    BY ElementOfSeq, LenProperties DEF LogIsDense
  <1>3. Unseen(pushed) \subseteq (cursor + 1)..Len(rows)
    BY <1>1, <1>2 DEF Unseen
  <1>4. Unseen(pushed) # {} => Newest(Unseen(pushed)) \in Unseen(pushed)
    <2>1. Unseen(pushed) \subseteq 0..Len(rows)
      BY <1>1, <1>3
    <2> QED
      BY <1>1, <2>1, NewestIsGreatest
  <1> QED
    BY <1>3, <1>4
-----------------------------------------------------------------------------
(* The log stays dense.                                                    *)

LEMMA DenseInit == Init => LogIsDense
  <1> SUFFICES ASSUME Init
               PROVE  LogIsDense
    OBVIOUS
  <1>1. rows \in Seq(Event) /\ Len(rows) = 0 /\ pushed \in Seq(0..0)
    BY EmptySeq DEF Init
  <1>2. ~Reloading
    BY DEF Init, Reloading
  <1> QED
    BY <1>1, <1>2, EventsAssumption DEF Init, LogIsDense, Connected, Appending, Writer

\* The parts of the state LogIsDense is about.
watched == <<rows, index, written, writer, finished, pushed, cursor, wire, shown, reload,
             client, server>>

LEMMA DenseStays == LogIsDense /\ UNCHANGED watched => LogIsDense'
  BY DEF LogIsDense, watched, Reloading, Connected

\* The server and the client move on, and the writers do not.
LEMMA DenseReader ==
    ASSUME LogIsDense, UNCHANGED <<rows, index, written, writer, finished>>,
           pushed' \in Seq(0..Len(rows)), cursor' \in 0..Len(rows),
           wire' \subseteq 1..Len(rows), shown' \subseteq 1..Len(rows),
           Reloading' => reload' \subseteq 1..Len(rows),
           client' = "streaming" <=> server' # "none"
    PROVE  LogIsDense'
  BY DEF LogIsDense, Connected

\* A writer moves on, and nothing is recorded.
LEMMA DenseWriter ==
    ASSUME LogIsDense, NEW w \in Writer,
           UNCHANGED <<rows, finished, cursor, wire, shown, reload, client, server>>,
           NEW to \in Appending \cup {"idle", "publishing"}, writer' = [writer EXCEPT ![w] = to],
           NEW i \in Nat, index' = [index EXCEPT ![w] = i], i <= Len(rows) + 1,
           to = "publishing" => i <= Len(rows),
           pushed' \in Seq(0..Len(rows)),
           \/ UNCHANGED written /\ (to \in Appending => writer[w] \in Appending)
           \/ /\ written[w] < Quota(w) /\ written' = [written EXCEPT ![w] = @ + 1]
    PROVE  LogIsDense'
  <1>0. MaxEvents \in Nat
    BY EventsAssumption
  <1>1. Quota(w) \in 0..(MaxEvents + 1) /\ (w \in Run /\ ~finished => Quota(w) = MaxEvents)
    BY <1>0, EventsAssumption DEF Quota
  <1>2. written' \in [Writer -> 0..(MaxEvents + 1)]
    <2>1. written[w] \in 0..(MaxEvents + 1) /\ (written[w] < Quota(w) => written[w] + 1 \in 0..(MaxEvents + 1))
      BY <1>0, <1>1 DEF LogIsDense
    <2> QED
      BY <2>1 DEF LogIsDense
  <1>3. \A u \in Writer : written'[u] \in {written[u], written[u] + 1} /\ written[u] \in Nat
    BY EventsAssumption DEF LogIsDense
  <1>4. ~finished => \A u \in Run : written'[u] <= MaxEvents
    <2> SUFFICES ASSUME ~finished, NEW u \in Run
                 PROVE  written'[u] <= MaxEvents
      OBVIOUS
    <2>1. u \in Writer /\ written[u] <= MaxEvents
      BY DEF Writer, LogIsDense
    <2>2. CASE u # w \/ UNCHANGED written
      BY <2>1, <2>2 DEF LogIsDense
    <2>3. CASE u = w /\ written[w] < Quota(w) /\ written' = [written EXCEPT ![w] = @ + 1]
      BY <1>1, <1>3, <2>1, <2>3, EventsAssumption DEF LogIsDense
    <2> QED
      BY <2>2, <2>3
  <1>5. \A u \in Writer :
            /\ writer'[u] \in Appending => index'[u] <= Len(rows) + 1 /\ written'[u] > 0
            /\ writer'[u] = "publishing" => index'[u] <= Len(rows)
    <2> SUFFICES ASSUME NEW u \in Writer
                 PROVE  /\ writer'[u] \in Appending => index'[u] <= Len(rows) + 1 /\ written'[u] > 0
                        /\ writer'[u] = "publishing" => index'[u] <= Len(rows)
      OBVIOUS
    <2>1. CASE u # w
      BY <2>1 DEF LogIsDense
    <2>2. CASE u = w
      BY <1>3, <2>2 DEF LogIsDense
    <2> QED
      BY <2>1, <2>2
  <1>6. ASSUME NEW k \in 1..Len(rows)
        PROVE  LET u == rows[k].by
               IN rows[k].nr <= written'[u] /\ (writer'[u] \in Appending => rows[k].nr < written'[u])
    <2> DEFINE u == rows[k].by
    <2>1. rows[k] \in Event
      BY <1>6, ElementOfSeq DEF LogIsDense
    <2>2. u \in Writer /\ rows[k].nr \in Nat
      BY <2>1, EventsAssumption DEF Event
    <2>3. /\ rows[k].nr <= written[u] /\ (writer[u] \in Appending => rows[k].nr < written[u])
      BY <1>6 DEF LogIsDense
    <2>4. CASE u # w
      BY <2>2, <2>3, <2>4 DEF LogIsDense
    <2>5. CASE u = w
      BY <1>3, <2>2, <2>3, <2>5 DEF LogIsDense
    <2> QED
      BY <2>4, <2>5
  <1>7. /\ index' \in [Writer -> Nat]
        /\ writer' \in [Writer -> Appending \cup {"idle", "publishing"}]
    BY DEF LogIsDense
  <1> QED
    BY <1>2, <1>4, <1>5, <1>6, <1>7 DEF LogIsDense, Reloading, Connected

\* A committed row is appended: its index was free, and is at most one past the end.
LEMMA CommitAppends ==
    ASSUME LogIsDense, NEW w \in Writer, CommitRow(w)
    PROVE  /\ rows' = Append(rows, [by |-> w, nr |-> written[w]])
           /\ [by |-> w, nr |-> written[w]] \in Event
           /\ index[w] = Len(rows) + 1
           /\ \A i \in DOMAIN rows : rows[i] # [by |-> w, nr |-> written[w]]
  <1> DEFINE event == [by |-> w, nr |-> written[w]]
  <1>1. /\ writer[w] \in Appending /\ index[w] > 0 /\ index[w] \notin Index
        /\ rows' = [j \in Index \cup {index[w]} |-> IF j = index[w] THEN event ELSE rows[j]]
    BY DEF CommitRow, Inserting
  <1>2. index[w] \in Nat /\ index[w] <= Len(rows) + 1 /\ rows \in Seq(Event)
    BY <1>1 DEF LogIsDense
  <1>3. index[w] = Len(rows) + 1 /\ Index = 1..Len(rows) /\ Len(rows) \in Nat
    BY <1>1, <1>2, NewestOfLog
  <1>4. event \in Event
    <2>1. written[w] \in 0..(MaxEvents + 1) /\ written[w] > 0
      BY <1>1 DEF LogIsDense
    <2> QED
      BY <2>1, EventsAssumption DEF Event
  <1>5. rows' = Append(rows, event)
    <2>1. Index \cup {index[w]} = 1..(Len(rows) + 1)
      BY <1>3
    <2>2. rows' = [j \in 1..(Len(rows) + 1) |-> IF j = Len(rows) + 1 THEN event ELSE rows[j]]
      BY <1>1, <1>3, <2>1
    <2>3. /\ Append(rows, event) \in Seq(Event) /\ Len(Append(rows, event)) = Len(rows) + 1
          /\ \A j \in 1..Len(rows) : Append(rows, event)[j] = rows[j]
          /\ Append(rows, event)[Len(rows) + 1] = event
      BY <1>2, <1>4, AppendProperties
    <2>4. \A j \in 1..(Len(rows) + 1) : (IF j = Len(rows) + 1 THEN event ELSE rows[j]) \in Event
      BY <1>2, <1>3, <1>4, ElementOfSeq
    <2>5. rows' \in Seq(Event) /\ Len(rows') = Len(rows) + 1
      BY <1>3, <2>2, <2>4, IsASeq
    <2>6. \A j \in 1..Len(rows') : rows'[j] = Append(rows, event)[j]
      BY <1>3, <2>2, <2>3, <2>5
    <2> QED
      BY <2>3, <2>5, <2>6, SeqEqual
  <1>6. ASSUME NEW i \in DOMAIN rows
        PROVE  rows[i] # event
    <2>1. i \in 1..Len(rows)
      BY <1>3 DEF Index
    <2>2. rows[i].by = w => rows[i].nr < written[w]
      BY <1>1, <2>1 DEF LogIsDense
    <2>3. written[w] \in Nat
      BY EventsAssumption DEF LogIsDense
    <2> QED
      BY <2>2, <2>3
  <1> QED
    BY <1>3, <1>4, <1>5, <1>6

LEMMA DenseCommit ==
    ASSUME LogIsDense, NEW w \in Writer, CommitRow(w)
    PROVE  LogIsDense'
  <1> DEFINE event == [by |-> w, nr |-> written[w]]
             to == IF writer[w] = "publish" THEN "publishing" ELSE "idle"
             i == IF writer[w] = "publish" THEN index[w] ELSE 0
  <1>1. /\ rows' = Append(rows, event) /\ event \in Event /\ index[w] = Len(rows) + 1
        /\ writer' = [writer EXCEPT ![w] = to] /\ index' = [index EXCEPT ![w] = i]
        /\ UNCHANGED <<written, finished, pushed, cursor, wire, shown, reload, client, server>>
    BY CommitAppends DEF CommitRow, stream, generator, view
  <1>2. /\ rows \in Seq(Event) /\ rows' \in Seq(Event) /\ Len(rows) \in Nat
        /\ Len(rows') = Len(rows) + 1
        /\ \A j \in 1..Len(rows) : rows'[j] = rows[j]
        /\ rows'[Len(rows) + 1] = event
    BY <1>1, AppendProperties, NewestOfLog DEF LogIsDense
  <1>3. /\ i \in Nat /\ i <= Len(rows) + 1 /\ to \in {"idle", "publishing"}
        /\ to \notin Appending
    BY <1>1, <1>2 DEF Appending
  <1>4. /\ index' \in [Writer -> Nat]
        /\ writer' \in [Writer -> Appending \cup {"idle", "publishing"}]
    BY <1>1, <1>3 DEF LogIsDense
  <1>5. ASSUME NEW u \in Writer
        PROVE  /\ writer'[u] \in Appending => index'[u] <= Len(rows') + 1 /\ written'[u] > 0
               /\ writer'[u] = "publishing" => index'[u] <= Len(rows')
    <2>1. CASE u = w
      BY <1>1, <1>2, <1>3, <2>1 DEF LogIsDense
    <2>2. CASE u # w
      <3>1. writer'[u] = writer[u] /\ index'[u] = index[u] /\ index[u] \in Nat
        BY <1>1, <2>2 DEF LogIsDense
      <3>2. /\ writer[u] \in Appending => index[u] <= Len(rows) + 1 /\ written[u] > 0
            /\ writer[u] = "publishing" => index[u] <= Len(rows)
        BY DEF LogIsDense
      <3> QED
        BY <1>1, <1>2, <3>1, <3>2
    <2> QED
      BY <2>1, <2>2
  <1>6. ASSUME NEW k \in 1..Len(rows')
        PROVE  LET u == rows'[k].by
               IN /\ rows'[k].nr <= written'[u]
                  /\ writer'[u] \in Appending => rows'[k].nr < written'[u]
    <2>1. CASE k = Len(rows) + 1
      <3>1. rows'[k].by = w /\ rows'[k].nr = written[w] /\ written[w] \in Nat
        BY <1>2, <2>1, EventsAssumption DEF LogIsDense
      <3>2. writer'[w] \notin Appending
        BY <1>1, <1>3 DEF LogIsDense
      <3> QED
        BY <1>1, <3>1, <3>2
    <2>2. CASE k \in 1..Len(rows)
      <3> DEFINE u == rows[k].by
      <3>1. rows'[k] = rows[k] /\ rows[k] \in Event
        BY <1>2, <2>2, ElementOfSeq
      <3>2. u \in Writer
        BY <3>1 DEF Event
      <3>3. /\ rows[k].nr <= written[u]
            /\ writer[u] \in Appending => rows[k].nr < written[u]
        BY <2>2 DEF LogIsDense
      <3>4. writer'[u] \in Appending => writer[u] \in Appending
        BY <1>1, <1>3, <3>2 DEF LogIsDense
      <3> QED
        BY <1>1, <3>1, <3>3, <3>4
    <2> QED
      BY <1>2, <2>1, <2>2
  <1>7. pushed' \in Seq(0..Len(rows'))
    <2>1. pushed \in Seq(0..Len(rows)) /\ 0..Len(rows) \subseteq 0..Len(rows')
      BY <1>2 DEF LogIsDense
    <2> QED
      BY <1>1, <2>1, SeqMonotonic
  <1>8. /\ cursor' \in 0..Len(rows') /\ wire' \subseteq 1..Len(rows')
        /\ shown' \subseteq 1..Len(rows') /\ (Reloading' => reload' \subseteq 1..Len(rows'))
        /\ client' = "streaming" <=> Connected'
    <2>1. 1..Len(rows) \subseteq 1..Len(rows')
      BY <1>2
    <2>2. Reloading' <=> Reloading
      BY <1>1 DEF Reloading
    <2>3. cursor \in 0..Len(rows')
      BY <1>2 DEF LogIsDense
    <2> QED
      BY <1>1, <2>1, <2>2, <2>3 DEF LogIsDense, Connected
  <1> QED
    BY <1>1, <1>2, <1>4, <1>5, <1>6, <1>7, <1>8 DEF LogIsDense

\* What is added to the stream is the index of a row, or none.
LEMMA AddsRecorded ==
    ASSUME LogIsDense, NEW i \in 0..Len(rows), Add(i)
    PROVE  pushed' \in Seq(0..Len(rows))
  BY AppendProperties DEF Add, LogIsDense

LEMMA DenseWriters ==
    ASSUME LogIsDense, NEW w \in Writer, WriterStep(w)
    PROVE  LogIsDense'
  <1>1. /\ Newest(Index) = Len(rows) /\ Cardinality(Index) = Len(rows) /\ Len(rows) \in Nat
        /\ pushed \in Seq(0..Len(rows)) /\ index[w] \in Nat
    BY NewestOfLog DEF LogIsDense
  <1>2. CASE BeginEvent(w)
    <2>1. PICK kind \in Appending :
              /\ writer' = [writer EXCEPT ![w] = kind]
              /\ index' = [index EXCEPT ![w] = Len(rows) + 1]
      BY <1>1, <1>2 DEF BeginEvent, Appending
    <2>2. /\ written[w] < Quota(w) /\ written' = [written EXCEPT ![w] = @ + 1]
          /\ UNCHANGED <<rows, finished, pushed, cursor, wire, shown, reload, client, server>>
      BY <1>2 DEF BeginEvent, stream, generator, view
    <2>3. kind # "publishing" /\ kind \in Appending \cup {"idle", "publishing"}
      BY DEF Appending
    <2>4. Len(rows) + 1 \in Nat /\ Len(rows) + 1 <= Len(rows) + 1 /\ pushed' \in Seq(0..Len(rows))
      BY <1>1, <2>2
    <2> QED
      BY <2>1, <2>2, <2>3, <2>4, DenseWriter
  <1>3. CASE ReadMaximum(w)
    <2>1. /\ writer[w] \in Appending /\ writer' = [writer EXCEPT ![w] = writer[w]]
          /\ index' = [index EXCEPT ![w] = Len(rows) + 1] /\ writer[w] # "publishing"
      BY <1>1, <1>3 DEF ReadMaximum, Appending, LogIsDense
    <2>2. UNCHANGED <<rows, finished, pushed, cursor, wire, shown, reload, client, server, written>>
      BY <1>3 DEF ReadMaximum, stream, generator, view
    <2>3. writer[w] \in Appending \cup {"idle", "publishing"}
      BY <2>1
    <2>4. Len(rows) + 1 \in Nat /\ Len(rows) + 1 <= Len(rows) + 1 /\ pushed' \in Seq(0..Len(rows))
      BY <1>1, <2>2
    <2> QED
      BY <2>1, <2>2, <2>3, <2>4, DenseWriter
  <1>4. CASE CommitRow(w)
    BY <1>4, DenseCommit
  <1>5. CASE Collide(w)
    <2>1. PICK to \in {writer[w], "publishing", "idle"} : writer' = [writer EXCEPT ![w] = to]
      BY <1>5 DEF Collide
    <2>2. writer[w] \in Appending /\ index' = [index EXCEPT ![w] = 0]
      BY <1>5 DEF Collide
    <2>3. UNCHANGED <<rows, finished, pushed, cursor, wire, shown, reload, client, server, written>>
      BY <1>5 DEF Collide, stream, generator, view
    <2>4. /\ to \in Appending \cup {"idle", "publishing"} /\ 0 \in Nat
          /\ 0 <= Len(rows) + 1 /\ 0 <= Len(rows) /\ pushed' \in Seq(0..Len(rows))
      BY <1>1, <2>2, <2>3
    <2> QED
      BY <2>1, <2>2, <2>3, <2>4, DenseWriter
  <1>6. CASE Publish(w) \/ PublishFails(w)
    <2>1. /\ writer[w] = "publishing" /\ writer' = [writer EXCEPT ![w] = "idle"]
          /\ index' = [index EXCEPT ![w] = 0]
          /\ UNCHANGED <<rows, finished, cursor, wire, shown, reload, client, server, written>>
      BY <1>6 DEF Publish, PublishFails, generator, view
    <2>2. index[w] \in 0..Len(rows)
      BY <1>1, <2>1 DEF LogIsDense
    <2>3. pushed' \in Seq(0..Len(rows))
      BY <1>1, <1>6, <2>2, AddsRecorded DEF Publish, PublishFails, stream
    <2>4. /\ "idle" \notin Appending /\ "idle" \in Appending \cup {"idle", "publishing"}
          /\ 0 \in Nat /\ 0 <= Len(rows) + 1 /\ 0 <= Len(rows) /\ "idle" # "publishing"
      BY <1>1 DEF Appending
    <2> QED
      BY <2>1, <2>3, <2>4, DenseWriter
  <1> QED
    BY <1>2, <1>3, <1>4, <1>5, <1>6 DEF WriterStep

LEMMA DenseFinish ==
    ASSUME LogIsDense, Finish
    PROVE  LogIsDense'
  <1>1. /\ \A w \in Run : writer[w] = "idle"
        /\ ~finished /\ finished'
        /\ written' = [w \in Writer |-> IF w \in Run THEN MaxEvents ELSE written[w]]
        /\ UNCHANGED <<rows, index, writer, pushed, cursor, wire, shown, reload, client, server>>
    BY DEF Finish, stream, generator, view
  <1>2. MaxEvents \in Nat /\ "idle" \notin Appending
    BY EventsAssumption DEF Appending
  <1>3. written' \in [Writer -> 0..(MaxEvents + 1)]
    BY <1>1, <1>2 DEF LogIsDense
  <1>4. \A w \in Writer : /\ written[w] \in Nat /\ written'[w] \in Nat /\ written[w] <= written'[w]
                          /\ writer[w] \in Appending => written'[w] = written[w]
    BY <1>1, <1>2 DEF LogIsDense, Writer
  <1>5. \A w \in Writer :
            /\ writer'[w] \in Appending => index'[w] <= Len(rows') + 1 /\ written'[w] > 0
            /\ writer'[w] = "publishing" => index'[w] <= Len(rows')
    BY <1>1, <1>4 DEF LogIsDense
  <1>6. ASSUME NEW k \in 1..Len(rows)
        PROVE  LET w == rows[k].by
               IN rows[k].nr <= written'[w] /\ (writer[w] \in Appending => rows[k].nr < written'[w])
    <2> DEFINE w == rows[k].by
    <2>1. rows[k] \in Event
      BY <1>6, ElementOfSeq DEF LogIsDense
    <2>2. w \in Writer /\ rows[k].nr \in Nat
      BY <2>1 DEF Event
    <2>3. rows[k].nr <= written[w] /\ (writer[w] \in Appending => rows[k].nr < written[w])
      BY <1>6 DEF LogIsDense
    <2> QED
      BY <1>4, <2>2, <2>3
  <1> QED
    BY <1>1, <1>3, <1>5, <1>6 DEF LogIsDense, Reloading, Connected

LEMMA DenseServer ==
    ASSUME LogIsDense, ServerStep
    PROVE  LogIsDense'
  <1>1. /\ UNCHANGED <<rows, index, written, writer, finished, client, shown, reload>>
        /\ server # "none" /\ server' # "none"
    BY DEF ServerStep, ListEvents, BeginRead, ReadPushed, ReadNothing, NextRound, writers, view
  <1>2. /\ Len(rows) \in Nat /\ Index = 1..Len(rows) /\ cursor \in 0..Len(rows)
        /\ wire \subseteq 1..Len(rows) /\ pushed \in Seq(0..Len(rows))
        /\ <<>> \in Seq(0..Len(rows))
    BY NewestOfLog, EmptySeq DEF LogIsDense
  <1>3. pushed' \in Seq(0..Len(rows))
    BY <1>2 DEF ServerStep, ListEvents, BeginRead, ReadPushed, ReadNothing, NextRound, stream
  <1>4. cursor' \in 0..Len(rows) /\ wire' \subseteq 1..Len(rows)
    <2>1. CASE ListEvents
      <3> DEFINE new == {i \in Index : i > cursor}
      <3>1. new # {} => Newest(new) \in new
        <4>1. new \subseteq 0..Len(rows)
          BY <1>2
        <4> QED
          BY <1>2, <4>1, NewestIsGreatest
      <3>2. \/ UNCHANGED <<wire, cursor>>
            \/ new # {} /\ wire' = wire \cup new /\ cursor' = Newest(new)
        BY <2>1 DEF ListEvents
      <3>3. new \subseteq 1..Len(rows)
        BY <1>2
      <3> HIDE DEF new
      <3>4. wire' \subseteq 1..Len(rows)
        BY <1>2, <3>2, <3>3
      <3>5. cursor' = cursor \/ cursor' \in 1..Len(rows)
        BY <3>1, <3>2, <3>3
      <3> QED
        BY <1>2, <3>4, <3>5
    <2>2. CASE ReadPushed
      <3>1. /\ Unseen(pushed) \subseteq 1..Len(rows)
            /\ Unseen(pushed) # {} => Newest(Unseen(pushed)) \in 1..Len(rows)
        BY <1>2, UnseenIsNew
      <3>2. /\ wire' = wire \cup Unseen(pushed)
            /\ cursor' = cursor \/ (Unseen(pushed) # {} /\ cursor' = Newest(Unseen(pushed)))
        BY <2>2 DEF ReadPushed
      <3>3. wire' \subseteq 1..Len(rows)
        BY <1>2, <3>1, <3>2
      <3>4. cursor' = cursor \/ cursor' \in 1..Len(rows)
        BY <3>1, <3>2
      <3> QED
        BY <1>2, <3>3, <3>4
    <2>3. CASE BeginRead \/ ReadNothing \/ NextRound
      BY <1>2, <2>3 DEF BeginRead, ReadNothing, NextRound
    <2> QED
      BY <2>1, <2>2, <2>3 DEF ServerStep
  <1> QED
    BY <1>1, <1>3, <1>4, DenseReader DEF LogIsDense, Reloading, Connected

LEMMA DenseClient ==
    ASSUME LogIsDense, ClientStep \/ BeginReload \/ StreamBreaks
    PROVE  LogIsDense'
  <1>1. UNCHANGED <<rows, index, written, writer, finished>>
    BY DEF ClientStep, ListTasks, RefreshEvents, Reload, Receive, StreamEnds, BeginReload,
           StreamBreaks, writers
  <1>2. /\ Len(rows) \in Nat /\ Index = 1..Len(rows) /\ cursor \in 0..Len(rows)
        /\ wire \subseteq 1..Len(rows) /\ shown \subseteq 1..Len(rows)
        /\ pushed \in Seq(0..Len(rows)) /\ <<>> \in Seq(0..Len(rows))
        /\ Newest(Index) = Len(rows) /\ (Reloading => reload \subseteq 1..Len(rows))
        /\ client = "streaming" <=> server # "none"
    BY NewestOfLog, EmptySeq DEF LogIsDense, Connected
  <1>3. CASE ListTasks
    BY <1>1, <1>2, <1>3, DenseReader DEF ListTasks, stream, generator, Reloading
  <1>4. CASE RefreshEvents
    BY <1>1, <1>2, <1>4, DenseReader DEF RefreshEvents, stream, Reloading
  <1>5. CASE Reload
    BY <1>1, <1>2, <1>5, DenseReader DEF Reload, stream, generator, Reloading
  <1>6. CASE Receive
    BY <1>1, <1>2, <1>6, DenseReader DEF Receive, stream, Reloading
  <1>7. CASE StreamEnds \/ StreamBreaks
    <2>1. /\ pushed' = <<>> /\ cursor' = 0 /\ wire' = {} /\ server' = "none"
          /\ client' = "refreshing" /\ UNCHANGED <<shown, reload>>
      BY <1>7 DEF StreamEnds, StreamBreaks, Reset
    <2> QED
      BY <1>1, <1>2, <2>1, DenseReader DEF Reloading
  <1>8. CASE BeginReload
    BY <1>1, <1>2, <1>8, DenseReader DEF BeginReload, stream, generator, Reloading
  <1> QED
    BY <1>3, <1>4, <1>5, <1>6, <1>7, <1>8 DEF ClientStep

LEMMA DenseNext == LogIsDense /\ [Next]_vars => LogIsDense'
  <1> SUFFICES ASSUME LogIsDense, [Next]_vars
               PROVE  LogIsDense'
    OBVIOUS
  <1>1. ASSUME NEW r \in Request, Send(r) \/ FindExisting(r) \/ Insert(r)
        PROVE  LogIsDense'
    BY <1>1, DenseStays DEF Send, FindExisting, Insert, writers, stream, generator, view, watched
  <1>2. ASSUME NEW r \in Request, Created(r)
        PROVE  LogIsDense'
    <2>1. /\ client = "creating" /\ client' = "refreshing"
          /\ UNCHANGED <<rows, index, written, writer, finished, pushed, cursor, wire, shown,
                         reload, server>>
      BY <1>2 DEF Created, writers, stream, generator
    <2> QED
      BY <2>1 DEF LogIsDense, Connected, Reloading
  <1>3. CASE PublishToken
    <2>1. /\ UNCHANGED <<rows, index, written, writer, finished, cursor, wire, shown, reload,
                         client, server>>
          /\ Add(0)
      BY <1>3 DEF PublishToken, writers, generator, view
    <2>2. pushed' \in Seq(0..Len(rows))
      BY <2>1, AddsRecorded, NewestOfLog
    <2> QED
      BY <2>1, <2>2 DEF LogIsDense, Connected, Reloading
  <1>4. CASE UNCHANGED vars
    BY <1>4, DenseStays DEF vars, writers, stream, generator, view, watched
  <1> QED
    BY <1>1, <1>2, <1>3, <1>4, DenseWriters, DenseFinish, DenseServer, DenseClient DEF Next
-----------------------------------------------------------------------------
(* The refinement.                                                         *)

\* What EventLog sees of a step that neither records, sends nor shows.
LEMMA LogStutters ==
    ASSUME UNCHANGED <<rows, cursor, shown>>, Connected' = Connected
    PROVE  UNCHANGED Log!vars
  BY DEF Log!vars

LEMMA LogServer ==
    ASSUME LogIsDense, ServerStep
    PROVE  Log!Send \/ UNCHANGED Log!vars
  <1>1. /\ UNCHANGED <<rows, shown>> /\ Connected /\ Connected'
        /\ cursor \in 0..Len(rows) /\ Len(rows) \in Nat /\ Index = 1..Len(rows)
    BY NewestOfLog
       DEF ServerStep, ListEvents, BeginRead, ReadPushed, ReadNothing, NextRound, writers, view,
           Connected, LogIsDense
  <1>2. cursor' = cursor \/ cursor' \in (cursor + 1)..Len(rows)
    <2>1. CASE ListEvents
      <3> DEFINE new == {i \in Index : i > cursor}
      <3>1. new \subseteq 0..Len(rows) /\ new \subseteq (cursor + 1)..Len(rows)
        BY <1>1
      <3>2. new # {} => Newest(new) \in new
        BY <1>1, <3>1, NewestIsGreatest
      <3>3. cursor' = cursor \/ (new # {} /\ cursor' = Newest(new))
        BY <2>1 DEF ListEvents
      <3> HIDE DEF new
      <3> QED
        BY <3>1, <3>2, <3>3
    <2>2. CASE ReadPushed
      <3>1. cursor' = cursor \/ (Unseen(pushed) # {} /\ cursor' = Newest(Unseen(pushed)))
        BY <2>2 DEF ReadPushed
      <3> QED
        BY <3>1, UnseenIsNew
    <2>3. CASE BeginRead \/ ReadNothing \/ NextRound
      BY <2>3 DEF BeginRead, ReadNothing, NextRound
    <2> QED
      BY <2>1, <2>2, <2>3 DEF ServerStep
  <1>3. CASE cursor' = cursor
    BY <1>1, <1>3, LogStutters
  <1>4. CASE cursor' \in (cursor + 1)..Len(rows)
    BY <1>1, <1>4 DEF Log!Send
  <1> QED
    BY <1>2, <1>3, <1>4

LEMMA LogClient ==
    ASSUME LogIsDense, ClientStep \/ BeginReload \/ StreamBreaks
    PROVE  Log!Connect \/ Log!Disconnect \/ Log!Show \/ UNCHANGED Log!vars
  <1>1. /\ Len(rows) \in Nat /\ Index = 1..Len(rows) /\ Newest(Index) = Len(rows)
        /\ wire \subseteq 1..Len(rows) /\ shown \subseteq 1..Len(rows)
        /\ client = "streaming" <=> server # "none"
        /\ Reloading => reload \subseteq 1..Len(rows)
        /\ UNCHANGED rows
    BY NewestOfLog
       DEF LogIsDense, Connected, ClientStep, ListTasks, RefreshEvents, Reload, Receive,
           StreamEnds, BeginReload, StreamBreaks, writers
  <1>2. CASE ListTasks \/ BeginReload
    BY <1>1, <1>2, LogStutters DEF ListTasks, BeginReload, generator, Connected
  <1>3. CASE RefreshEvents
    <2>1. /\ client \in {"lastList", "activeList"} /\ shown' = 1..Len(rows)
          /\ \/ UNCHANGED <<server, cursor>>
             \/ server' = "list" /\ cursor' = Len(rows)
      BY <1>1, <1>3 DEF RefreshEvents
    <2>2. server = "none"
      BY <1>1, <2>1
    <2>3. CASE UNCHANGED <<server, cursor>>
      BY <1>1, <2>1, <2>3 DEF Log!Show, Connected
    <2>4. CASE server' = "list" /\ cursor' = Len(rows)
      BY <1>1, <2>1, <2>2, <2>4 DEF Log!Connect, Connected
    <2> QED
      BY <2>1, <2>3, <2>4
  <1>4. CASE Reload
    <2>1. shown' = reload /\ UNCHANGED <<server, cursor>> /\ reload \subseteq 1..Len(rows)
      BY <1>1, <1>4 DEF Reload, generator
    <2> QED
      BY <1>1, <2>1 DEF Log!Show, Connected
  <1>5. CASE Receive
    <2>1. PICK i \in wire : shown' = shown \cup {i}
      BY <1>5 DEF Receive
    <2>2. UNCHANGED <<server, cursor>>
      BY <1>5 DEF Receive
    <2> QED
      BY <1>1, <2>1, <2>2 DEF Log!Show, Connected
  <1>6. CASE StreamEnds \/ StreamBreaks
    <2>1. /\ client = "streaming" /\ server' = "none" /\ cursor' = 0 /\ UNCHANGED shown
      BY <1>6 DEF StreamEnds, StreamBreaks, Reset
    <2> QED
      BY <1>1, <2>1 DEF Log!Disconnect, Connected
  <1> QED
    BY <1>2, <1>3, <1>4, <1>5, <1>6 DEF ClientStep

LEMMA LogNext == LogIsDense /\ [Next]_vars => [Log!Next]_Log!vars
  <1> SUFFICES ASSUME LogIsDense, [Next]_vars
               PROVE  Log!Next \/ UNCHANGED Log!vars
    OBVIOUS
  <1>1. ASSUME NEW w \in Writer, CommitRow(w)
        PROVE  Log!Next
    <2>1. UNCHANGED <<cursor, shown>> /\ Connected' = Connected
      BY <1>1 DEF CommitRow, generator, view, Connected
    <2>2. Log!Record([by |-> w, nr |-> written[w]])
      BY <1>1, <2>1, CommitAppends DEF Log!Record
    <2>3. [by |-> w, nr |-> written[w]] \in Event
      BY <1>1, CommitAppends
    <2> QED
      BY <2>2, <2>3 DEF Log!Next
  <1>2. ASSUME NEW w \in Writer, WriterStep(w), ~CommitRow(w)
        PROVE  UNCHANGED Log!vars
    BY <1>2, LogStutters
       DEF WriterStep, BeginEvent, ReadMaximum, Collide, Publish, PublishFails, generator, view,
           Connected
  <1>3. ASSUME NEW r \in Request, Send(r) \/ FindExisting(r) \/ Insert(r) \/ Created(r)
        PROVE  UNCHANGED Log!vars
    BY <1>3, LogStutters
       DEF Send, FindExisting, Insert, Created, writers, generator, view, Connected
  <1>4. CASE PublishToken \/ Finish \/ UNCHANGED vars
    BY <1>4, LogStutters
       DEF PublishToken, Finish, vars, writers, generator, view, Connected
  <1>5. CASE ServerStep
    BY <1>5, LogServer DEF Log!Next
  <1>6. CASE ClientStep \/ BeginReload \/ StreamBreaks
    BY <1>6, LogClient DEF Log!Next
  <1> QED
    BY <1>1, <1>2, <1>3, <1>4, <1>5, <1>6 DEF Next

\* The rows, the Redis stream, the server's loop and the web client implement EventLog:
\* events are recorded without gaps, once and for ever, and a connection's cursor only moves
\* forward over recorded events, which are all that is ever shown (append_event,
\* event_generator, upsertAgentEvent).
THEOREM StreamImplementsLog == Spec => LogSpec
  <1>1. Init => Log!Init
    BY DEF Init, Log!Init, Connected
  <1> QED
    BY <1>1, DenseInit, DenseNext, LogNext, PTL DEF Spec, LogSpec, Log!Spec
-----------------------------------------------------------------------------
(* What is dropped, and what is created twice.                             *)

CountInv == LogIsDense /\ CollisionsCount

LEMMA CountInit == Init => CollisionsCount
  <1> SUFFICES ASSUME Init
               PROVE  CollisionsCount
    OBVIOUS
  <1>1. Len(rows) = 0 /\ \A w \in Writer : tries[w] = 0 /\ seenRows[w] = 0 /\ writer[w] = "idle"
    BY EmptySeq DEF Init
  <1>2. tries \in [Writer -> Nat] /\ seenRows \in [Writer -> Nat]
    BY DEF Init
  <1> QED
    BY <1>1, <1>2 DEF CollisionsCount, Appending

\* A step that is not one of a writer's.
LEMMA CountStays ==
    ASSUME CollisionsCount, UNCHANGED <<rows, writer, index, tries, seenRows>>
    PROVE  CollisionsCount'
  BY DEF CollisionsCount, Inserting

LEMMA CountCommit ==
    ASSUME CountInv, NEW w \in Writer, CommitRow(w)
    PROVE  CollisionsCount'
  <1>1. /\ tries' = [tries EXCEPT ![w] = 0] /\ seenRows' = [seenRows EXCEPT ![w] = 0]
        /\ writer' = [writer EXCEPT ![w] = IF @ = "publish" THEN "publishing" ELSE "idle"]
        /\ index' = [index EXCEPT ![w] = IF writer[w] = "publish" THEN @ ELSE 0]
    BY DEF CommitRow
  <1>2. Len(rows) \in Nat /\ Len(rows') = Len(rows) + 1
    <2>1. PICK e \in Event : rows' = Append(rows, e)
      BY CommitAppends DEF CountInv
    <2>2. rows \in Seq(Event)
      BY DEF CountInv, LogIsDense
    <2> QED
      BY <2>1, <2>2, AppendProperties, LenProperties
  <1>3. tries' \in [Writer -> Nat] /\ seenRows' \in [Writer -> Nat]
    BY <1>1 DEF CountInv, CollisionsCount
  <1>4. ASSUME NEW u \in Writer
        PROVE  /\ tries'[u] + seenRows'[u] <= Len(rows')
               /\ writer'[u] \in Appending /\ index'[u] > 0 => tries'[u] + seenRows'[u] < index'[u]
    <2>1. CASE u = w
      BY <1>1, <1>2, <2>1 DEF CountInv, CollisionsCount, LogIsDense, Appending
    <2>2. CASE u # w
      <3>1. tries'[u] = tries[u] /\ seenRows'[u] = seenRows[u]
        BY <1>1, <2>2 DEF CountInv, CollisionsCount
      <3>2. writer'[u] = writer[u] /\ index'[u] = index[u]
        BY <1>1, <2>2 DEF CountInv, LogIsDense
      <3>3. /\ tries[u] + seenRows[u] <= Len(rows) /\ tries[u] \in Nat /\ seenRows[u] \in Nat
            /\ writer[u] \in Appending /\ index[u] > 0 => tries[u] + seenRows[u] < index[u]
        BY DEF CountInv, CollisionsCount, Inserting
      <3> QED
        BY <1>2, <3>1, <3>2, <3>3
    <2> QED
      BY <2>1, <2>2
  <1> QED
    BY <1>3, <1>4 DEF CollisionsCount, Inserting

\* The other steps of a writer: one that begins, reads the maximum, collides or publishes.
LEMMA CountWriter ==
    ASSUME CountInv, NEW w \in Writer, WriterStep(w), ~CommitRow(w)
    PROVE  CollisionsCount'
  <1>1. /\ Newest(Index) = Len(rows) /\ Cardinality(Index) = Len(rows) /\ Len(rows) \in Nat
        /\ Index = 1..Len(rows)
    BY NewestOfLog DEF CountInv
  <1>2. PICK to, i, n, seen :
            /\ writer' = [writer EXCEPT ![w] = to] /\ index' = [index EXCEPT ![w] = i]
            /\ tries' = [tries EXCEPT ![w] = n] /\ seenRows' = [seenRows EXCEPT ![w] = seen]
            /\ n \in Nat /\ seen \in Nat /\ n + seen <= Len(rows)
            /\ to \in Appending /\ i > 0 => n + seen < i
    <2>0. /\ tries[w] \in Nat /\ seenRows[w] \in Nat /\ tries[w] + seenRows[w] <= Len(rows)
          /\ tries' = tries => tries' = [tries EXCEPT ![w] = tries[w]]
          /\ seenRows' = seenRows => seenRows' = [seenRows EXCEPT ![w] = seenRows[w]]
          /\ writer' = writer => writer' = [writer EXCEPT ![w] = writer[w]]
      BY DEF CountInv, CollisionsCount, LogIsDense
    <2>1. CASE BeginEvent(w)
      <3>1. PICK kind : /\ writer' = [writer EXCEPT ![w] = kind]
                        /\ index' = [index EXCEPT ![w] = Len(rows) + 1]
        BY <1>1, <2>1 DEF BeginEvent
      <3>2. /\ tries' = [tries EXCEPT ![w] = 0]
            /\ seenRows' = [seenRows EXCEPT ![w] = Len(rows)]
        BY <1>1, <2>1 DEF BeginEvent
      <3>3. 0 + Len(rows) <= Len(rows) /\ 0 + Len(rows) < Len(rows) + 1
        BY <1>1
      <3> QED
        BY <1>1, <3>1, <3>2, <3>3
    <2>2. CASE ReadMaximum(w)
      <3>1. /\ index' = [index EXCEPT ![w] = Len(rows) + 1]
            /\ UNCHANGED <<writer, tries, seenRows>>
        BY <1>1, <2>2 DEF ReadMaximum
      <3>2. tries[w] + seenRows[w] < Len(rows) + 1
        BY <1>1, <2>0
      <3> QED
        BY <2>0, <3>1, <3>2
    <2>3. CASE Collide(w)
      <3>1. PICK to : writer' = [writer EXCEPT ![w] = to]
        BY <2>3 DEF Collide
      <3>2. /\ index' = [index EXCEPT ![w] = 0] /\ tries' = [tries EXCEPT ![w] = tries[w] + 1]
            /\ UNCHANGED seenRows /\ index[w] \in Index
            /\ writer[w] \in Appending /\ Inserting(w)
        BY <2>3 DEF Collide
      <3>3. index[w] \in Nat /\ index[w] <= Len(rows) /\ tries[w] + seenRows[w] < index[w]
        BY <1>1, <3>2 DEF CountInv, CollisionsCount
      <3>4. tries[w] + 1 \in Nat /\ (tries[w] + 1) + seenRows[w] <= Len(rows)
        BY <1>1, <2>0, <3>3
      <3>5. seenRows' = [seenRows EXCEPT ![w] = seenRows[w]]
        BY <2>0, <3>2
      <3>6. ~(0 > 0)
        OBVIOUS
      <3> DEFINE n == tries[w] + 1
                 seen == seenRows[w]
      <3>7. n \in Nat /\ seen \in Nat /\ n + seen <= Len(rows)
        BY <2>0, <3>4
      <3>8. /\ index' = [index EXCEPT ![w] = 0] /\ tries' = [tries EXCEPT ![w] = n]
            /\ seenRows' = [seenRows EXCEPT ![w] = seen]
        BY <3>2, <3>5
      <3> HIDE DEF n, seen
      <3> QED
        BY <3>1, <3>6, <3>7, <3>8
    <2>4. CASE Publish(w) \/ PublishFails(w)
      <3>1. /\ writer' = [writer EXCEPT ![w] = "idle"] /\ index' = [index EXCEPT ![w] = 0]
            /\ UNCHANGED <<tries, seenRows>>
        BY <2>4 DEF Publish, PublishFails
      <3>2. ~(0 > 0)
        OBVIOUS
      <3> DEFINE n == tries[w]
                 seen == seenRows[w]
      <3>3. /\ tries' = [tries EXCEPT ![w] = n] /\ seenRows' = [seenRows EXCEPT ![w] = seen]
            /\ n \in Nat /\ seen \in Nat /\ n + seen <= Len(rows)
        BY <2>0, <3>1
      <3> HIDE DEF n, seen
      <3> QED
        BY <3>1, <3>2, <3>3
    <2> QED
      BY <2>1, <2>2, <2>3, <2>4 DEF WriterStep
  <1>3. UNCHANGED rows
    BY DEF WriterStep, BeginEvent, ReadMaximum, Collide, Publish, PublishFails
  <1>4. tries' \in [Writer -> Nat] /\ seenRows' \in [Writer -> Nat]
    BY <1>2 DEF CountInv, CollisionsCount
  <1>5. ASSUME NEW u \in Writer
        PROVE  /\ tries'[u] + seenRows'[u] <= Len(rows)
               /\ writer'[u] \in Appending /\ index'[u] > 0 => tries'[u] + seenRows'[u] < index'[u]
    <2>1. CASE u = w
      BY <1>2, <2>1 DEF CountInv, CollisionsCount, LogIsDense
    <2>2. CASE u # w
      <3>1. tries'[u] = tries[u] /\ seenRows'[u] = seenRows[u]
        BY <1>2, <2>2 DEF CountInv, CollisionsCount
      <3>2. writer'[u] = writer[u] /\ index'[u] = index[u]
        BY <1>2, <2>2 DEF CountInv, LogIsDense
      <3> QED
        BY <3>1, <3>2 DEF CountInv, CollisionsCount, Inserting
    <2> QED
      BY <2>1, <2>2
  <1> QED
    BY <1>3, <1>4, <1>5 DEF CollisionsCount, Inserting

LEMMA CountNext == CountInv /\ [Next]_vars => CollisionsCount'
  <1> SUFFICES ASSUME CountInv, [Next]_vars
               PROVE  CollisionsCount'
    OBVIOUS
  <1>1. ASSUME NEW w \in Writer, WriterStep(w)
        PROVE  CollisionsCount'
    BY <1>1, CountCommit, CountWriter
  <1>2. ASSUME ~(\E w \in Writer : WriterStep(w))
        PROVE  UNCHANGED <<rows, writer, index, tries, seenRows>>
    BY <1>2 DEF Next, Send, FindExisting, Insert, Created, PublishToken, Finish, ServerStep,
       ListEvents, BeginRead, ReadPushed, ReadNothing, NextRound, ClientStep, ListTasks,
       RefreshEvents, Reload, Receive, StreamEnds, BeginReload, StreamBreaks, writers, vars
  <1> QED
    BY <1>1, <1>2, CountStays DEF CountInv

\* An event is dropped, after MaxTries collisions, only if as many others were recorded
\* since its append began, also when its index was given by the caller (append_event).
THEOREM LostIfOvertaken == Spec => []LostOnlyIfOvertaken
  <1>1. CountInv => LostOnlyIfOvertaken
    <2> SUFFICES ASSUME CountInv, NEW w \in Writer
                 PROVE  tries[w] <= Cardinality(Index) - seenRows[w]
      BY DEF LostOnlyIfOvertaken
    <2>1. Cardinality(Index) = Len(rows) /\ Len(rows) \in Nat
      BY NewestOfLog DEF CountInv
    <2>2. tries[w] \in Nat /\ seenRows[w] \in Nat /\ tries[w] + seenRows[w] <= Len(rows)
      BY DEF CountInv, CollisionsCount
    <2> QED
      BY <2>1, <2>2
  <1>2. Init => CountInv
    BY DenseInit, CountInit DEF CountInv
  <1>3. CountInv /\ [Next]_vars => CountInv'
    BY DenseNext, CountNext DEF CountInv
  <1> QED
    BY <1>1, <1>2, <1>3, PTL DEF Spec
-----------------------------------------------------------------------------
(* One task.                                                               *)

\* A create request and its one retry, with the same idempotency key, make one task however
\* they interleave: the unique key turns the second insert into an answer (create_task).
THEOREM OneTask == Spec => []RetryMakesOneTask
  <1> DEFINE Inv == tasks \in 0..1
  <1>1. Init => Inv
    BY DEF Init
  <1>2. ASSUME Inv, [Next]_vars
        PROVE  Inv'
    <2>1. CASE \E r \in Request : Insert(r)
      BY <1>2, <2>1 DEF Insert
    <2>2. CASE ~\E r \in Request : Insert(r)
      <3>1. UNCHANGED tasks
        BY <1>2, <2>2 DEF Next, Send, FindExisting, Created, WriterStep, BeginEvent, ReadMaximum,
           CommitRow, Collide, Publish, PublishFails, PublishToken, Finish, ServerStep,
           ListEvents, BeginRead, ReadPushed, ReadNothing, NextRound, ClientStep, ListTasks,
           RefreshEvents, Reload, Receive, StreamEnds, BeginReload, StreamBreaks, creation, vars
      <3> QED
        BY <1>2, <3>1
    <2> QED
      BY <2>1, <2>2
  <1>3. Inv => RetryMakesOneTask
    BY DEF RetryMakesOneTask
  <1> QED
    BY <1>1, <1>2, <1>3, PTL DEF Spec
-----------------------------------------------------------------------------
(* Types.                                                                  *)

CreationTyped ==
    tasks \in Nat /\ request \in [Request -> {"unsent", "received", "inserting", "answered"}]

LEMMA CreationNext == CreationTyped /\ [Next]_vars => CreationTyped'
  <1> SUFFICES ASSUME CreationTyped, [Next]_vars
               PROVE  CreationTyped'
    OBVIOUS
  <1> USE DEF CreationTyped
  <1>1. ASSUME NEW r \in Request, Send(r) \/ FindExisting(r) \/ Insert(r)
        PROVE  CreationTyped'
    BY <1>1 DEF Send, FindExisting, Insert
  <1>2. ASSUME \A r \in Request : ~Send(r) /\ ~FindExisting(r) /\ ~Insert(r)
        PROVE  UNCHANGED creation
    BY <1>2 DEF Next, Created, WriterStep, BeginEvent, ReadMaximum,
       CommitRow, Collide, Publish, PublishFails, PublishToken, Finish, ServerStep,
       ListEvents, BeginRead, ReadPushed, ReadNothing, NextRound, ClientStep, ListTasks,
       RefreshEvents, Reload, Receive, StreamEnds, BeginReload, StreamBreaks, vars
  <1> QED
    BY <1>1, <1>2 DEF creation

AttemptsTyped == /\ tries \in [Writer -> 0..MaxTries] /\ AttemptsAreLeft
                 /\ finished \in BOOLEAN /\ early \subseteq Index

\* An attempt that collides for the last time ends the append.
LEMMA AttemptsNext == LogIsDense /\ AttemptsTyped /\ [Next]_vars => AttemptsTyped'
  <1> SUFFICES ASSUME LogIsDense, AttemptsTyped, [Next]_vars
               PROVE  AttemptsTyped'
    OBVIOUS
  <1>0. /\ MaxTries \in Nat /\ MaxTries > 0 /\ "idle" \notin Appending /\ "publishing" \notin Appending
        /\ writer \in [Writer -> Appending \cup {"idle", "publishing"}]
        /\ tries \in [Writer -> 0..MaxTries]
        /\ \A w \in Writer : writer[w] \in Appending => tries[w] < MaxTries
    BY EventsAssumption DEF Appending, LogIsDense, AttemptsTyped, AttemptsAreLeft
  \* A step of one writer, by where it goes and how often it has collided.
  <1>1. ASSUME NEW w \in Writer, NEW to, writer' = [writer EXCEPT ![w] = to],
               NEW n \in 0..MaxTries, tries' = [tries EXCEPT ![w] = n],
               to \in Appending => n < MaxTries
        PROVE  tries' \in [Writer -> 0..MaxTries] /\ AttemptsAreLeft'
    BY <1>0, <1>1 DEF AttemptsAreLeft
  <1>2. CASE \E w \in Writer : CommitRow(w)
    <2>1. PICK w \in Writer : CommitRow(w)
      BY <1>2
    <2>2. PICK to \in {"publishing", "idle"} : writer' = [writer EXCEPT ![w] = to]
      BY <2>1 DEF CommitRow
    <2>3. tries' = [tries EXCEPT ![w] = 0] /\ 0 \in 0..MaxTries
      BY <1>0, <2>1 DEF CommitRow
    <2>4. tries' \in [Writer -> 0..MaxTries] /\ AttemptsAreLeft'
      BY <1>0, <1>1, <2>2, <2>3
    <2>5. DOMAIN rows' = Index \cup {index[w]} /\ early' \subseteq early \cup {index[w]}
          /\ finished' = finished
      BY <2>1 DEF CommitRow
    <2> QED
      BY <2>4, <2>5 DEF AttemptsTyped, Index
  <1>3. ASSUME NEW w \in Writer, WriterStep(w), ~CommitRow(w)
        PROVE  AttemptsTyped'
    <2>1. UNCHANGED <<rows, finished, early>>
      BY <1>3 DEF WriterStep, BeginEvent, ReadMaximum, Collide, Publish, PublishFails
    <2>2. tries' \in [Writer -> 0..MaxTries] /\ AttemptsAreLeft'
      <3>1. CASE BeginEvent(w)
        <4>1. PICK kind : writer' = [writer EXCEPT ![w] = kind]
          BY <3>1 DEF BeginEvent
        <4>2. tries' = [tries EXCEPT ![w] = 0] /\ 0 \in 0..MaxTries
          BY <1>0, <3>1 DEF BeginEvent
        <4> QED
          BY <1>0, <1>1, <4>1, <4>2
      <3>2. CASE ReadMaximum(w)
        BY <1>0, <3>2 DEF ReadMaximum, AttemptsAreLeft
      <3>3. CASE Collide(w)
        <4>1. /\ writer[w] \in Appending /\ tries' = [tries EXCEPT ![w] = tries[w] + 1]
              /\ tries[w] + 1 \in 0..MaxTries
          BY <1>0, <3>3 DEF Collide
        <4>2. PICK to : /\ writer' = [writer EXCEPT ![w] = to]
                        /\ tries[w] + 1 < MaxTries \/ to \in {"publishing", "idle"}
          BY <3>3 DEF Collide
        <4> QED
          BY <1>0, <1>1, <4>1, <4>2
      <3>4. CASE Publish(w) \/ PublishFails(w)
        <4>1. writer' = [writer EXCEPT ![w] = "idle"] /\ UNCHANGED tries
          BY <3>4 DEF Publish, PublishFails
        <4> QED
          BY <1>0, <4>1 DEF AttemptsAreLeft
      <3> QED
        BY <1>3, <3>1, <3>2, <3>3, <3>4 DEF WriterStep
    <2> QED
      BY <2>1, <2>2 DEF AttemptsTyped, Index
  <1>4. ASSUME ~\E w \in Writer : WriterStep(w)
        PROVE  UNCHANGED <<rows, writer, tries, early>> /\ finished' \in {finished, TRUE}
    BY <1>4 DEF Next, Send, FindExisting, Insert, Created, PublishToken, Finish, ServerStep,
       ListEvents, BeginRead, ReadPushed, ReadNothing, NextRound, ClientStep, ListTasks,
       RefreshEvents, Reload, Receive, StreamEnds, BeginReload, StreamBreaks, writers, vars
  <1>5. CASE ~\E w \in Writer : WriterStep(w)
    BY <1>4, <1>5 DEF AttemptsTyped, AttemptsAreLeft, Index
  <1> QED
    BY <1>2, <1>3, <1>5

StreamTyped ==
    /\ client \in {"creating", "refreshing", "lastList", "activeList", "streaming", "done"}
    /\ server \in {"none", "list", "sent", "read", "blocked", "silent", "ended"}
    /\ position \in {"$", "call", "id"} /\ tokens \in 0..MaxTokens
    /\ idle \in 0..MaxIdle /\ RoundsAreLeft /\ cuts \in 0..MaxCuts

\* The loop ends with its last idle round, and a new connection starts to count anew.
LEMMA StreamNext == LogIsDense /\ StreamTyped /\ [Next]_vars => StreamTyped'
  <1> SUFFICES ASSUME LogIsDense, StreamTyped, [Next]_vars
               PROVE  StreamTyped'
    OBVIOUS
  <1>0. /\ MaxIdle \in Nat /\ MaxIdle > 0 /\ MaxTokens \in Nat /\ MaxCuts \in Nat
        /\ client = "streaming" <=> server # "none"
    BY EventsAssumption DEF LogIsDense, Connected
  <1> USE DEF StreamTyped, RoundsAreLeft
  <1>1. CASE UNCHANGED <<client, server, position, tokens, idle, cuts>>
    BY <1>1
  <1>2. ASSUME NEW r \in Request, Send(r) \/ FindExisting(r) \/ Insert(r) \/ Created(r)
        PROVE  StreamTyped'
    BY <1>1, <1>2 DEF Send, FindExisting, Insert, Created, stream, generator, view
  <1>3. ASSUME NEW w \in Writer, WriterStep(w)
        PROVE  StreamTyped'
    BY <1>1, <1>3 DEF WriterStep, BeginEvent, ReadMaximum, CommitRow, Collide, Publish,
                      PublishFails, stream, generator, view
  <1>4. CASE PublishToken \/ Finish
    BY <1>0, <1>4 DEF PublishToken, Finish, stream, generator, view
  <1>5. CASE ServerStep
    <2>1. CASE ListEvents
      BY <1>0, <2>1 DEF ListEvents, stream, view
    <2>2. CASE BeginRead \/ ReadPushed \/ ReadNothing \/ NextRound
      BY <1>0, <2>2 DEF BeginRead, ReadPushed, ReadNothing, NextRound, stream, view
    <2> QED
      BY <1>5, <2>1, <2>2 DEF ServerStep
  <1>6. CASE ClientStep \/ BeginReload \/ StreamBreaks
    <2>1. CASE RefreshEvents
      BY <1>0, <2>1 DEF RefreshEvents, stream
    <2>2. CASE ListTasks \/ Reload \/ Receive \/ StreamEnds \/ BeginReload \/ StreamBreaks
      BY <1>0, <2>2 DEF ListTasks, Reload, Receive, StreamEnds, BeginReload, StreamBreaks, Reset,
                        stream, generator
    <2> QED
      BY <1>6, <2>1, <2>2 DEF ClientStep
  <1>7. CASE UNCHANGED vars
    BY <1>1, <1>7 DEF vars, stream, generator, view
  <1> QED
    BY <1>2, <1>3, <1>4, <1>5, <1>6, <1>7 DEF Next

\* Every variable keeps its type: no append tries more than MaxTries times, the loop counts no
\* more than MaxIdle idle rounds, and only recorded indices are early, sent or shown.
THEOREM EventsTypeCorrect == Spec => []TypeOK
  <1> DEFINE Inv == CountInv /\ CreationTyped /\ AttemptsTyped /\ StreamTyped
  <1>1. Init => Inv
    <2> SUFFICES ASSUME Init
                 PROVE  CreationTyped /\ AttemptsTyped /\ StreamTyped
      BY DenseInit, CountInit DEF CountInv
    <2>1. /\ MaxTries \in Nat /\ MaxTries > 0 /\ MaxIdle \in Nat /\ MaxTokens \in Nat
          /\ MaxCuts \in Nat
      BY EventsAssumption
    <2>2. CreationTyped
      BY DEF Init, CreationTyped
    <2>3. AttemptsTyped
      <3>1. tries \in [Writer -> 0..MaxTries] /\ \A w \in Writer : writer[w] \notin Appending
        BY <2>1 DEF Init, Appending
      <3>2. finished \in BOOLEAN /\ early \subseteq Index
        BY DEF Init
      <3> QED
        BY <3>1, <3>2 DEF AttemptsTyped, AttemptsAreLeft
    <2>4. StreamTyped
      BY <2>1 DEF Init, StreamTyped, RoundsAreLeft
    <2> QED
      BY <2>2, <2>3, <2>4
  <1>2. Inv /\ [Next]_vars => Inv'
    BY DenseNext, CountNext, CreationNext, AttemptsNext, StreamNext DEF CountInv
  <1>3. Inv => TypeOK
    <2> SUFFICES ASSUME Inv
                 PROVE  TypeOK
      OBVIOUS
    <2>1. /\ Index = 1..Len(rows) /\ Len(rows) \in Nat
          /\ \A i \in Index : rows[i] \in Event
      BY NewestOfLog, ElementOfSeq DEF CountInv, LogIsDense
    <2>2. pushed \in Seq(Nat) /\ cursor \in Nat
      <3>1. 0..Len(rows) \subseteq Nat
        BY <2>1
      <3> QED
        BY <3>1, SeqMonotonic DEF CountInv, LogIsDense
    <2> QED
      BY <2>1, <2>2 DEF TypeOK, CountInv, LogIsDense, CollisionsCount, CreationTyped, AttemptsTyped,
                        StreamTyped
  <1> QED
    BY <1>1, <1>2, <1>3, PTL DEF Spec
=============================================================================
