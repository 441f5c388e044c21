----------------------------- MODULE Answering -----------------------------
(***************************************************************************)
(* Questions put to one conversation at the same time: each request folds  *)
(* old messages into the conversation's summary, stores its question,      *)
(* refreshes the process's keyword index, retrieves, generates and stores  *)
(* its answer (rag_service.run_rag_answer); a streamed request does so in  *)
(* a thread that fills a bounded queue, which the response drains          *)
(* (stream_rag_answer).                                                    *)
(*                                                                         *)
(* The texts are left out.  A message is its id, the corpus is the number  *)
(* of its version: count and maximum id of the chunks differ between any   *)
(* two versions, because ids only grow.                                    *)
(***************************************************************************)
EXTENDS Integers, Sequences, FiniteSets

CONSTANTS Request,
          Streamed(_),   \* the request came to /rag/answer/stream
          History,       \* RAG_HISTORY_MESSAGES
          Threshold,     \* RAG_COMPACTION_THRESHOLD
          QueueSize,     \* bound: events the queue holds; 100 in the code
          MaxTokens,     \* bound: tokens of one answer
          MaxVersions,   \* bound: versions of the corpus
          FirstMessages  \* bound: messages the conversation has at first

ASSUME AnsweringAssumption ==
    /\ IsFiniteSet(Request) /\ {History, MaxTokens, FirstMessages} \subseteq Nat
    /\ Threshold \in Nat /\ Threshold >= History + 2     \* config.py takes the maximum
    /\ {QueueSize, MaxVersions} \subseteq Nat \ {0}

VARIABLES
    \* the conversation's rows
    exists,      \* it has not been deleted
    messages,    \* ids handed out so far: the messages are 1..messages
    summary,     \* history: the ids folded into the summary
    until,       \* summary_until_message_id
    \* the chunks and the keyword index of the process
    corpus,      \* version of the chunks in the database
    index,       \* version the published index was built from; 0: none
    \* the requests
    pc,
    view,        \* [Request -> the summary and checkpoint its session holds]
    built,       \* [Request -> version its build of the index has read; 0: no build]
    floor,       \* history: [Request -> the oldest version it may be served]
    tokens,      \* [Request -> tokens generated]
    \* the streams
    queue,       \* [Request -> events]
    client       \* [Request -> "none", "reading", "left" or "served"]

rows == <<exists, messages, summary, until>>
indexes == <<corpus, index, built, floor>>
streams == <<queue, client>>
vars == <<rows, indexes, pc, view, tokens, streams>>
-----------------------------------------------------------------------------
Event == {"token", "final", "error", "done"}
Place == {"new", "context", "question", "ensure", "build", "search", "generate", "answer",
          "final", "error", "done", "ended"}
NoView == [compacts |-> FALSE, folded |-> {}, until |-> 0]  \* nothing read yet
MessageId == 1..(FirstMessages + 2 * Cardinality(Request))

RowsTyped ==
    /\ exists \in BOOLEAN /\ messages \in 0..(FirstMessages + 2 * Cardinality(Request))
    /\ summary \subseteq MessageId /\ until \in 0..messages

IndexTyped ==
    /\ corpus \in 1..MaxVersions /\ index \in 0..corpus
    /\ built \in [Request -> 0..corpus] /\ floor \in [Request -> 0..corpus]

RequestsTyped ==
    /\ pc \in [Request -> Place] /\ tokens \in [Request -> 0..MaxTokens]
    /\ view \in [Request -> [compacts : BOOLEAN, folded : SUBSET MessageId,
                             until : {0} \cup MessageId]]

StreamsTyped ==
    /\ queue \in [Request -> Seq(Event)] /\ \A r \in Request : Len(queue[r]) <= QueueSize
    /\ client \in [Request -> {"none", "reading", "left", "served"}]

TypeOK == RowsTyped /\ IndexTyped /\ RequestsTyped /\ StreamsTyped

Init ==
    /\ exists = TRUE /\ messages = FirstMessages /\ summary = {} /\ until = 0
    /\ corpus = 1 /\ index = 0
    /\ pc = [r \in Request |-> "new"]
    /\ view = [r \in Request |-> NoView]
    /\ built = [r \in Request |-> 0] /\ floor = [r \in Request |-> 0]
    /\ tokens = [r \in Request |-> 0]
    /\ queue = [r \in Request |-> <<>>]
    /\ client = [r \in Request |-> IF Streamed(r) THEN "reading" ELSE "none"]

Goto(r, to) == pc' = [pc EXCEPT ![r] = to]
Move(r, from, to) == pc[r] = from /\ Goto(r, to)

\* An exception: a plain request answers with it, a streamed one emits it.
Raise(r) == Goto(r, IF Streamed(r) THEN "error" ELSE "ended")
-----------------------------------------------------------------------------
(* The conversation: build_conversation_context and the two messages.      *)

\* The messages to fold when n are uncompressed: all but the recent ones once there
\* are many; one, if they are few but long.
FoldCount(n, long) ==
    IF n >= Threshold \/ long
    THEN IF n > History THEN n - History ELSE IF long /\ n > 0 THEN 1 ELSE 0
    ELSE 0

\* Whether the text of the uncompressed messages exceeds the token budget.
Long == BOOLEAN

\* The messages whose notes are merged into the summary.
Folding(from, count) == (from + 1)..(from + count)

\* Where the summary ends: after the last folded message.
CheckpointAtEnd(from, n, count) == from + n   \* as if all were folded
Checkpoint(from, n, count) == from + count

\* The request is refused (user, conversation, scope, membership, document), or the row
\* of its conversation is loaded.
LoadConversation(r) ==
    /\ pc[r] = "new"
    /\ \/ Raise(r) /\ UNCHANGED view
       \/ /\ exists /\ Goto(r, "context")
          /\ view' = [view EXCEPT ![r] =
                          [compacts |-> FALSE, folded |-> summary, until |-> until]]
    /\ UNCHANGED <<rows, indexes, tokens, streams>>

\* The messages after the checkpoint of that row are read and the oldest are folded,
\* in the session only.
ReadMessages(r) ==
    /\ Move(r, "context", "question")
    /\ \E long \in Long :
          LET from == view[r].until
              n == messages - from
              count == FoldCount(n, long)
          IN view' = [view EXCEPT ![r] =
                 [compacts |-> count > 0,
                  folded |-> @.folded \cup Folding(from, count),
                  until |-> IF count > 0 THEN Checkpoint(from, n, count) ELSE from]]
    /\ UNCHANGED <<rows, indexes, tokens, streams>>

\* One transaction stores the question and, if the request compacts, the summary with
\* its checkpoint: the last to commit wins, with both columns.  The row is always
\* updated, so a deleted conversation raises.
PersistQuestion(r) ==
    /\ pc[r] = "question"
    /\ IF exists
       THEN /\ Goto(r, "ensure")
            /\ messages' = messages + 1
            /\ IF view[r].compacts
               THEN summary' = view[r].folded /\ until' = view[r].until
               ELSE UNCHANGED <<summary, until>>
       ELSE Raise(r) /\ UNCHANGED <<messages, summary, until>>
    /\ view' = [view EXCEPT ![r] = NoView]
    /\ UNCHANGED <<exists, indexes, tokens, streams>>

\* The answer is stored, or the conversation is gone.
PersistAnswer(r) ==
    /\ pc[r] = "answer"
    /\ IF exists THEN messages' = messages + 1 /\ Goto(r, IF Streamed(r) THEN "final" ELSE "ended")
                 ELSE Raise(r) /\ UNCHANGED messages
    /\ UNCHANGED <<exists, summary, until, indexes, view, tokens, streams>>

\* DELETE /conversations/{id}
DeleteConversation ==
    /\ exists /\ exists' = FALSE
    /\ UNCHANGED <<messages, summary, until, indexes, pc, view, tokens, streams>>
-----------------------------------------------------------------------------
(* Retrieval: Embedder.ensure_bm25, build_bm25 and search.                 *)

\* External: a worker indexes a document, and its chunks are replaced.
ReplaceChunks ==
    /\ corpus < MaxVersions /\ corpus' = corpus + 1
    /\ UNCHANGED <<rows, index, built, floor, pc, view, tokens, streams>>

\* The versions that requests are building an index of.
Builds == {built[b] : b \in Request} \ {0}

\* History of a request: the oldest version it may be served.
Oldest(versions) == {v \in versions : \A u \in versions : v <= u}

\* Whether the published index may be searched: its fingerprint is the corpus's.
AnyIndex == index # 0             \* as if the fingerprint were not compared
IsCurrent == index = corpus

\* Compare the fingerprints; on a difference read the chunks.  No index is wanted
\* with a keyword weight of zero, and a failure sets it to zero.
EnsureIndex(r) ==
    /\ pc[r] = "ensure"
    /\ \/ /\ IsCurrent /\ Goto(r, "search") /\ UNCHANGED built
          /\ \E v \in Oldest(Builds \cup {corpus}) : floor' = [floor EXCEPT ![r] = v]
       \/ /\ ~IsCurrent /\ Goto(r, "build")
          /\ built' = [built EXCEPT ![r] = corpus]
          /\ \E v \in Oldest(Builds \cup {corpus}) : floor' = [floor EXCEPT ![r] = v]
       \/ Goto(r, "search") /\ UNCHANGED <<built, floor>>
    /\ UNCHANGED <<rows, corpus, index, view, tokens, streams>>

\* The built index replaces whatever another request published meanwhile.
PublishIndex(r) ==
    /\ Move(r, "build", "search")
    /\ index' = built[r] /\ built' = [built EXCEPT ![r] = 0]
    /\ UNCHANGED <<rows, corpus, floor, view, tokens, streams>>

\* What the two searches come back with.  Which chunks, their scores and their order are
\* left out.
KeywordHits == IF index = 0 THEN {FALSE} ELSE BOOLEAN
VectorHits == {"some", "none", "failed"}

\* The fused ranking, or no result at all when the vector store fails without an index.
Fused(keyword, vector) ==
    IF vector = "failed" /\ index = 0 THEN {}
    ELSE {keyword \/ vector = "some"}

\* Whether the neighbouring chunks can be read, which is tried only for hits.
Widened(found) == IF found THEN BOOLEAN ELSE {TRUE}

\* Evidence is made of hits that have text and fit.
Evidence(found) == IF found THEN BOOLEAN ELSE {FALSE}

Search(r) ==
    /\ pc[r] = "search"
    /\ \E keyword \in KeywordHits, vector \in VectorHits :
          \/ Fused(keyword, vector) = {} /\ Raise(r)
          \/ \E found \in Fused(keyword, vector) :
                \/ FALSE \in Widened(found) /\ Raise(r)
                \/ \E some \in Evidence(found) : Goto(r, IF some THEN "generate" ELSE "answer")
    /\ floor' = [floor EXCEPT ![r] = 0]
    /\ UNCHANGED <<rows, corpus, index, built, view, tokens, streams>>
-----------------------------------------------------------------------------
(* Generation and the stream.                                              *)

OneTooMany(r) == Len(queue[r]) <= QueueSize
HasRoom(r) == Len(queue[r]) < QueueSize
Stopped(r) == client[r] \in {"left", "served"}
Put(r, event) == queue' = [queue EXCEPT ![r] = Append(@, event)]

\* The model produces a token, which a stream emits: while the queue is full the
\* producer looks every half second whether the client has left.
Token(r) ==
    /\ pc[r] = "generate" /\ tokens[r] < MaxTokens
    /\ tokens' = [tokens EXCEPT ![r] = @ + 1]
    /\ IF Streamed(r) THEN ~Stopped(r) /\ HasRoom(r) /\ Put(r, "token") ELSE UNCHANGED queue
    /\ UNCHANGED <<rows, indexes, pc, view, client>>

\* The answer is complete; if the model failed, or cites no source it was given, the
\* retrieved text is the answer.
Generated(r) ==
    /\ Move(r, "generate", "answer")
    /\ UNCHANGED <<rows, indexes, view, tokens, streams>>

\* The client has left: _ClientDisconnected is raised inside _generate_answer, which
\* takes every exception for a failure of the model, so that the retrieved text is
\* stored for a client that is gone.
Abandoned(r) ==
    /\ Streamed(r) /\ Stopped(r) /\ tokens[r] < MaxTokens
    /\ Move(r, "generate", "answer")
    /\ UNCHANGED <<rows, indexes, view, tokens, streams>>

\* What the thread does after its last event.
NoDoneAfterError(r, event) == IF event = "final" THEN "done" ELSE "ended"
AfterLast(r, event) == IF event = "done" THEN "ended" ELSE "done"

\* The result, the error and at last "done", each only while the client is there.
Emit(r, event) ==
    /\ Move(r, event, AfterLast(r, event))
    /\ IF Stopped(r) THEN UNCHANGED queue ELSE HasRoom(r) /\ Put(r, event)
    /\ UNCHANGED <<rows, indexes, view, tokens, client>>

\* The response sends the next event, and ends after "done".
Take(r) ==
    /\ client[r] = "reading" /\ queue[r] # <<>>
    /\ client' = [client EXCEPT ![r] = IF Head(queue[r]) = "done" THEN "served" ELSE @]
    /\ queue' = [queue EXCEPT ![r] = Tail(@)]
    /\ UNCHANGED <<rows, indexes, pc, view, tokens>>

\* External: the connection is closed, and with it the generator.
Leave(r) ==
    /\ client[r] = "reading"
    /\ client' = [client EXCEPT ![r] = "left"] /\ queue' = [queue EXCEPT ![r] = <<>>]
    /\ UNCHANGED <<rows, indexes, pc, view, tokens>>

Step(r) ==
    \/ LoadConversation(r) \/ ReadMessages(r) \/ PersistQuestion(r) \/ PersistAnswer(r)
    \/ EnsureIndex(r) \/ PublishIndex(r) \/ Search(r)
    \/ Token(r) \/ Generated(r) \/ Abandoned(r)
    \/ \E event \in {"final", "error", "done"} : Emit(r, event)

Next ==
    \/ \E r \in Request : Step(r) \/ Take(r) \/ Leave(r)
    \/ DeleteConversation \/ ReplaceChunks

Spec == Init /\ [][Next]_vars

\* A request's thread runs on, and a response is drained: of the client nothing is
\* assumed, it may leave or stay.
FairSpec == Spec /\ \A r \in Request : WF_vars(Step(r)) /\ WF_vars(Take(r))
-----------------------------------------------------------------------------
\* However requests overtake each other between reading the conversation and writing
\* it, each message is either folded into the stored summary or after the stored
\* checkpoint, and none is folded that lies after it (build_conversation_context,
\* _persist_user_message).
NothingIsForgotten ==
    \A m \in 1..messages : m \in summary <=> m <= until

\* Why: the session of every request, too, holds a summary of exactly the messages up to
\* its checkpoint, and those exist.
SessionsAreWhole ==
    /\ messages \in Nat /\ until \in 0..messages /\ summary = 1..until
    /\ view \in [Request -> [compacts : BOOLEAN, folded : SUBSET Nat, until : Nat]]
    /\ \A r \in Request : view[r].until <= messages /\ view[r].folded = 1..view[r].until

\* Why: a request stores its question when it looks for sources, and its answer at its end.
Asked == {r \in Request : pc[r] \notin {"new", "context", "question"}}
Answered == {r \in Request : pc[r] \in {"final", "error", "done", "ended"}}
MessagesCount == messages <= FirstMessages + Cardinality(Asked) + Cardinality(Answered)

\* The index that a request has made sure of is never older than the chunks were at that
\* moment, or than the oldest build that was then under way: publishing is last come,
\* last served, but a build that was over cannot come back (Embedder.ensure_bm25).
IndexIsNotOlder ==
    \A r \in Request : pc[r] = "search" => index >= floor[r]

\* Why: what a request may be served is no newer than any build under way, and than the
\* index once it searches.
BuildsAreNotOlder ==
    /\ corpus \in Nat \ {0} /\ index \in Nat /\ pc \in [Request -> Place]
    /\ built \in [Request -> Nat] /\ floor \in [Request -> Nat]
    /\ \A r \in Request :
          /\ floor[r] <= corpus
          /\ pc[r] \notin {"build", "search"} => floor[r] = 0
          /\ pc[r] = "build" => built[r] # 0
          /\ \A b \in Request : built[b] # 0 => floor[r] <= built[b]

\* Every stream comes to its end for the client that stays, and the thread of every
\* request ends, whether its client stays or leaves while the queue is full
\* (stream_rag_answer: the queue is read without a timeout).
EveryStreamEnds ==
    \A r \in Request :
        <>(pc[r] = "ended") /\ <>(client[r] # "reading")
=============================================================================
