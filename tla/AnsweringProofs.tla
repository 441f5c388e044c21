--------------------------- MODULE AnsweringProofs ---------------------------
(***************************************************************************)
(* For any number of requests, streamed or plain, any thresholds and any   *)
(* bounds: the conversation's summary and its checkpoint agree, and no     *)
(* request searches an index older than the chunks were when it looked.    *)
(* Each is its conjunct of the invariant, with the strengthening that      *)
(* Answering states next to it; the types need both, the messages counted, *)
(* and that nothing is put into a full queue.                              *)
(***************************************************************************)
EXTENDS Answering, FiniteSetTheorems, TLAPS

-----------------------------------------------------------------------------
(* The summary.                                                            *)

WholeInv == SessionsAreWhole /\ NothingIsForgotten

\* However many messages there are and however long, no more are folded than there are.
LEMMA FoldsWhatIsThere ==
    ASSUME NEW n \in Nat, NEW long \in BOOLEAN
    PROVE  FoldCount(n, long) \in 0..n
  BY AnsweringAssumption DEF FoldCount

LEMMA WholeInit == Init => WholeInv
  <1> SUFFICES ASSUME Init PROVE WholeInv
    OBVIOUS
  <1>1. messages \in Nat /\ until = 0 /\ summary = {}
    BY AnsweringAssumption DEF Init
  <1>2. 1..0 = {}
    OBVIOUS
  <1>3. NothingIsForgotten
    BY <1>1 DEF NothingIsForgotten
  <1>4. /\ view \in [Request -> [compacts : BOOLEAN, folded : SUBSET Nat, until : Nat]]
        /\ \A r \in Request : view[r].until = 0 /\ view[r].folded = {}
    BY DEF Init, NoView
  <1> QED
    BY <1>1, <1>2, <1>3, <1>4 DEF WholeInv, SessionsAreWhole

\* The session folds the messages that follow its checkpoint, and moves it past them.
LEMMA WholeRead ==
    ASSUME WholeInv, NEW r \in Request, ReadMessages(r)
    PROVE  WholeInv'
  <1>1. PICK long \in BOOLEAN :
            LET from == view[r].until
                count == FoldCount(messages - from, long)
            IN view' = [view EXCEPT ![r] =
                   [compacts |-> count > 0,
                    folded |-> @.folded \cup Folding(from, count),
                    until |-> IF count > 0 THEN Checkpoint(from, messages - from, count)
                                           ELSE from]]
    BY DEF ReadMessages, Long
  <1>2. UNCHANGED rows
    BY DEF ReadMessages
  <1> DEFINE from == view[r].until
             count == FoldCount(messages - from, long)
  <1>3. from \in Nat /\ from <= messages /\ messages \in Nat /\ view[r].folded = 1..from
    BY DEF WholeInv, SessionsAreWhole
  <1>4. count \in Nat /\ from + count <= messages
    <2>1. messages - from \in Nat
      BY <1>3
    <2>2. count \in 0..(messages - from)
      BY <2>1, FoldsWhatIsThere
    <2> QED
      BY <1>3, <2>2
  <1>5. /\ view'[r].compacts \in BOOLEAN
        /\ view'[r].until = from + count
        /\ view'[r].folded = (1..from) \cup Folding(from, count)
    BY <1>1, <1>3, <1>4 DEF Checkpoint, WholeInv, SessionsAreWhole
  <1>6. view'[r].folded = 1..(from + count)
    BY <1>3, <1>4, <1>5 DEF Folding
  <1>7. view' \in [Request -> [compacts : BOOLEAN, folded : SUBSET Nat, until : Nat]]
    <2>1. view'[r] \in [compacts : BOOLEAN, folded : SUBSET Nat, until : Nat]
      <3> HIDE DEF from, count
      <3>1. view'[r] = [compacts |-> view'[r].compacts, folded |-> view'[r].folded,
                        until |-> view'[r].until]
        BY <1>1 DEF WholeInv, SessionsAreWhole
      <3>2. view'[r].folded \in SUBSET Nat
        BY <1>3, <1>4, <1>6
      <3> QED
        BY <1>3, <1>4, <1>5, <3>1, <3>2
    <2> QED
      BY <1>1, <2>1 DEF WholeInv, SessionsAreWhole
  <1>8. \A q \in Request : view'[q].until <= messages /\ view'[q].folded = 1..view'[q].until
    <2> HIDE DEF from, count
    <2> TAKE q \in Request
    <2>1. CASE q = r
      BY <1>3, <1>4, <1>5, <1>6, <2>1
    <2>2. CASE q # r
      BY <1>1, <2>2 DEF WholeInv, SessionsAreWhole
    <2> QED
      BY <2>1, <2>2
  <1> QED
    BY <1>2, <1>7, <1>8 DEF WholeInv, SessionsAreWhole, NothingIsForgotten, rows

LEMMA WholeLoad ==
    ASSUME WholeInv, NEW r \in Request, LoadConversation(r)
    PROVE  WholeInv'
  <1>1. UNCHANGED rows
    BY DEF LoadConversation
  <1>2. CASE UNCHANGED view
    BY <1>1, <1>2 DEF WholeInv, SessionsAreWhole, NothingIsForgotten, rows
  <1>3. CASE view' = [view EXCEPT ![r] =
                          [compacts |-> FALSE, folded |-> summary, until |-> until]]
    BY <1>1, <1>3 DEF WholeInv, SessionsAreWhole, NothingIsForgotten, rows
  <1> QED
    BY <1>2, <1>3 DEF LoadConversation

\* Whoever commits last, summary and checkpoint come from one session.
LEMMA WholeQuestion ==
    ASSUME WholeInv, NEW r \in Request, PersistQuestion(r)
    PROVE  WholeInv'
  <1>1. /\ view' = [view EXCEPT ![r] = NoView]
        /\ messages' \in {messages, messages + 1}
        /\ \/ UNCHANGED <<summary, until>>
           \/ summary' = view[r].folded /\ until' = view[r].until
    BY DEF PersistQuestion
  <1>2. /\ messages' \in Nat /\ until' \in 0..messages' /\ summary' = 1..until'
    BY <1>1 DEF WholeInv, SessionsAreWhole
  <1>3. view' \in [Request -> [compacts : BOOLEAN, folded : SUBSET Nat, until : Nat]]
    BY <1>1 DEF WholeInv, SessionsAreWhole, NoView
  <1>4. \A q \in Request : view'[q].until <= messages' /\ view'[q].folded = 1..view'[q].until
    <2> TAKE q \in Request
    <2>1. CASE q = r
      BY <1>1, <1>2, <2>1 DEF WholeInv, SessionsAreWhole, NoView
    <2>2. CASE q # r
      BY <1>1, <2>2 DEF WholeInv, SessionsAreWhole
    <2> QED
      BY <2>1, <2>2
  <1> QED
    BY <1>2, <1>3, <1>4 DEF WholeInv, SessionsAreWhole, NothingIsForgotten

\* A further message lies after every checkpoint.
LEMMA WholeGrows ==
    ASSUME WholeInv, messages' \in {messages, messages + 1}, UNCHANGED <<summary, until, view>>
    PROVE  WholeInv'
  <1>1. SessionsAreWhole'
    BY DEF WholeInv, SessionsAreWhole
  <1> QED
    BY <1>1 DEF WholeInv, SessionsAreWhole, NothingIsForgotten

LEMMA WholeNext == WholeInv /\ [Next]_vars => WholeInv'
  <1> SUFFICES ASSUME WholeInv, [Next]_vars
               PROVE  WholeInv'
    OBVIOUS
  <1>1. ASSUME NEW r \in Request, LoadConversation(r) PROVE WholeInv'
    BY <1>1, WholeLoad
  <1>2. ASSUME NEW r \in Request, ReadMessages(r) PROVE WholeInv'
    BY <1>2, WholeRead
  <1>3. ASSUME NEW r \in Request, PersistQuestion(r) PROVE WholeInv'
    BY <1>3, WholeQuestion
  <1>4. ASSUME NEW r \in Request, PersistAnswer(r) PROVE WholeInv'
    BY <1>4, WholeGrows DEF PersistAnswer
  <1>5. ASSUME NEW r \in Request,
               EnsureIndex(r) \/ PublishIndex(r) \/ Search(r)
        PROVE  WholeInv'
    BY <1>5, WholeGrows DEF EnsureIndex, PublishIndex, Search, rows
  <1>6. ASSUME NEW r \in Request,
               \/ Token(r) \/ Generated(r) \/ Abandoned(r)
               \/ \E event \in {"final", "error", "done"} : Emit(r, event)
        PROVE  WholeInv'
    BY <1>6, WholeGrows DEF Token, Generated, Abandoned, Emit, rows
  <1>7. ASSUME NEW r \in Request, Take(r) \/ Leave(r) PROVE WholeInv'
    BY <1>7, WholeGrows DEF Take, Leave, rows
  <1>8. CASE DeleteConversation \/ ReplaceChunks
    BY <1>8, WholeGrows DEF DeleteConversation, ReplaceChunks, rows
  <1>9. CASE UNCHANGED vars
    BY <1>9, WholeGrows DEF vars, rows
  <1> QED
    BY <1>1, <1>2, <1>3, <1>4, <1>5, <1>6, <1>7, <1>8, <1>9 DEF Next, Step

\* Every message is either in the stored summary or after the stored checkpoint, and
\* none is in both places, however requests overtake each other
\* (build_conversation_context, _persist_user_message).
THEOREM NothingForgotten == Spec => []NothingIsForgotten
  <1>1. WholeInv => NothingIsForgotten
    BY DEF WholeInv
  <1> QED
    BY <1>1, WholeInit, WholeNext, PTL DEF Spec
-----------------------------------------------------------------------------
(* The keyword index.                                                      *)

FreshInv == BuildsAreNotOlder /\ IndexIsNotOlder

LEMMA FreshInit == Init => FreshInv
  BY DEF Init, FreshInv, BuildsAreNotOlder, IndexIsNotOlder, Place

\* The oldest of a set of versions is one of them, and none is smaller.
LEMMA OldestIsOldest ==
    ASSUME NEW versions, NEW v \in Oldest(versions)
    PROVE  v \in versions /\ \A u \in versions : v <= u
  BY DEF Oldest

\* A request that looks at the index may be served no version newer than the chunks, or
\* than a build under way.
LEMMA FreshEnsure ==
    ASSUME FreshInv, NEW r \in Request, EnsureIndex(r)
    PROVE  FreshInv'
  <1>1. /\ UNCHANGED <<corpus, index>> /\ pc[r] = "ensure"
    BY DEF EnsureIndex
  <1>2. floor[r] = 0 /\ corpus \in Nat \ {0} /\ index \in Nat
    BY <1>1 DEF FreshInv, BuildsAreNotOlder
  <1>3. ASSUME NEW v \in Oldest(Builds \cup {corpus})
        PROVE  v \in Nat /\ v <= corpus /\ \A b \in Request : built[b] # 0 => v <= built[b]
    <2>1. v \in Builds \cup {corpus} /\ \A u \in Builds \cup {corpus} : v <= u
      BY <1>3, OldestIsOldest
    <2>2. Builds \subseteq Nat
      BY DEF Builds, FreshInv, BuildsAreNotOlder
    <2> QED
      BY <1>2, <2>1, <2>2 DEF Builds
  <1>4. CASE /\ IsCurrent /\ Goto(r, "search") /\ UNCHANGED built
             /\ \E v \in Oldest(Builds \cup {corpus}) : floor' = [floor EXCEPT ![r] = v]
    <2>1. PICK v \in Oldest(Builds \cup {corpus}) : floor' = [floor EXCEPT ![r] = v]
      BY <1>4
    <2>2. v \in Nat /\ v <= corpus /\ \A b \in Request : built[b] # 0 => v <= built[b]
      BY <1>3
    <2>3. pc' = [pc EXCEPT ![r] = "search"] /\ index = corpus /\ built' = built
      BY <1>4 DEF Goto, IsCurrent
    <2> QED
      BY <1>1, <1>2, <2>1, <2>2, <2>3 DEF FreshInv, BuildsAreNotOlder, IndexIsNotOlder, Place
  <1>5. CASE /\ ~IsCurrent /\ Goto(r, "build")
             /\ built' = [built EXCEPT ![r] = corpus]
             /\ \E v \in Oldest(Builds \cup {corpus}) : floor' = [floor EXCEPT ![r] = v]
    <2>1. PICK v \in Oldest(Builds \cup {corpus}) : floor' = [floor EXCEPT ![r] = v]
      BY <1>5
    <2>2. v \in Nat /\ v <= corpus /\ \A b \in Request : built[b] # 0 => v <= built[b]
      BY <1>3
    <2>3. pc' = [pc EXCEPT ![r] = "build"] /\ built' = [built EXCEPT ![r] = corpus]
      BY <1>5 DEF Goto
    <2> QED
      BY <1>1, <1>2, <2>1, <2>2, <2>3 DEF FreshInv, BuildsAreNotOlder, IndexIsNotOlder, Place
  <1>6. CASE Goto(r, "search") /\ UNCHANGED <<built, floor>>
    BY <1>1, <1>2, <1>6 DEF Goto, FreshInv, BuildsAreNotOlder, IndexIsNotOlder, Place
  <1> QED
    BY <1>4, <1>5, <1>6 DEF EnsureIndex

\* What is published was read after every request that searches looked, or was under way
\* then.
LEMMA FreshPublish ==
    ASSUME FreshInv, NEW r \in Request, PublishIndex(r)
    PROVE  FreshInv'
  <1>1. /\ pc[r] = "build" /\ pc' = [pc EXCEPT ![r] = "search"]
        /\ index' = built[r] /\ built' = [built EXCEPT ![r] = 0]
        /\ UNCHANGED <<corpus, floor>>
    BY DEF PublishIndex, Move, Goto
  <1>2. built[r] # 0 /\ built[r] \in Nat /\ \A q \in Request : floor[q] <= built[r]
    BY <1>1 DEF FreshInv, BuildsAreNotOlder
  <1> QED
    BY <1>1, <1>2 DEF FreshInv, BuildsAreNotOlder, IndexIsNotOlder, Place

\* A request that goes on to a step that needs no index is owed none.
LEMMA FreshMoves ==
    ASSUME FreshInv, NEW r \in Request, NEW to \in Place,
           to \notin {"build", "search"}, pc[r] \notin {"build", "search"},
           pc' = [pc EXCEPT ![r] = to], UNCHANGED indexes
    PROVE  FreshInv'
  BY DEF FreshInv, BuildsAreNotOlder, IndexIsNotOlder, Place, indexes

LEMMA FreshSearch ==
    ASSUME FreshInv, NEW r \in Request, Search(r)
    PROVE  FreshInv'
  <1>1. /\ pc[r] = "search" /\ floor' = [floor EXCEPT ![r] = 0]
        /\ UNCHANGED <<corpus, index, built>>
    BY DEF Search
  <1>2. \E to \in {"error", "ended", "generate", "answer"} : pc' = [pc EXCEPT ![r] = to]
    BY DEF Search, Raise, Goto
  <1> QED
    BY <1>1, <1>2 DEF FreshInv, BuildsAreNotOlder, IndexIsNotOlder, Place

LEMMA FreshStays ==
    ASSUME FreshInv, UNCHANGED <<index, built, floor, pc>>, corpus' \in {corpus, corpus + 1}
    PROVE  FreshInv'
  BY DEF FreshInv, BuildsAreNotOlder, IndexIsNotOlder, Place

LEMMA FreshNext == FreshInv /\ [Next]_vars => FreshInv'
  <1> SUFFICES ASSUME FreshInv, [Next]_vars
               PROVE  FreshInv'
    OBVIOUS
  <1>1. ASSUME NEW r \in Request,
               LoadConversation(r) \/ ReadMessages(r) \/ PersistQuestion(r) \/ PersistAnswer(r)
        PROVE  FreshInv'
    <2>1. /\ pc[r] \in {"new", "context", "question", "answer"}
          /\ \E to \in {"error", "ended", "context", "question", "ensure", "final"} :
                pc' = [pc EXCEPT ![r] = to]
          /\ UNCHANGED indexes
      BY <1>1 DEF LoadConversation, ReadMessages, PersistQuestion, PersistAnswer, Raise, Goto, Move
    <2> QED
      BY <2>1, FreshMoves DEF Place
  <1>2. ASSUME NEW r \in Request, EnsureIndex(r) PROVE FreshInv'
    BY <1>2, FreshEnsure
  <1>3. ASSUME NEW r \in Request, PublishIndex(r) PROVE FreshInv'
    BY <1>3, FreshPublish
  <1>4. ASSUME NEW r \in Request, Search(r) PROVE FreshInv'
    BY <1>4, FreshSearch
  <1>5. ASSUME NEW r \in Request,
               \/ Generated(r) \/ Abandoned(r)
               \/ \E event \in {"final", "error", "done"} : Emit(r, event)
        PROVE  FreshInv'
    <2>1. /\ pc[r] \in {"generate", "final", "error", "done"}
          /\ \E to \in {"answer", "done", "ended"} : pc' = [pc EXCEPT ![r] = to]
          /\ UNCHANGED indexes
      BY <1>5 DEF Generated, Abandoned, Emit, AfterLast, Goto, Move
    <2> QED
      BY <2>1, FreshMoves DEF Place
  <1>6. ASSUME NEW r \in Request, Token(r) \/ Take(r) \/ Leave(r) PROVE FreshInv'
    BY <1>6, FreshStays DEF Token, Take, Leave, indexes
  <1>7. CASE DeleteConversation \/ ReplaceChunks
    BY <1>7, FreshStays DEF DeleteConversation, ReplaceChunks, indexes
  <1>8. CASE UNCHANGED vars
    BY <1>8, FreshStays DEF vars, indexes
  <1> QED
    BY <1>1, <1>2, <1>3, <1>4, <1>5, <1>6, <1>7, <1>8 DEF Next, Step

\* A request never searches an index older than the chunks were when it compared the
\* fingerprints, or than the oldest build then under way, though the last build to end
\* replaces whatever was published meanwhile (Embedder.ensure_bm25).
THEOREM IndexNotOlder == Spec => []IndexIsNotOlder
  <1>1. FreshInv => IndexIsNotOlder
    BY DEF FreshInv
  <1> QED
    BY <1>1, FreshInit, FreshNext, PTL DEF Spec
-----------------------------------------------------------------------------
(* The types.                                                              *)

\* Where a request can go from where it is.
Goes(from, to) ==
    \/ to \in {"error", "ended"}
    \/ from = "new" /\ to = "context"
    \/ from = "context" /\ to = "question"
    \/ /\ from \in {"question", "ensure", "build", "search", "generate", "answer"}
       /\ to \notin {"new", "context", "question"}
    \/ from \in {"final", "error", "done"} /\ to \in {"done", "ended"}

LEMMA StepGoes ==
    ASSUME NEW r \in Request, Step(r)
    PROVE  \/ UNCHANGED pc
           \/ \E to \in Place : Goes(pc[r], to) /\ pc' = [pc EXCEPT ![r] = to]
  <1>1. CASE LoadConversation(r) \/ ReadMessages(r)
    BY <1>1 DEF LoadConversation, ReadMessages, Raise, Move, Goto, Goes, Place
  <1>2. CASE PersistQuestion(r) \/ PersistAnswer(r)
    BY <1>2 DEF PersistQuestion, PersistAnswer, Raise, Move, Goto, Goes, Place
  <1>3. CASE EnsureIndex(r) \/ PublishIndex(r)
    BY <1>3 DEF EnsureIndex, PublishIndex, Raise, Move, Goto, Goes, Place
  <1>4. CASE Search(r)
    <2>1. /\ pc[r] = "search"
          /\ \E to \in {"error", "ended", "generate", "answer"} : pc' = [pc EXCEPT ![r] = to]
      BY <1>4 DEF Search, Raise, Goto
    <2> QED
      BY <2>1 DEF Goes, Place
  <1>5. CASE Token(r) \/ Generated(r) \/ Abandoned(r)
    BY <1>5 DEF Token, Generated, Abandoned, Move, Goto, Goes, Place
  <1>6. CASE \E event \in {"final", "error", "done"} : Emit(r, event)
    BY <1>6 DEF Emit, AfterLast, Move, Goto, Goes, Place
  <1> QED
    BY <1>1, <1>2, <1>3, <1>4, <1>5, <1>6 DEF Step

\* The counted sets are finite, and hold no more than there are requests.
LEMMA Counts ==
    /\ IsFiniteSet(Asked) /\ IsFiniteSet(Answered)
    /\ IsFiniteSet(Asked') /\ IsFiniteSet(Answered')
    /\ Cardinality(Asked) \in Nat /\ Cardinality(Answered) \in Nat /\ Cardinality(Request) \in Nat
    /\ Cardinality(Asked) <= Cardinality(Request)
    /\ Cardinality(Answered) <= Cardinality(Request)
  <1>1. IsFiniteSet(Request)
    BY AnsweringAssumption
  <1>2. /\ Asked \subseteq Request /\ Answered \subseteq Request
        /\ Asked' \subseteq Request /\ Answered' \subseteq Request
    BY DEF Asked, Answered
  <1> QED
    BY <1>1, <1>2, FS_Subset, FS_CardinalityType

\* Who has asked or answered stays so, and who stores a message becomes so.
LEMMA CountsGrow ==
    ASSUME MessagesCount, messages \in Nat, pc \in [Request -> Place],
           Asked \subseteq Asked', Answered \subseteq Answered',
           \/ UNCHANGED messages
           \/ /\ messages' = messages + 1
              /\ \E r \in Request : \/ r \in Asked' \ Asked
                                    \/ r \in Answered' \ Answered
    PROVE  MessagesCount'
  <1>1. /\ Cardinality(Asked) <= Cardinality(Asked')
        /\ Cardinality(Answered) <= Cardinality(Answered')
        /\ Cardinality(Asked') \in Nat /\ Cardinality(Answered') \in Nat
    BY Counts, FS_Subset, FS_CardinalityType
  <1>2. ASSUME NEW r \in Asked' \ Asked
        PROVE  Cardinality(Asked) + 1 <= Cardinality(Asked')
    <2>1. /\ Asked \cup {r} \subseteq Asked'
          /\ Cardinality(Asked \cup {r}) = Cardinality(Asked) + 1
      BY <1>2, Counts, FS_AddElement
    <2> QED
      BY <2>1, Counts, FS_Subset
  <1>3. ASSUME NEW r \in Answered' \ Answered
        PROVE  Cardinality(Answered) + 1 <= Cardinality(Answered')
    <2>1. /\ Answered \cup {r} \subseteq Answered'
          /\ Cardinality(Answered \cup {r}) = Cardinality(Answered) + 1
      BY <1>3, Counts, FS_AddElement
    <2> QED
      BY <2>1, Counts, FS_Subset
  <1>4. FirstMessages \in Nat
    BY AnsweringAssumption
  <1>5. CASE UNCHANGED messages
    BY <1>1, <1>4, <1>5, Counts DEF MessagesCount
  <1>6. CASE messages' = messages + 1 /\ \E r \in Request : r \in Asked' \ Asked
    BY <1>1, <1>2, <1>4, <1>6, Counts DEF MessagesCount
  <1>7. CASE messages' = messages + 1 /\ \E r \in Request : r \in Answered' \ Answered
    BY <1>1, <1>3, <1>4, <1>7, Counts DEF MessagesCount
  <1> QED
    BY <1>5, <1>6, <1>7

LEMMA CountInit == Init => MessagesCount
  BY Counts, AnsweringAssumption DEF Init, MessagesCount

LEMMA CountNext ==
    ASSUME MessagesCount, WholeInv, FreshInv, [Next]_vars
    PROVE  MessagesCount'
  <1>1. messages \in Nat /\ pc \in [Request -> Place]
    BY DEF WholeInv, SessionsAreWhole, FreshInv, BuildsAreNotOlder
  <1>2. ASSUME NEW r \in Request, Step(r)
        PROVE  MessagesCount'
    <2>1. Asked \subseteq Asked' /\ Answered \subseteq Answered'
      BY <1>1, <1>2, StepGoes DEF Goes, Asked, Answered
    <2>2. CASE UNCHANGED messages
      BY <1>1, <2>1, <2>2, CountsGrow
    <2>3. CASE PersistQuestion(r) /\ ~UNCHANGED messages
      <3>1. /\ messages' = messages + 1 /\ pc[r] = "question"
            /\ pc' = [pc EXCEPT ![r] = "ensure"]
        BY <2>3 DEF PersistQuestion, Goto
      <3>2. r \in Asked' \ Asked
        BY <1>1, <3>1 DEF Asked
      <3> QED
        BY <1>1, <2>1, <3>1, <3>2, CountsGrow
    <2>4. CASE PersistAnswer(r) /\ ~UNCHANGED messages
      <3>1. /\ messages' = messages + 1 /\ pc[r] = "answer"
            /\ \E to \in {"final", "ended"} : pc' = [pc EXCEPT ![r] = to]
        BY <2>4 DEF PersistAnswer, Goto
      <3>2. r \in Answered' \ Answered
        BY <1>1, <3>1 DEF Answered
      <3> QED
        BY <1>1, <2>1, <3>1, <3>2, CountsGrow
    <2>5. PersistQuestion(r) \/ PersistAnswer(r) \/ UNCHANGED messages
      BY <1>2 DEF Step, LoadConversation, ReadMessages, EnsureIndex, PublishIndex, Search,
         Token, Generated, Abandoned, Emit, rows
    <2> QED
      BY <2>2, <2>3, <2>4, <2>5
  <1>3. CASE \/ \E r \in Request : Take(r) \/ Leave(r)
             \/ DeleteConversation \/ ReplaceChunks \/ UNCHANGED vars
    <2>1. UNCHANGED <<messages, pc>>
      BY <1>3 DEF Take, Leave, DeleteConversation, ReplaceChunks, vars, rows
    <2> QED
      BY <2>1 DEF MessagesCount, Asked, Answered
  <1> QED
    BY <1>2, <1>3 DEF Next

\* The chunks are replaced MaxVersions times, and no build reads a version to come.
VersionsBounded ==
    /\ corpus <= MaxVersions /\ index <= corpus
    /\ \A r \in Request : built[r] <= corpus

LEMMA VersionsInit == Init => VersionsBounded
  BY AnsweringAssumption DEF Init, VersionsBounded

LEMMA VersionsNext ==
    ASSUME VersionsBounded, FreshInv, [Next]_vars
    PROVE  VersionsBounded'
  <1>1. /\ corpus \in Nat /\ index \in Nat /\ built \in [Request -> Nat]
        /\ MaxVersions \in Nat
    BY AnsweringAssumption DEF FreshInv, BuildsAreNotOlder
  <1>2. ASSUME NEW r \in Request, EnsureIndex(r) \/ PublishIndex(r)
        PROVE  VersionsBounded'
    <2>1. /\ UNCHANGED corpus /\ index' \in {index, built[r]}
          /\ \E v \in {0, corpus, built[r]} : built' = [built EXCEPT ![r] = v]
      BY <1>1, <1>2 DEF EnsureIndex, PublishIndex
    <2> QED
      BY <1>1, <2>1 DEF VersionsBounded
  <1>3. CASE ReplaceChunks
    BY <1>1, <1>3 DEF ReplaceChunks, VersionsBounded
  <1>4. CASE UNCHANGED <<corpus, index, built>>
    BY <1>4 DEF VersionsBounded
  <1>5. ASSUME NEW r \in Request, ~EnsureIndex(r), ~PublishIndex(r), Step(r) \/ Take(r) \/ Leave(r)
        PROVE  UNCHANGED <<corpus, index, built>>
    BY <1>5 DEF Step, LoadConversation, ReadMessages, PersistQuestion, PersistAnswer, Search,
       Token, Generated, Abandoned, Emit, Take, Leave, indexes
  <1> QED
    BY <1>2, <1>3, <1>4, <1>5 DEF Next, DeleteConversation, vars, indexes

\* The tokens, the queues and the clients.
GeneratedTyped == exists \in BOOLEAN /\ tokens \in [Request -> 0..MaxTokens] /\ StreamsTyped

LEMMA GeneratedInit == Init => GeneratedTyped
  BY AnsweringAssumption DEF Init, GeneratedTyped, StreamsTyped

\* An event is put where there is room.
LEMMA RoomForOne ==
    ASSUME GeneratedTyped, NEW r \in Request, NEW event \in Event, HasRoom(r), Put(r, event)
    PROVE  /\ queue' \in [Request -> Seq(Event)]
           /\ \A q \in Request : Len(queue'[q]) <= QueueSize
  <1>1. queue[r] \in Seq(Event) /\ Len(queue[r]) < QueueSize /\ QueueSize \in Nat
    BY AnsweringAssumption DEF GeneratedTyped, StreamsTyped, HasRoom
  <1>2. Append(queue[r], event) \in Seq(Event) /\ Len(Append(queue[r], event)) <= QueueSize
    BY <1>1
  <1> QED
    BY <1>1, <1>2 DEF GeneratedTyped, StreamsTyped, Put

LEMMA GeneratedNext ==
    ASSUME GeneratedTyped, [Next]_vars
    PROVE  GeneratedTyped'
  <1>1. ASSUME NEW r \in Request, Token(r)
        PROVE  GeneratedTyped'
    <2>1. /\ tokens[r] < MaxTokens /\ tokens' = [tokens EXCEPT ![r] = @ + 1]
          /\ UNCHANGED <<exists, client>>
          /\ (HasRoom(r) /\ Put(r, "token")) \/ UNCHANGED queue
      BY <1>1 DEF Token, rows
    <2>2. tokens' \in [Request -> 0..MaxTokens]
      BY <2>1, AnsweringAssumption DEF GeneratedTyped
    <2> QED
      BY <2>1, <2>2, RoomForOne DEF GeneratedTyped, StreamsTyped, Event
  <1>2. ASSUME NEW r \in Request, NEW event \in {"final", "error", "done"}, Emit(r, event)
        PROVE  GeneratedTyped'
    <2>1. /\ UNCHANGED <<exists, tokens, client>>
          /\ (HasRoom(r) /\ Put(r, event)) \/ UNCHANGED queue
      BY <1>2 DEF Emit, rows
    <2> QED
      BY <2>1, RoomForOne DEF GeneratedTyped, StreamsTyped, Event
  <1>3. ASSUME NEW r \in Request, Take(r)
        PROVE  GeneratedTyped'
    <2>1. /\ UNCHANGED <<exists, tokens>> /\ queue[r] # <<>>
          /\ queue' = [queue EXCEPT ![r] = Tail(@)]
          /\ client' = [client EXCEPT ![r] = IF Head(queue[r]) = "done" THEN "served" ELSE @]
      BY <1>3 DEF Take, rows
    <2>2. queue[r] \in Seq(Event) /\ Len(queue[r]) <= QueueSize /\ QueueSize \in Nat
      BY AnsweringAssumption DEF GeneratedTyped, StreamsTyped
    <2>3. Tail(queue[r]) \in Seq(Event) /\ Len(Tail(queue[r])) <= QueueSize
      BY <2>1, <2>2
    <2> QED
      BY <2>1, <2>2, <2>3 DEF GeneratedTyped, StreamsTyped
  <1>4. ASSUME NEW r \in Request, Leave(r)
        PROVE  GeneratedTyped'
    <2>1. <<>> \in Seq(Event) /\ Len(<<>>) <= QueueSize
      BY AnsweringAssumption
    <2> QED
      BY <1>4, <2>1 DEF Leave, GeneratedTyped, StreamsTyped, rows
  <1>5. ASSUME NEW r \in Request, Step(r),
               ~Token(r), ~\E event \in {"final", "error", "done"} : Emit(r, event)
        PROVE  UNCHANGED <<exists, tokens, queue, client>>
    BY <1>5 DEF Step, LoadConversation, ReadMessages, PersistQuestion, PersistAnswer,
       EnsureIndex, PublishIndex, Search, Generated, Abandoned, rows, streams
  <1>6. CASE UNCHANGED <<tokens, queue, client>> /\ exists' \in {exists, FALSE}
    BY <1>6 DEF GeneratedTyped, StreamsTyped
  <1> QED
    BY <1>1, <1>2, <1>3, <1>4, <1>5, <1>6
       DEF Next, DeleteConversation, ReplaceChunks, vars, rows, streams

\* Every variable keeps its type: a conversation gets at most two messages from a request, no
\* build reads a version that is not there, and no queue holds more than it has room for.
THEOREM AnsweringTypeCorrect == Spec => []TypeOK
  <1> DEFINE Inv == WholeInv /\ FreshInv /\ MessagesCount /\ VersionsBounded /\ GeneratedTyped
  <1>1. Init => Inv
    BY WholeInit, FreshInit, CountInit, VersionsInit, GeneratedInit
  <1>2. Inv /\ [Next]_vars => Inv'
    BY WholeNext, FreshNext, CountNext, VersionsNext, GeneratedNext
  <1>3. Inv => TypeOK
    <2> SUFFICES ASSUME Inv
                 PROVE  TypeOK
      OBVIOUS
    <2>1. messages \in Nat /\ messages <= FirstMessages + 2 * Cardinality(Request)
      <3>1. /\ messages \in Nat
            /\ messages <= FirstMessages + Cardinality(Asked) + Cardinality(Answered)
        BY DEF WholeInv, SessionsAreWhole, MessagesCount
      <3> QED
        BY <3>1, Counts, AnsweringAssumption
    <2>2. 1..messages \subseteq MessageId
      BY <2>1, Counts, AnsweringAssumption DEF MessageId
    <2>3. RowsTyped
      BY <2>1, <2>2, Counts, AnsweringAssumption
         DEF WholeInv, SessionsAreWhole, GeneratedTyped, RowsTyped
    <2>4. IndexTyped
      BY AnsweringAssumption DEF FreshInv, BuildsAreNotOlder, VersionsBounded, IndexTyped
    <2>5. ASSUME NEW r \in Request
          PROVE  view[r] \in [compacts : BOOLEAN, folded : SUBSET MessageId,
                              until : {0} \cup MessageId]
      <3>1. /\ view[r] \in [compacts : BOOLEAN, folded : SUBSET Nat, until : Nat]
            /\ view[r].until <= messages /\ view[r].folded = 1..view[r].until
        BY DEF WholeInv, SessionsAreWhole
      <3>2. view[r].folded \subseteq MessageId /\ view[r].until \in {0} \cup MessageId
        BY <2>1, <2>2, <3>1
      <3> QED
        BY <3>1, <3>2
    <2>6. RequestsTyped
      BY <2>5 DEF FreshInv, BuildsAreNotOlder, WholeInv, SessionsAreWhole, GeneratedTyped,
         RequestsTyped
    <2> QED
      BY <2>3, <2>4, <2>6 DEF TypeOK, GeneratedTyped
  <1> QED
    BY <1>1, <1>2, <1>3, PTL DEF Spec
==============================================================================
