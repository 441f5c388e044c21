-------------------------- MODULE ModelCallsProofs --------------------------
(***************************************************************************)
(* For any processes, threads, providers, versions, periods and query      *)
(* times: how old a cached judge's answer and a cached prompt can get.     *)
(***************************************************************************)
EXTENDS ModelCalls, FiniteSetTheorems, TLAPS

LEMMA Periods == TTL \in Nat /\ TTL > 0 /\ MaxLoad \in Nat /\ MaxLoad > 0
  BY ModelCallsAssumption
-----------------------------------------------------------------------------
(* The judge's cache.                                                      *)

Cached == [is : BOOLEAN, made : Nat, age : Nat]

\* An entry grows older in both its ages, or is gone.
LEMMA OlderExpires ==
    ASSUME NEW entry \in Cached
    PROVE  /\ Older(entry) \in Cached
           /\ Older(entry).is => /\ entry.is /\ entry.age + 1 < TTL
                                 /\ Older(entry).made = entry.made + 1
                                 /\ Older(entry).age = entry.age + 1
  <1>1. CASE entry.is /\ entry.age + 1 < TTL
    <2>1. Older(entry) = [entry EXCEPT !.made = @ + 1, !.age = @ + 1]
      BY <1>1 DEF Older
    <2> DEFINE older == [entry EXCEPT !.made = @ + 1]
    <2>2. older \in Cached /\ older.age = entry.age
      BY DEF Cached
    <2>3. Older(entry) = [older EXCEPT !.age = @ + 1]
      BY <2>1
    <2>4. Older(entry) \in Cached
      <3> HIDE DEF older
      <3> QED
        BY <2>2, <2>3 DEF Cached
    <2> QED
      BY <1>1, <2>1, <2>4 DEF Cached
  <1>2. CASE ~(entry.is /\ entry.age + 1 < TTL)
    <2>1. Older(entry) = [is |-> FALSE, made |-> 0, age |-> 0]
      BY <1>2 DEF Older, None
    <2> QED
      BY <2>1 DEF Cached
  <1> QED
    BY <1>1, <1>2

LEMMA EntryIsYoung == Entry \in Cached /\ Entry.made = 0 /\ Entry.age = 0
  BY DEF Entry, Cached

LEMMA ExpireInit == Init => EntriesExpire
  BY DEF Init, EntriesExpire, None

LEMMA ExpireStays == EntriesExpire /\ UNCHANGED caches => EntriesExpire'
  BY DEF EntriesExpire, caches

\* An entry grows older in both its ages, and is gone at the end of its period.
LEMMA ExpireTick ==
    ASSUME EntriesExpire, Tick
    PROVE  EntriesExpire'
  <1>1. local' = [p \in Process |-> Older(local[p])] /\ shared' = Older(shared)
    BY DEF Tick
  <1>2. /\ shared \in Cached /\ (shared.is => shared.made = shared.age)
        /\ \A p \in Process : /\ local[p] \in Cached
                              /\ local[p].is => local[p].made < local[p].age + TTL
    BY DEF EntriesExpire, Cached
  <1>3. shared' \in Cached /\ (shared'.is => shared'.made = shared'.age /\ shared'.age < TTL)
    <2>1. /\ Older(shared) \in Cached
          /\ Older(shared).is => /\ shared.is /\ shared.age + 1 < TTL
                                 /\ Older(shared).made = shared.made + 1
                                 /\ Older(shared).age = shared.age + 1
      BY <1>2, OlderExpires
    <2> QED
      BY <1>1, <1>2, <2>1
  <1>4. ASSUME NEW p \in Process
        PROVE  /\ local'[p] \in Cached
               /\ local'[p].is => /\ local'[p].age < TTL
                                  /\ local'[p].made < local'[p].age + TTL
    <2>1. /\ Older(local[p]) \in Cached
          /\ Older(local[p]).is => /\ local[p].is /\ local[p].age + 1 < TTL
                                   /\ Older(local[p]).made = local[p].made + 1
                                   /\ Older(local[p]).age = local[p].age + 1
      BY <1>2, OlderExpires
    <2>2. local'[p] = Older(local[p]) /\ local[p] \in Cached
      BY <1>1, <1>2
    <2> QED
      BY <1>2, <2>1, <2>2, Periods DEF Cached
  <1> QED
    BY <1>1, <1>3, <1>4 DEF EntriesExpire, Cached

LEMMA ExpireNext == EntriesExpire /\ [Next]_vars => EntriesExpire'
  <1> SUFFICES ASSUME EntriesExpire, [Next]_vars
               PROVE  EntriesExpire'
    OBVIOUS
  <1>1. ASSUME NEW t \in Thread, Render(t)
        PROVE  EntriesExpire'
    BY <1>1, ExpireStays DEF Render, BeginStructured, ReadTemplates, ReadFails,
       PublishTemplates, ChooseTemplate
  <1>2. ASSUME NEW t \in Thread, LookLocal(t)
        PROVE  EntriesExpire'
    BY <1>2 DEF LookLocal, AfterHit, None, EntriesExpire
  <1>3. ASSUME NEW t \in Thread, LookShared(t)
        PROVE  EntriesExpire'
    <2>1. /\ shared.is /\ UNCHANGED shared
          /\ local' = [local EXCEPT ![Home(t)] = [shared EXCEPT !.age = 0]]
      BY <1>3 DEF LookShared
    <2>2. shared' = shared /\ shared.made < TTL
      BY <2>1 DEF EntriesExpire
    <2>3. [shared EXCEPT !.age = 0] \in Cached
      BY DEF EntriesExpire, Cached
    <2>4. /\ [shared EXCEPT !.age = 0].age = 0
          /\ [shared EXCEPT !.age = 0].made = shared.made
      BY DEF EntriesExpire
    <2> DEFINE entry == [shared EXCEPT !.age = 0]
    <2>5. local' = [local EXCEPT ![Home(t)] = entry] /\ entry \in Cached
          /\ entry.age = 0 /\ entry.made < TTL
      BY <2>1, <2>2, <2>3, <2>4
    <2> HIDE DEF entry
    <2>6. local' \in [Process -> Cached]
      BY <2>5 DEF EntriesExpire, Cached
    <2>7. ASSUME NEW p \in Process, local'[p].is
          PROVE  local'[p].age < TTL /\ local'[p].made < local'[p].age + TTL
      <3>1. CASE p = Home(t)
        <4>1. local'[p] = entry
          BY <2>5, <3>1 DEF EntriesExpire
        <4> QED
          BY <2>5, <4>1, Periods
      <3>2. CASE p # Home(t)
        <4>1. local'[p] = local[p]
          BY <2>5, <3>2 DEF EntriesExpire
        <4> QED
          BY <2>7, <4>1 DEF EntriesExpire
      <3> QED
        BY <3>1, <3>2
    <2> QED
      BY <2>2, <2>6, <2>7 DEF EntriesExpire, Cached
  <1>4. ASSUME NEW t \in Thread, StoreShared(t)
        PROVE  EntriesExpire'
    <2>1. shared' \in {shared, Entry} /\ UNCHANGED local
      BY <1>4 DEF StoreShared
    <2> QED
      BY <2>1, EntryIsYoung, Periods DEF EntriesExpire, Cached
  <1>5. ASSUME NEW t \in Thread, BeginJudge(t) \/ MissShared(t)
        PROVE  EntriesExpire'
    BY <1>5, ExpireStays DEF BeginJudge, MissShared
  <1>6. ASSUME NEW t \in Thread, Answer(t)
        PROVE  EntriesExpire'
    <2>1. /\ local' = local \/ local' = [local EXCEPT ![Home(t)] = Entry]
          /\ UNCHANGED shared
      BY <1>6 DEF Answer
    <2> QED
      BY <2>1, EntryIsYoung, Periods DEF EntriesExpire, Cached
  <1>7. ASSUME NEW t \in Thread,
               SkipProvider(t) \/ Ask(t) \/ NoProvider(t) \/ FailRetryable(t) \/ FailFinal(t)
        PROVE  EntriesExpire'
    BY <1>7, ExpireStays DEF SkipProvider, Ask, NoProvider, FailRetryable, FailFinal
  <1>8. ASSUME NEW p \in Process, Restart(p)
        PROVE  EntriesExpire'
    BY <1>8 DEF Restart, None, EntriesExpire
  <1>9. ASSUME NEW p \in Process, HealthCheck(p)
        PROVE  EntriesExpire'
    BY <1>9, ExpireStays DEF HealthCheck
  <1>10. ASSUME NEW v \in Version, Retire(v)
         PROVE  EntriesExpire'
    BY <1>10, ExpireStays DEF Retire
  <1>11. CASE UNCHANGED vars
    BY <1>11, ExpireStays DEF vars
  <1> QED
    BY <1>1, <1>2, <1>3, <1>4, <1>5, <1>6, <1>7, <1>8, <1>9, <1>10, <1>11, ExpireTick
       DEF Next, Cache, Invoke

\* A judge's answer that a lookup may still return was made less than two periods ago,
\* however many processes pass it on (LLMGateway._cache_get).
THEOREM FreshAnswers == Spec => []AnswersAreFresh
  <1>1. EntriesExpire => AnswersAreFresh
    BY Periods DEF EntriesExpire, AnswersAreFresh
  <1> QED
    BY <1>1, ExpireInit, ExpireNext, PTL DEF Spec
-----------------------------------------------------------------------------
(* The prompts.                                                            *)

Record == [pc : CallState, kind : CallKind, next : Nat, rows : SUBSET Version,
           read : 0..MaxLoad, failed : BOOLEAN]

LEMMA RecordFields ==
    ASSUME NEW c \in Record
    PROVE  /\ \A pc \in CallState : [c EXCEPT !.pc = pc] \in Record /\ [c EXCEPT !.pc = pc].pc = pc
           /\ \A kind \in CallKind : [c EXCEPT !.kind = kind] \in Record
           /\ \A rows \in SUBSET Version : /\ [c EXCEPT !.rows = rows] \in Record
                                           /\ [c EXCEPT !.rows = rows].rows = rows
                                           /\ [c EXCEPT !.rows = rows].pc = c.pc
           /\ [c EXCEPT !.next = @ + 1] \in Record /\ [c EXCEPT !.next = @ + 1].pc = c.pc
           /\ \A failed \in BOOLEAN : /\ [c EXCEPT !.failed = failed] \in Record
                                      /\ [c EXCEPT !.failed = failed].failed = failed
                                      /\ [c EXCEPT !.failed = failed].pc = c.pc
  BY Periods DEF Record

LEMMA RecordRead ==
    ASSUME NEW c \in Record, NEW n \in 0..MaxLoad
    PROVE  /\ [c EXCEPT !.read = n] \in Record
           /\ [c EXCEPT !.read = n].read = n
           /\ [c EXCEPT !.read = n].pc = c.pc
           /\ [c EXCEPT !.read = n].rows = c.rows
  BY DEF Record

LEMMA RecordState ==
    ASSUME NEW c \in Record, NEW pc \in CallState
    PROVE  /\ [c EXCEPT !.pc = pc] \in Record /\ [c EXCEPT !.pc = pc].pc = pc
           /\ [c EXCEPT !.pc = pc].next = c.next
  BY DEF Record

LEMMA IdleCall == Idle \in Record /\ Idle.pc = "idle" /\ ~Idle.failed
  BY Periods DEF Record, Idle, CallState, CallKind

LEMMA RowsInit == Init => RowsWereLive
  BY Periods DEF Init, RowsWereLive, Imported, Idle, Stale, CallState, CallKind

\* A thread moves and the registries, the table and the clock do not.
LEMMA RowsMove ==
    ASSUME RowsWereLive, NEW t \in Thread, NEW c \in Record,
           call' = [call EXCEPT ![t] = c], UNCHANGED <<templates, registry>>,
           c.pc = "loaded" => c.rows \subseteq live,
           c.pc = "choose" /\ ~c.failed => registry[Home(t)].age <= TTL
    PROVE  RowsWereLive'
  BY DEF RowsWereLive, Record, templates

LEMMA RowsStay == RowsWereLive /\ UNCHANGED <<templates, registry, call>> => RowsWereLive'
  BY DEF RowsWereLive, templates

LEMMA RowsRender ==
    ASSUME RowsWereLive, NEW t \in Thread, Render(t)
    PROVE  RowsWereLive'
  <1>1. call[t] \in Record /\ live \subseteq Version
    BY DEF RowsWereLive, Record
  <1>2. CASE BeginStructured(t)
    <2> DEFINE c == [Idle EXCEPT !.kind = "structured",
                                 !.pc = IF IsStale(Home(t)) THEN "load" ELSE "choose"]
    <2>0. [Idle EXCEPT !.kind = "structured"] \in Record
      BY IdleCall, RecordFields DEF CallKind
    <2>1. c \in Record /\ c.pc \in {"load", "choose"}
      <3>1. (IF IsStale(Home(t)) THEN "load" ELSE "choose") \in {"load", "choose"}
        OBVIOUS
      <3>2. {"load", "choose"} \subseteq CallState
        BY DEF CallState
      <3> QED
        BY <2>0, <3>1, <3>2, RecordState
    <2>2. c.pc = "choose" => registry[Home(t)].age <= TTL
      <3>1. c.pc = IF IsStale(Home(t)) THEN "load" ELSE "choose"
        BY <2>0, RecordFields DEF CallState
      <3>2. Home(t) \in Process
        BY ModelCallsAssumption
      <3> QED
        BY <3>1, <3>2, Periods DEF IsStale, RowsWereLive, Stale
    <2>3. call' = [call EXCEPT ![t] = c] /\ UNCHANGED <<templates, registry>>
      BY <1>2 DEF BeginStructured, Move
    <2> QED
      BY <2>1, <2>2, <2>3, RowsMove
  <1>3. CASE ReadTemplates(t)
    <2> DEFINE c == [To(t, "loaded") EXCEPT !.rows = live]
    <2>1. c \in Record /\ c.pc = "loaded" /\ c.rows = live
      BY <1>1 DEF Record, To, CallState
    <2>2. call' = [call EXCEPT ![t] = c] /\ UNCHANGED <<templates, registry>>
      BY <1>3 DEF ReadTemplates, Move
    <2> QED
      BY <2>1, <2>2, RowsMove
  <1>4. CASE ReadFails(t)
    <2> DEFINE c == [To(t, "choose") EXCEPT !.failed = TRUE]
    <2>1. c \in Record /\ c.pc = "choose" /\ c.failed
      BY <1>1 DEF Record, To, CallState
    <2>2. call' = [call EXCEPT ![t] = c] /\ UNCHANGED <<templates, registry>>
      BY <1>4 DEF ReadFails, Move, AfterFailure, RowsWereLive
    <2> QED
      BY <2>1, <2>2, RowsMove
  <1>5. CASE PublishTemplates(t)
    <2> DEFINE c == [To(t, "choose") EXCEPT !.rows = {}, !.read = 0]
               fetched == [rows |-> call[t].rows, age |-> 0]
    <2>0. /\ To(t, "choose") \in Record
          /\ [To(t, "choose") EXCEPT !.rows = {}] \in Record
      BY <1>1, RecordFields DEF To, CallState
    <2>1. c \in Record /\ c.pc = "choose"
      <3> DEFINE d == [To(t, "choose") EXCEPT !.rows = {}]
      <3>1. d \in Record /\ d.pc = "choose" /\ c = [d EXCEPT !.read = 0]
        BY <1>1, <2>0, RecordFields DEF To, CallState
      <3> HIDE DEF c, d
      <3> QED
        BY <3>1, RecordRead, Periods
    <2>2. /\ call[t].pc = "loaded" /\ UNCHANGED <<live, retired>>
          /\ call' = [call EXCEPT ![t] = c]
          /\ registry' = [registry EXCEPT ![Home(t)] = fetched]
      BY <1>5 DEF PublishTemplates, Move, templates
    <2>3. fetched \in [rows : SUBSET Version, age : 0..Stale]
      BY <1>1, Periods DEF Record, Stale
    <2>4. \A v \in Version : v \in fetched.rows => v \in live \/ retired[v] <= MaxLoad
      BY <1>1, <2>2, Periods DEF RowsWereLive, Record
    <2>5. registry' \in [Process -> [rows : SUBSET Version, age : 0..Stale]]
      BY <2>2, <2>3 DEF RowsWereLive
    <2>6. call' \in [Thread -> Record]
      BY <2>1, <2>2 DEF RowsWereLive, Record
    <2>7. \A u \in Thread, v \in Version :
              call'[u].pc = "loaded" /\ v \in call'[u].rows =>
                  v \in live \/ retired[v] <= call'[u].read
      BY <2>1, <2>2 DEF RowsWereLive
    <2>8. \A p \in Process, v \in Version :
              v \in registry'[p].rows => \/ v \in live \/ registry'[p].age = Stale
                                         \/ retired[v] <= registry'[p].age + MaxLoad
      BY <2>2, <2>3, <2>4, Periods DEF RowsWereLive
    <2>9. \A u \in Thread :
              call'[u].pc = "choose" /\ ~call'[u].failed => registry'[Home(u)].age <= TTL
      BY <2>1, <2>2, <2>3, Periods, ModelCallsAssumption DEF RowsWereLive
    <2> QED
      BY <2>2, <2>5, <2>6, <2>7, <2>8, <2>9 DEF RowsWereLive, Record
  <1>6. CASE ChooseTemplate(t)
    <2>1. PICK c \in {[To(t, "ask") EXCEPT !.failed = FALSE], Idle} : call' = [call EXCEPT ![t] = c]
      BY <1>6 DEF ChooseTemplate, Move
    <2>0. To(t, "ask") \in Record /\ To(t, "ask").pc = "ask"
      BY <1>1, RecordFields DEF To, CallState
    <2>2. c \in Record /\ c.pc \in {"ask", "idle"}
      BY <2>0, IdleCall, RecordFields
    <2>3. UNCHANGED <<templates, registry>>
      BY <1>6 DEF ChooseTemplate
    <2> QED
      BY <2>1, <2>2, <2>3, RowsMove
  <1> QED
    BY <1>2, <1>3, <1>4, <1>5, <1>6 DEF Render

\* No call that is at the cache or at a provider comes back to its template.
LEMMA RowsOther ==
    ASSUME RowsWereLive, NEW t \in Thread, Cache(t) \/ Invoke(t)
    PROVE  RowsWereLive'
  <1>1. call[t] \in Record
    BY DEF RowsWereLive, Record
  <1>2. UNCHANGED <<templates, registry>>
    BY DEF Cache, Invoke, BeginJudge, LookLocal, LookShared, MissShared, StoreShared,
           SkipProvider, Ask, NoProvider, Answer, FailRetryable, FailFinal
  <1>3. PICK c \in {Idle, [Idle EXCEPT !.kind = "judge", !.pc = "lookup"],
                    To(t, "redis"), To(t, "ask"), To(t, "store"), To(t, "waiting"),
                    [To(t, "ask") EXCEPT !.next = @ + 1]} :
            call' = [call EXCEPT ![t] = c]
    <2>1. CASE Cache(t)
      BY <2>1 DEF Cache, BeginJudge, LookLocal, LookShared, MissShared, StoreShared, Move
    <2>2. CASE SkipProvider(t)
      <3>1. call[t].pc = "ask" /\ call' = [call EXCEPT ![t] = [call[t] EXCEPT !.next = @ + 1]]
        BY <2>2 DEF SkipProvider, Move
      <3>2. To(t, "ask") = call[t]
        BY <1>1, <3>1 DEF To, Record
      <3> QED
        BY <3>1, <3>2
    <2>3. CASE Invoke(t) /\ ~SkipProvider(t)
      BY <2>3 DEF Invoke, Ask, NoProvider, Answer, FailRetryable, FailFinal, Move
    <2> QED
      BY <2>1, <2>2, <2>3
  <1>4. c \in Record /\ c.pc \notin {"loaded", "choose"}
    <2>1. ASSUME NEW to \in CallState
          PROVE  To(t, to) \in Record /\ To(t, to).pc = to
      BY <1>1, RecordFields DEF To
    <2>2. CASE c \in {Idle, To(t, "redis"), To(t, "ask"), To(t, "store"), To(t, "waiting")}
      BY <2>1, <2>2, IdleCall DEF CallState
    <2>3. CASE c = [To(t, "ask") EXCEPT !.next = @ + 1]
      <3>1. To(t, "ask") \in Record /\ To(t, "ask").pc = "ask"
        BY <2>1 DEF CallState
      <3> DEFINE d == To(t, "ask")
      <3>2. c = [d EXCEPT !.next = @ + 1]
        BY <2>3
      <3> HIDE DEF d
      <3> QED
        BY <3>1, <3>2, RecordFields DEF d
    <2>4. CASE c = [Idle EXCEPT !.kind = "judge", !.pc = "lookup"]
      <3>1. [Idle EXCEPT !.kind = "judge"] \in Record
        BY IdleCall, RecordFields DEF CallKind
      <3> QED
        BY <2>4, <3>1, RecordFields DEF CallState
    <2> QED
      BY <1>3, <2>2, <2>3, <2>4
  <1> QED
    BY <1>2, <1>3, <1>4, RowsMove

LEMMA RowsRestart ==
    ASSUME RowsWereLive, NEW p \in Process, Restart(p)
    PROVE  RowsWereLive'
  <1>1. /\ UNCHANGED <<live, retired>>
        /\ call' = [t \in Thread |-> IF Home(t) = p THEN Idle ELSE call[t]]
    BY DEF Restart, templates
  <1>2. PICK r \in Imported : registry' = [registry EXCEPT ![p] = r]
    BY DEF Restart
  <1>3. /\ r \in [rows : SUBSET Version, age : 0..Stale]
        /\ r.rows \subseteq live
    BY Periods DEF Imported, RowsWereLive, Stale
  <1>4. Idle \in Record /\ Idle.pc \notin {"loaded", "choose"}
    BY IdleCall
  <1>5. call' \in [Thread -> Record]
    BY <1>1, <1>4 DEF RowsWereLive, Record
  <1>6. registry' \in [Process -> [rows : SUBSET Version, age : 0..Stale]]
    BY <1>2, <1>3 DEF RowsWereLive
  <1>7. \A u \in Thread, v \in Version :
            call'[u].pc = "loaded" /\ v \in call'[u].rows =>
                v \in live \/ retired[v] <= call'[u].read
    BY <1>1, <1>4 DEF RowsWereLive
  <1>8. \A q \in Process, v \in Version :
            v \in registry'[q].rows => \/ v \in live \/ registry'[q].age = Stale
                                       \/ retired[v] <= registry'[q].age + MaxLoad
    BY <1>2, <1>3 DEF RowsWereLive
  <1>9. \A u \in Thread :
            call'[u].pc = "choose" /\ ~call'[u].failed => registry'[Home(u)].age <= TTL
    BY <1>1, <1>2, <1>4, Periods DEF RowsWereLive
  <1> QED
    BY <1>1, <1>5, <1>6, <1>7, <1>8, <1>9 DEF RowsWereLive, Record

LEMMA RowsRetire ==
    ASSUME RowsWereLive, NEW w \in Version, Retire(w)
    PROVE  RowsWereLive'
  <1>1. /\ live' = live \ {w} /\ retired' = [retired EXCEPT ![w] = 0]
        /\ UNCHANGED <<registry, call>>
    BY DEF Retire
  <1>2. \A u \in Thread : call[u].read \in Nat
    BY Periods DEF RowsWereLive
  <1>3. \A p \in Process : registry[p].age + MaxLoad \in Nat
    BY Periods DEF RowsWereLive, Stale
  <1> QED
    BY <1>1, <1>2, <1>3 DEF RowsWereLive

\* Whatever was read or kept grows old with the versions that were retired meanwhile, and
\* no time passes while a thread draws.
LEMMA RowsTick ==
    ASSUME RowsWereLive, Tick
    PROVE  RowsWereLive'
  <1>1. /\ UNCHANGED live
        /\ retired' = [v \in Version |-> IF v \in live THEN 0 ELSE Later(retired[v], Faded)]
        /\ registry' = [p \in Process |-> [registry[p] EXCEPT !.age = Later(@, Stale)]]
        /\ call' = [t \in Thread |->
                       [call[t] EXCEPT !.read = IF call[t].pc = "loaded" THEN @ + 1 ELSE @]]
    BY DEF Tick
  <1>2. \A v \in Version : /\ retired[v] \in Nat /\ retired'[v] \in Nat
                           /\ v \notin live => retired'[v] <= retired[v] + 1
    BY <1>1, Periods DEF RowsWereLive, Later, Faded
  <1>3. ASSUME NEW p \in Process
        PROVE  /\ registry'[p] \in [rows : SUBSET Version, age : 0..Stale]
               /\ registry'[p].rows = registry[p].rows
               /\ registry'[p].age = Stale \/ registry'[p].age = registry[p].age + 1
               /\ registry[p].age = Stale => registry'[p].age = Stale
    <2>1. registry[p] \in [rows : SUBSET Version, age : 0..Stale]
      BY DEF RowsWereLive
    <2>2. registry'[p] = [registry[p] EXCEPT !.age = Later(@, Stale)]
      BY <1>1
    <2> QED
      BY <2>1, <2>2, Periods DEF Later, Stale
  <1>4. ASSUME NEW t \in Thread
        PROVE  /\ call'[t] \in Record /\ call'[t].pc # "choose"
               /\ call'[t].rows = call[t].rows /\ call'[t].pc = call[t].pc
               /\ call[t].pc = "loaded" => call'[t].read = call[t].read + 1
    <2>1. call[t] \in Record
      BY DEF RowsWereLive, Record
    <2>2. call'[t] = [call[t] EXCEPT !.read = IF call[t].pc = "loaded" THEN @ + 1 ELSE @]
      BY <1>1
    <2>3. \/ call[t].pc \in {"idle", "waiting"}
          \/ call[t].pc = "loaded" /\ call[t].read < MaxLoad
      BY DEF Tick
    <2> DEFINE read == IF call[t].pc = "loaded" THEN call[t].read + 1 ELSE call[t].read
    <2>4. read \in 0..MaxLoad
      BY <2>1, <2>3, Periods DEF Record
    <2>5. call'[t] = [call[t] EXCEPT !.read = read]
      BY <2>2
    <2>6. call[t].pc = "loaded" => read = call[t].read + 1
      OBVIOUS
    <2> HIDE DEF read
    <2>7. /\ call'[t] \in Record /\ call'[t].read = read
          /\ call'[t].rows = call[t].rows /\ call'[t].pc = call[t].pc
      BY <2>1, <2>4, <2>5, RecordRead
    <2> QED
      BY <2>3, <2>6, <2>7
  <1>5. \A t \in Thread, v \in Version :
            call'[t].pc = "loaded" /\ v \in call'[t].rows =>
                v \in live \/ retired'[v] <= call'[t].read
    <2> SUFFICES ASSUME NEW t \in Thread, NEW v \in Version,
                        call'[t].pc = "loaded", v \in call'[t].rows, v \notin live
                 PROVE  retired'[v] <= call'[t].read
      OBVIOUS
    <2>1. retired[v] <= call[t].read /\ call'[t].read = call[t].read + 1
      BY <1>4 DEF RowsWereLive
    <2>2. call[t].read \in Nat
      BY Periods DEF RowsWereLive
    <2> QED
      BY <1>2, <2>1, <2>2
  <1>6. \A p \in Process, v \in Version :
            v \in registry'[p].rows => \/ v \in live \/ registry'[p].age = Stale
                                       \/ retired'[v] <= registry'[p].age + MaxLoad
    <2> SUFFICES ASSUME NEW p \in Process, NEW v \in Version,
                        v \in registry'[p].rows, v \notin live, registry'[p].age # Stale
                 PROVE  retired'[v] <= registry'[p].age + MaxLoad
      OBVIOUS
    <2>1. /\ registry'[p].age = registry[p].age + 1
          /\ retired[v] <= registry[p].age + MaxLoad
      BY <1>3 DEF RowsWereLive
    <2>2. registry[p].age \in Nat /\ MaxLoad \in Nat
      BY Periods DEF RowsWereLive, Stale
    <2> QED
      BY <1>2, <2>1, <2>2
  <1>7. /\ retired' \in [Version -> Nat]
        /\ registry' \in [Process -> [rows : SUBSET Version, age : 0..Stale]]
        /\ call' \in [Thread -> Record]
    BY <1>1, <1>2, <1>3, <1>4
  <1>8. live' = live /\ live \subseteq Version
    BY <1>1 DEF RowsWereLive
  <1> QED
    BY <1>4, <1>5, <1>6, <1>7, <1>8 DEF RowsWereLive, Record

LEMMA RowsNext == RowsWereLive /\ [Next]_vars => RowsWereLive'
  <1>1. ASSUME RowsWereLive, NEW p \in Process, HealthCheck(p)
        PROVE  RowsWereLive'
    BY <1>1, RowsStay DEF HealthCheck
  <1>2. ASSUME RowsWereLive, UNCHANGED vars
        PROVE  RowsWereLive'
    BY <1>2, RowsStay DEF vars
  <1> QED
    BY <1>1, <1>2, RowsRender, RowsOther, RowsRestart, RowsRetire, RowsTick DEF Next

\* A prompt is drawn among versions retired at most a period and a query ago, unless the
\* database failed in this very call, in whatever order queries publish what they read
\* (PromptRegistry._refresh).
THEOREM PromptsFade == Spec => []RetiredPromptsFade
  <1>1. RowsWereLive => RetiredPromptsFade
    <2> SUFFICES ASSUME RowsWereLive, NEW t \in Thread, call[t].pc = "choose", ~call[t].failed,
                        NEW v \in registry[Home(t)].rows, v \notin live
                 PROVE  retired[v] < Faded
      BY DEF RetiredPromptsFade
    <2>1. Home(t) \in Process
      BY ModelCallsAssumption
    <2>2. v \in Version /\ retired[v] \in Nat /\ registry[Home(t)].age \in Nat
      BY <2>1 DEF RowsWereLive, Stale
    <2>3. registry[Home(t)].age <= TTL
      BY DEF RowsWereLive
    <2>4. registry[Home(t)].age = Stale \/ retired[v] <= registry[Home(t)].age + MaxLoad
      BY <2>1, <2>2 DEF RowsWereLive
    <2> QED
      BY <2>2, <2>3, <2>4, Periods DEF Stale, Faded
  <1> QED
    BY <1>1, RowsInit, RowsNext, PTL DEF Spec
-----------------------------------------------------------------------------
(* The circuits.                                                           *)

Circuit == [failures : Nat, left : Nat]
Here(p) == {t \in Thread : Home(t) = p}

LEMMA ThresholdCounts == Threshold \in Nat /\ Threshold > 0
  BY ModelCallsAssumption

LEMMA Counted ==
    ASSUME NEW p \in Process, NEW v
    PROVE  /\ IsFiniteSet(Here(p)) /\ Cardinality(Here(p)) \in Nat
           /\ Waiting(p, v) \subseteq Here(p)
           /\ IsFiniteSet(Waiting(p, v)) /\ Cardinality(Waiting(p, v)) \in Nat
           /\ Waiting(p, v)' \subseteq Here(p)
           /\ Cardinality(Waiting(p, v)') \in Nat
           /\ Cardinality(Waiting(p, v)') <= Cardinality(Here(p))
  <1>1. IsFiniteSet(Thread)
    BY ModelCallsAssumption
  <1>2. /\ Here(p) \subseteq Thread /\ Waiting(p, v) \subseteq Here(p)
        /\ Waiting(p, v)' \subseteq Here(p)
    BY DEF Here, Waiting
  <1>3. IsFiniteSet(Here(p))
    BY <1>1, <1>2, FS_Subset
  <1>4. /\ IsFiniteSet(Waiting(p, v)) /\ IsFiniteSet(Waiting(p, v)')
        /\ Cardinality(Waiting(p, v)') <= Cardinality(Here(p))
    BY <1>2, <1>3, FS_Subset
  <1> QED
    BY <1>2, <1>3, <1>4, FS_CardinalityType

LEMMA CircuitChanges ==
    ASSUME NEW c \in Circuit
    PROVE  /\ Struck(c) \in Circuit /\ Struck(c).failures = c.failures + 1
           /\ Probed(c) \in Circuit /\ Probed(c).failures <= c.failures
           /\ c.left = 0 => Probed(c).failures < Threshold
  BY ModelCallsAssumption DEF Circuit, Struck, Trips, Probed, Closed

\* One circuit of one process: it forgets, or nobody new waits for its provider.
LEMMA CountFalls ==
    ASSUME CircuitsCount, NEW p \in Process, NEW v \in Provider,
           Waiting(p, v)' \subseteq Waiting(p, v),
           circuit'[p][v].failures \in Nat,
           circuit'[p][v].failures <= circuit[p][v].failures
    PROVE  circuit'[p][v].failures + Cardinality(Waiting(p, v)')
               < Threshold + Cardinality(Here(p))
  <1>1. Cardinality(Waiting(p, v)') <= Cardinality(Waiting(p, v))
    BY Counted, FS_Subset
  <1>2. circuit[p][v].failures + Cardinality(Waiting(p, v)) < Threshold + Cardinality(Here(p))
    BY DEF CircuitsCount, StrikesAreBounded, Here
  <1>3. circuit[p][v].failures \in Nat /\ Threshold \in Nat
    BY ModelCallsAssumption DEF CircuitsCount
  <1> QED
    BY <1>1, <1>2, <1>3, Counted

\* All circuits, when none is struck and nobody begins to wait.
LEMMA CountsFall ==
    ASSUME CircuitsCount, circuit' \in [Process -> [Provider -> Circuit]],
           \A p \in Process, v \in Provider :
               /\ circuit'[p][v].failures <= circuit[p][v].failures
               /\ Waiting(p, v)' \subseteq Waiting(p, v)
    PROVE  CircuitsCount'
  <1>1. \A p \in Process, v \in Provider : circuit'[p][v].failures \in Nat
    BY DEF Circuit
  <1>2. \A p \in Process, v \in Provider :
            circuit'[p][v].failures + Cardinality(Waiting(p, v)')
                < Threshold + Cardinality(Here(p))
    BY <1>1, CountFalls
  <1> QED
    BY <1>2 DEF CircuitsCount, StrikesAreBounded, Circuit, Here

\* A thread that goes on to anything but a provider waits for none.
LEMMA NobodyNewWaits ==
    ASSUME call \in [Thread -> Record],
           NEW t \in Thread, NEW c, c.pc # "waiting", call' = [call EXCEPT ![t] = c],
           NEW p, NEW v
    PROVE  Waiting(p, v)' \subseteq Waiting(p, v) \ {t}
  BY DEF Waiting, Target

LEMMA CircuitsTyped == CircuitsCount => circuit \in [Process -> [Provider -> Circuit]]
  BY DEF CircuitsCount, Circuit

LEMMA CircuitInit == Init => CircuitsCount
  <1> SUFFICES ASSUME Init
               PROVE  CircuitsCount
    OBVIOUS
  <1>1. \A p \in Process, v \in Provider : circuit[p][v] = Closed /\ Waiting(p, v) = {}
    BY DEF Init, Waiting, Idle
  <1>2. circuit \in [Process -> [Provider -> [failures : Nat, left : Nat]]]
    BY DEF Init, Closed
  <1>3. \A p \in Process, v \in Provider :
            circuit[p][v].failures + Cardinality(Waiting(p, v))
                < Threshold + Cardinality(Here(p))
    BY <1>1, Counted, FS_EmptySet, ModelCallsAssumption DEF Closed
  <1> QED
    BY <1>2, <1>3 DEF CircuitsCount, StrikesAreBounded, Here

\* A retryable failure: a strike more, a waiting thread less.
LEMMA CircuitStruck ==
    ASSUME CircuitsCount, call \in [Thread -> Record], NEW t \in Thread, FailRetryable(t)
    PROVE  CircuitsCount'
  <1> DEFINE home == Home(t)
             target == Target(t)
             c == [To(t, "ask") EXCEPT !.next = @ + 1]
  <1>1. /\ call[t].pc = "waiting" /\ call' = [call EXCEPT ![t] = c]
        /\ circuit' = [circuit EXCEPT ![home][target] = Struck(@)]
    BY DEF FailRetryable, Move
  <1>2. c.pc = "ask"
    <2>1. To(t, "ask") \in Record /\ To(t, "ask").pc = "ask"
      BY RecordState DEF To, CallState
    <2> QED
      BY <2>1, RecordFields
  <1>3. \A p, v : Waiting(p, v)' \subseteq Waiting(p, v) \ {t}
    BY <1>1, <1>2, NobodyNewWaits
  <1>4. /\ circuit \in [Process -> [Provider -> Circuit]]
        /\ circuit' \in [Process -> [Provider -> Circuit]]
    BY <1>1, CircuitsTyped, CircuitChanges
  <1>5. ASSUME NEW p \in Process, NEW v \in Provider
        PROVE  circuit'[p][v].failures + Cardinality(Waiting(p, v)')
                   < Threshold + Cardinality(Here(p))
    <2>1. /\ circuit[p][v] \in Circuit /\ circuit'[p][v] \in Circuit
          /\ circuit[p][v].failures \in Nat /\ circuit'[p][v].failures \in Nat
      BY <1>4 DEF Circuit
    <2>2. CASE p = home /\ v = target
      <3>1. circuit'[p][v].failures = circuit[p][v].failures + 1
        BY <1>1, <1>4, <2>1, <2>2, CircuitChanges
      <3>2. t \in Waiting(p, v)
        BY <1>1, <2>2 DEF Waiting
      <3>3. Cardinality(Waiting(p, v) \ {t}) = Cardinality(Waiting(p, v)) - 1
        BY <3>2, Counted, FS_RemoveElement
      <3>4. /\ IsFiniteSet(Waiting(p, v) \ {t})
            /\ Cardinality(Waiting(p, v)') <= Cardinality(Waiting(p, v) \ {t})
        BY <1>3, Counted, FS_Subset
      <3>5. circuit[p][v].failures + Cardinality(Waiting(p, v)) < Threshold + Cardinality(Here(p))
        BY DEF CircuitsCount, StrikesAreBounded, Here
      <3> QED
        BY <2>1, <3>1, <3>3, <3>4, <3>5, Counted, ThresholdCounts
    <2>3. CASE ~(p = home /\ v = target)
      <3>1. circuit'[p][v] = circuit[p][v]
        BY <1>1, <1>4, <2>3
      <3> QED
        BY <1>3, <2>1, <3>1, CountFalls
    <2> QED
      BY <2>2, <2>3
  <1> QED
    BY <1>4, <1>5 DEF CircuitsCount, StrikesAreBounded, Circuit, Here

\* Who asks finds the circuit closed, and so below the threshold, however many threads of
\* the process wait for the same provider.
LEMMA CircuitAsked ==
    ASSUME CircuitsCount, call \in [Thread -> Record], NEW t \in Thread, Ask(t)
    PROVE  CircuitsCount'
  <1> DEFINE home == Home(t)
             target == Target(t)
             c == To(t, "waiting")
  <1>1. /\ call[t].pc = "ask" /\ call' = [call EXCEPT ![t] = c]
        /\ circuit' = [circuit EXCEPT ![home][target] = Probed(@)]
        /\ ~(circuit[home][target].left > 0) /\ ~Exhausted(t)
    BY DEF Ask, Move, IsOpen
  <1>2. c \in Record /\ c.next = call[t].next
    BY RecordState DEF To, CallState
  <1>3. /\ circuit \in [Process -> [Provider -> Circuit]]
        /\ circuit' \in [Process -> [Provider -> Circuit]]
    BY <1>1, CircuitsTyped, CircuitChanges
  <1>4. ASSUME NEW p \in Process, NEW v \in Provider
        PROVE  circuit'[p][v].failures + Cardinality(Waiting(p, v)')
                   < Threshold + Cardinality(Here(p))
    <2>1. /\ circuit[p][v] \in Circuit /\ circuit'[p][v] \in Circuit
          /\ circuit[p][v].failures \in Nat /\ circuit'[p][v].failures \in Nat
          /\ circuit[p][v].left \in Nat
      BY <1>3 DEF Circuit
    <2>2. CASE p = home /\ v = target
      <3>1. circuit'[p][v] = Probed(circuit[p][v]) /\ circuit[p][v].left = 0
        BY <1>1, <1>3, <2>1, <2>2
      <3>2. circuit'[p][v].failures < Threshold
        BY <2>1, <3>1, CircuitChanges
      <3> QED
        BY <2>1, <3>2, Counted, ModelCallsAssumption
    <2>3. CASE ~(p = home /\ v = target)
      <3>1. circuit'[p][v] = circuit[p][v]
        BY <1>1, <1>3, <2>3
      <3>2. Waiting(p, v)' \subseteq Waiting(p, v)
        <4> SUFFICES ASSUME NEW u \in Thread, Home(u) = p,
                            call'[u].pc = "waiting", Target(u)' = v
                     PROVE  u \in Waiting(p, v)
          BY DEF Waiting
        <4>1. u # t
          BY <1>1, <1>2, <2>3 DEF Target
        <4> QED
          BY <1>1, <4>1 DEF Waiting, Target
      <3> QED
        BY <2>1, <3>1, <3>2, CountFalls
    <2> QED
      BY <2>2, <2>3
  <1> QED
    BY <1>3, <1>4 DEF CircuitsCount, StrikesAreBounded, Circuit, Here

\* Any other step of a thread ends a call, or leads to where no provider is waited for.
LEMMA CircuitMoves ==
    ASSUME CircuitsCount, call \in [Thread -> Record], NEW t \in Thread, NEW c,
           c.pc # "waiting", call' = [call EXCEPT ![t] = c],
           \/ UNCHANGED circuit
           \/ circuit' = [circuit EXCEPT ![Home(t)][Target(t)] = Closed]
    PROVE  CircuitsCount'
  <1>1. \A p, v : Waiting(p, v)' \subseteq Waiting(p, v)
    BY NobodyNewWaits
  <1>2. circuit \in [Process -> [Provider -> Circuit]]
    BY CircuitsTyped
  <1>3. Closed \in Circuit /\ Closed.failures = 0
    BY DEF Closed, Circuit
  <1>4. circuit' \in [Process -> [Provider -> Circuit]]
    BY <1>2, <1>3
  <1>5. \A p \in Process, v \in Provider :
            /\ circuit[p][v].failures \in Nat
            /\ circuit'[p][v] \in {circuit[p][v], Closed}
    BY <1>2 DEF Circuit
  <1>6. \A p \in Process, v \in Provider : circuit'[p][v].failures <= circuit[p][v].failures
    BY <1>3, <1>5
  <1> QED
    BY <1>1, <1>4, <1>6, CountsFall

\* Where a thread of the process goes that does not ask or fail.
LEMMA StepsThatDoNotAsk ==
    ASSUME call \in [Thread -> Record], NEW t \in Thread,
           Render(t) \/ Cache(t) \/ Invoke(t), ~Ask(t)
    PROVE  \E c : c.pc # "waiting" /\ call' = [call EXCEPT ![t] = c]
  <1>1. call[t] \in Record
    OBVIOUS
  <1>2. /\ [Idle EXCEPT !.kind = "structured",
                        !.pc = IF IsStale(Home(t)) THEN "load" ELSE "choose"].pc # "waiting"
        /\ [Idle EXCEPT !.kind = "judge", !.pc = "lookup"].pc # "waiting"
        /\ Idle.pc # "waiting"
    BY DEF Idle
  <1>3. \A to : To(t, to).pc = to
    BY <1>1 DEF To, Record
  <1>4. /\ [To(t, "loaded") EXCEPT !.rows = live].pc # "waiting"
        /\ [To(t, "choose") EXCEPT !.failed = TRUE].pc # "waiting"
        /\ [To(t, "choose") EXCEPT !.rows = {}, !.read = 0].pc # "waiting"
        /\ [To(t, "ask") EXCEPT !.failed = FALSE].pc # "waiting"
        /\ [To(t, "ask") EXCEPT !.next = @ + 1].pc # "waiting"
    BY <1>1 DEF To, Record
  <1>5. CASE Render(t)
    BY <1>2, <1>4, <1>5 DEF Render, BeginStructured, ReadTemplates, ReadFails,
       PublishTemplates, ChooseTemplate, Move
  <1>6. CASE Cache(t)
    BY <1>2, <1>3, <1>6 DEF Cache, BeginJudge, LookLocal, LookShared, MissShared, StoreShared, Move
  <1>7. CASE SkipProvider(t)
    <2>1. call[t].pc = "ask" /\ call' = [call EXCEPT ![t] = [call[t] EXCEPT !.next = @ + 1]]
      BY <1>7 DEF SkipProvider, Move
    <2>2. [call[t] EXCEPT !.next = @ + 1].pc # "waiting"
      BY <1>1, <2>1 DEF Record
    <2> QED
      BY <2>1, <2>2
  <1>8. CASE Invoke(t) /\ ~SkipProvider(t)
    BY <1>2, <1>3, <1>4, <1>8 DEF Invoke, NoProvider, Answer, FailRetryable, FailFinal, Move
  <1> QED
    BY <1>5, <1>6, <1>7, <1>8

LEMMA CircuitThread ==
    ASSUME CircuitsCount, call \in [Thread -> Record], NEW t \in Thread,
           Render(t) \/ Cache(t) \/ Invoke(t)
    PROVE  CircuitsCount'
  <1>1. CASE Ask(t)
    BY <1>1, CircuitAsked
  <1>2. CASE FailRetryable(t)
    BY <1>2, CircuitStruck
  <1>3. CASE ~Ask(t) /\ ~FailRetryable(t)
    <2>1. PICK c : c.pc # "waiting" /\ call' = [call EXCEPT ![t] = c]
      BY <1>3, StepsThatDoNotAsk
    <2>2. \/ UNCHANGED circuit
          \/ circuit' = [circuit EXCEPT ![Home(t)][Target(t)] = Closed]
      BY <1>3 DEF Render, BeginStructured, ReadTemplates, ReadFails, PublishTemplates,
         ChooseTemplate, Cache, BeginJudge, LookLocal, LookShared, MissShared, StoreShared,
         Invoke, SkipProvider, NoProvider, Answer, FailFinal
    <2> QED
      BY <2>1, <2>2, CircuitMoves
  <1> QED
    BY <1>1, <1>2, <1>3

LEMMA CircuitNext ==
    ASSUME CircuitsCount, RowsWereLive, [Next]_vars
    PROVE  CircuitsCount'
  <1>1. call \in [Thread -> Record] /\ circuit \in [Process -> [Provider -> Circuit]]
    BY CircuitsTyped DEF RowsWereLive, Record
  <1>2. ASSUME NEW p \in Process, HealthCheck(p)
        PROVE  CircuitsCount'
    <2>1. circuit' = [circuit EXCEPT ![p] = [v \in Provider |-> Probed(@[v])]] /\ UNCHANGED call
      BY <1>2 DEF HealthCheck
    <2>2. circuit' \in [Process -> [Provider -> Circuit]]
      BY <1>1, <2>1, CircuitChanges
    <2>3. ASSUME NEW q \in Process, NEW v \in Provider
          PROVE  circuit'[q][v].failures <= circuit[q][v].failures
      <3>1. circuit'[q][v] \in {circuit[q][v], Probed(circuit[q][v])} /\ circuit[q][v] \in Circuit
        BY <1>1, <2>1
      <3>2. Probed(circuit[q][v]).failures <= circuit[q][v].failures /\ circuit[q][v].failures \in Nat
        BY <3>1, CircuitChanges DEF Circuit
      <3> QED
        BY <3>1, <3>2
    <2>4. \A q, v : Waiting(q, v)' \subseteq Waiting(q, v)
      BY <2>1 DEF Waiting, Target
    <2> QED
      BY <2>2, <2>3, <2>4, CountsFall
  <1>3. ASSUME NEW p \in Process, Restart(p)
        PROVE  CircuitsCount'
    <2>1. /\ circuit' = [circuit EXCEPT ![p] = [v \in Provider |-> Closed]]
          /\ call' = [t \in Thread |-> IF Home(t) = p THEN Idle ELSE call[t]]
      BY <1>3 DEF Restart
    <2>2. Closed \in Circuit /\ Closed.failures = 0
      BY DEF Closed, Circuit
    <2>3. circuit' \in [Process -> [Provider -> Circuit]]
      BY <1>1, <2>1, <2>2
    <2>4. ASSUME NEW q \in Process, NEW v \in Provider
          PROVE  circuit'[q][v].failures <= circuit[q][v].failures
      <3>1. circuit'[q][v] \in {circuit[q][v], Closed} /\ circuit[q][v] \in Circuit
        BY <1>1, <2>1
      <3>2. circuit[q][v].failures \in Nat
        BY <3>1 DEF Circuit
      <3> QED
        BY <2>2, <3>1, <3>2
    <2>5. \A q, v : Waiting(q, v)' \subseteq Waiting(q, v)
      BY <2>1 DEF Waiting, Target, Idle
    <2> QED
      BY <2>3, <2>4, <2>5, CountsFall
  <1>4. CASE Tick
    <2>1. /\ circuit' = [p \in Process |-> [v \in Provider |->
                [circuit[p][v] EXCEPT !.left = IF @ = 0 THEN 0 ELSE @ - 1]]]
          /\ call' = [t \in Thread |->
                [call[t] EXCEPT !.read = IF call[t].pc = "loaded" THEN @ + 1 ELSE @]]
      BY <1>4 DEF Tick
    <2>2. ASSUME NEW p \in Process, NEW v \in Provider
          PROVE  /\ circuit'[p][v] \in Circuit
                 /\ circuit'[p][v].failures <= circuit[p][v].failures
      <3>1. circuit[p][v] \in Circuit
        BY <1>1
      <3>2. circuit'[p][v] = [circuit[p][v] EXCEPT !.left = IF @ = 0 THEN 0 ELSE @ - 1]
        BY <2>1
      <3> QED
        BY <3>1, <3>2 DEF Circuit
    <2>3. circuit' \in [Process -> [Provider -> Circuit]]
      BY <2>1, <2>2
    <2>4. ASSUME NEW t \in Thread
          PROVE  call'[t].pc = call[t].pc /\ call'[t].next = call[t].next
      <3>1. call[t] \in Record
        BY <1>1
      <3>2. call'[t] = [call[t] EXCEPT !.read = IF call[t].pc = "loaded" THEN @ + 1 ELSE @]
        BY <2>1
      <3> QED
        BY <3>1, <3>2 DEF Record
    <2>5. \A q, v : Waiting(q, v)' \subseteq Waiting(q, v)
      BY <2>4 DEF Waiting, Target
    <2> QED
      BY <2>2, <2>3, <2>5, CountsFall
  <1>5. CASE (\E v \in Version : Retire(v)) \/ UNCHANGED vars
    <2>1. UNCHANGED <<circuit, call>>
      BY <1>5 DEF Retire, vars
    <2> QED
      BY <2>1 DEF CircuitsCount, StrikesAreBounded, Waiting, Target
  <1> QED
    BY <1>1, <1>2, <1>3, <1>4, <1>5, CircuitThread DEF Next

\* A provider that fails is struck less often than its threshold plus the threads of a
\* process allow, however many calls are in flight when its circuit opens and whoever
\* probes it (LLMGateway._report_failure, _can_invoke).
THEOREM BoundedStrikes == Spec => []StrikesAreBounded
  <1>1. CircuitsCount => StrikesAreBounded
    BY DEF CircuitsCount
  <1>2. CircuitsCount /\ RowsWereLive /\ [Next]_vars => CircuitsCount'
    BY CircuitNext
  <1> QED
    BY <1>1, <1>2, CircuitInit, RowsInit, RowsNext, PTL DEF Spec
-----------------------------------------------------------------------------
(* The types.                                                              *)

CallsTyped == EntriesExpire /\ CircuitsCount /\ RowsWereLive

LEMMA CallsParts ==
    ASSUME CallsTyped
    PROVE  /\ shared \in Cached /\ local \in [Process -> Cached]
           /\ circuit \in [Process -> [Provider -> Circuit]]
           /\ retired \in [Version -> Nat] /\ call \in [Thread -> Record]
           /\ Len(Chain) \in Nat /\ Cooldown \in Nat /\ Faded \in Nat
  BY ModelCallsAssumption, CircuitsTyped DEF CallsTyped, EntriesExpire, Cached, RowsWereLive, Record, Faded

LEMMA CallsTypedNext == CallsTyped /\ [Next]_vars => CallsTyped'
  BY ExpireNext, CircuitNext, RowsNext DEF CallsTyped

LEMMA LimitsInit == Init => LimitsHold
  <1> SUFFICES ASSUME Init
               PROVE  LimitsHold
    OBVIOUS
  <1>1. InChain(Idle)
    BY ModelCallsAssumption DEF InChain, Idle
  <1> QED
    BY <1>1, ModelCallsAssumption DEF Init, LimitsHold, None, Closed, Faded

\* Circuits are opened for the cooldown.
LEMMA CooldownHeld ==
    ASSUME CallsTyped, LimitsHold, [Next]_vars
    PROVE  \A p \in Process, v \in Provider : circuit'[p][v].left <= Cooldown
  <1>1. circuit \in [Process -> [Provider -> Circuit]] /\ Cooldown \in Nat
    BY CallsParts
  <1>2. ASSUME NEW p \in Process, NEW v \in Provider
        PROVE  /\ circuit[p][v] \in Circuit /\ circuit[p][v].left <= Cooldown
               /\ Closed.left <= Cooldown /\ Probed(circuit[p][v]).left <= Cooldown
               /\ Struck(circuit[p][v]).left <= Cooldown
    BY <1>1 DEF LimitsHold, Circuit, Closed, Probed, Struck
  <1> SUFFICES ASSUME NEW p \in Process, NEW v \in Provider
               PROVE  circuit'[p][v].left <= Cooldown
    OBVIOUS
  <1>3. ASSUME NEW t \in Thread, Render(t) \/ Cache(t) \/ Invoke(t)
        PROVE  circuit'[p][v].left <= Cooldown
    <2>1. \/ UNCHANGED circuit
          \/ circuit' = [circuit EXCEPT ![Home(t)][Target(t)] = Closed]
          \/ circuit' = [circuit EXCEPT ![Home(t)][Target(t)] = Probed(@)]
          \/ circuit' = [circuit EXCEPT ![Home(t)][Target(t)] = Struck(@)]
      BY <1>3 DEF Render, BeginStructured, ReadTemplates, ReadFails, PublishTemplates,
         ChooseTemplate, Cache, BeginJudge, LookLocal, LookShared, MissShared, StoreShared,
         Invoke, SkipProvider, Ask, NoProvider, Answer, FailRetryable, FailFinal
    <2>2. circuit'[p][v] \in
              {circuit[p][v], Closed, Probed(circuit[p][v]), Struck(circuit[p][v])}
      BY <1>1, <2>1
    <2> QED
      BY <1>2, <2>2
  <1>4. ASSUME NEW q \in Process, HealthCheck(q) \/ Restart(q)
        PROVE  circuit'[p][v].left <= Cooldown
    <2>1. circuit'[p][v] \in {circuit[p][v], Closed, Probed(circuit[p][v])}
      BY <1>1, <1>4 DEF HealthCheck, Restart
    <2> QED
      BY <1>2, <2>1
  <1>5. CASE Tick
    <2>1. circuit'[p][v] = [circuit[p][v] EXCEPT !.left = IF @ = 0 THEN 0 ELSE @ - 1]
      BY <1>5 DEF Tick
    <2> QED
      BY <1>1, <1>2, <2>1 DEF Circuit
  <1>6. CASE (\E w \in Version : Retire(w)) \/ UNCHANGED vars
    BY <1>2, <1>6 DEF Retire, vars
  <1> QED
    BY <1>3, <1>4, <1>5, <1>6 DEF Next

\* An entry is there, or is None.
LEMMA EntriesCleared ==
    ASSUME CallsTyped, LimitsHold, [Next]_vars
    PROVE  /\ \A p \in Process : local'[p].is \/ local'[p] = None
           /\ shared'.is \/ shared' = None
  <1>1. /\ local \in [Process -> Cached] /\ shared \in Cached
        /\ \A p \in Process : local[p].is \/ local[p] = None
        /\ shared.is \/ shared = None
    BY CallsParts DEF LimitsHold
  <1>2. ASSUME NEW entry \in Cached
        PROVE  Older(entry).is \/ Older(entry) = None
    <2>1. CASE entry.is /\ entry.age + 1 < TTL
      <3> DEFINE older == [entry EXCEPT !.made = @ + 1]
      <3>1. older.is /\ DOMAIN older = DOMAIN entry
        BY <2>1 DEF Cached
      <3>2. Older(entry) = [older EXCEPT !.age = @ + 1]
        BY <2>1 DEF Older
      <3> QED
        BY <2>1, <3>1, <3>2 DEF Cached
    <2>2. CASE ~(entry.is /\ entry.age + 1 < TTL)
      BY <2>2 DEF Older
    <2> QED
      BY <2>1, <2>2
  <1>3. CASE Tick
    BY <1>1, <1>2, <1>3 DEF Tick
  <1>4. ASSUME NEW t \in Thread, LookShared(t)
        PROVE  \A p \in Process : local'[p].is \/ local'[p] = None
    <2> DEFINE entry == [shared EXCEPT !.age = 0]
    <2>1. entry.is
      BY <1>1, <1>4 DEF LookShared, Cached
    <2>2. local' = [local EXCEPT ![Home(t)] = entry]
      BY <1>4 DEF LookShared
    <2> HIDE DEF entry
    <2> QED
      BY <1>1, <2>1, <2>2
  <1>5. ASSUME NEW t \in Thread, Render(t) \/ Cache(t) \/ Invoke(t), ~LookShared(t)
        PROVE  \A p \in Process : local'[p].is \/ local'[p] = None
    <2>1. \/ UNCHANGED local \/ local' = [local EXCEPT ![Home(t)] = Entry]
          \/ local' = [local EXCEPT ![Home(t)] = IF @.is THEN AfterHit(@) ELSE None]
      BY <1>5 DEF Render, BeginStructured, ReadTemplates, ReadFails, PublishTemplates,
         ChooseTemplate, Cache, BeginJudge, LookLocal, MissShared, StoreShared, caches,
         Invoke, SkipProvider, Ask, NoProvider, Answer, FailRetryable, FailFinal
    <2> QED
      BY <1>1, <2>1 DEF AfterHit, Entry
  <1>6. ASSUME NEW t \in Thread, Render(t) \/ Cache(t) \/ Invoke(t)
        PROVE  shared'.is \/ shared' = None
    <2>1. shared' \in {shared, Entry}
      BY <1>6 DEF Render, BeginStructured, ReadTemplates, ReadFails, PublishTemplates,
         ChooseTemplate, Cache, BeginJudge, LookLocal, LookShared, MissShared, StoreShared,
         caches, Invoke, SkipProvider, Ask, NoProvider, Answer, FailRetryable, FailFinal
    <2> QED
      BY <1>1, <2>1 DEF Entry
  <1>7. ASSUME NEW p \in Process, HealthCheck(p) \/ Restart(p)
        PROVE  /\ \A q \in Process : local'[q].is \/ local'[q] = None
               /\ shared'.is \/ shared' = None
    <2>1. (UNCHANGED local \/ local' = [local EXCEPT ![p] = None]) /\ UNCHANGED shared
      BY <1>7 DEF HealthCheck, Restart, caches
    <2> QED
      BY <1>1, <2>1
  <1>8. CASE (\E v \in Version : Retire(v)) \/ UNCHANGED vars
    BY <1>1, <1>8 DEF Retire, vars, caches
  <1> QED
    BY <1>3, <1>4, <1>5, <1>6, <1>7, <1>8 DEF Next

\* A retired version stops ageing when it is in no cache.
LEMMA RetiredFades ==
    ASSUME CallsTyped, LimitsHold, [Next]_vars
    PROVE  \A v \in Version : retired'[v] <= Faded
  <1>1. /\ retired \in [Version -> Nat] /\ Faded \in Nat
        /\ \A v \in Version : retired[v] <= Faded
    BY CallsParts DEF LimitsHold
  <1>2. \/ UNCHANGED retired \/ \E w \in Version : retired' = [retired EXCEPT ![w] = 0]
        \/ retired' = [v \in Version |-> IF v \in live THEN 0 ELSE Later(retired[v], Faded)]
    BY DEF Next, Render, BeginStructured, ReadTemplates, ReadFails, PublishTemplates,
       ChooseTemplate, Cache, BeginJudge, LookLocal, LookShared, MissShared, StoreShared,
       Invoke, SkipProvider, Ask, NoProvider, Answer, FailRetryable, FailFinal, HealthCheck,
       Restart, Retire, Tick, templates, vars
  <1> QED
    BY <1>1, <1>2 DEF Later

\* A thread passes to the next provider only from one that is in the chain.
LEMMA ThreadInChain ==
    ASSUME CallsTyped, LimitsHold, NEW t \in Thread, Render(t) \/ Cache(t) \/ Invoke(t)
    PROVE  \A u \in Thread : InChain(call'[u])
  <1>1. /\ call \in [Thread -> Record] /\ call[t] \in Record /\ Len(Chain) \in Nat
        /\ \A u \in Thread : InChain(call[u])
    BY CallsParts DEF LimitsHold
  <1>2. ASSUME NEW c, call' = [call EXCEPT ![t] = c], InChain(c)
        PROVE  \A u \in Thread : InChain(call'[u])
    BY <1>1, <1>2
  <1>3. ASSUME NEW c, c.next = 1, c.pc # "waiting"
        PROVE  InChain(c)
    BY <1>1, <1>3 DEF InChain
  <1>4. ASSUME NEW c, c.next = call[t].next, c.pc # "waiting"
        PROVE  InChain(c)
    BY <1>1, <1>4 DEF InChain
  <1>5. ASSUME NEW c, c.next = call[t].next + 1, c.pc # "waiting", call[t].next <= Len(Chain)
        PROVE  InChain(c)
    BY <1>1, <1>5 DEF InChain
  <1>6. CASE BeginStructured(t)
    <2> DEFINE c == [Idle EXCEPT !.kind = "structured",
                                 !.pc = IF IsStale(Home(t)) THEN "load" ELSE "choose"]
    <2>1. call' = [call EXCEPT ![t] = c] /\ c.next = 1 /\ c.pc # "waiting"
      BY <1>6 DEF BeginStructured, Move, Idle
    <2> QED
      BY <1>2, <1>3, <2>1
  <1>7. CASE BeginJudge(t)
    <2> DEFINE c == [Idle EXCEPT !.kind = "judge", !.pc = "lookup"]
    <2>1. call' = [call EXCEPT ![t] = c] /\ c.next = 1 /\ c.pc # "waiting"
      BY <1>7 DEF BeginJudge, Move, Idle
    <2> QED
      BY <1>2, <1>3, <2>1
  <1>8. InChain(Idle)
    BY <1>3 DEF Idle
  <1>9. \A to : To(t, to).pc = to /\ To(t, to).next = call[t].next
    BY <1>1 DEF To, Record
  <1>10. CASE ReadTemplates(t) \/ ReadFails(t) \/ PublishTemplates(t) \/ ChooseTemplate(t)
    <2>1. PICK c \in {Idle, [To(t, "loaded") EXCEPT !.rows = live],
                      [To(t, "choose") EXCEPT !.failed = TRUE],
                      [To(t, "choose") EXCEPT !.rows = {}, !.read = 0],
                      [To(t, "ask") EXCEPT !.failed = FALSE]} :
              call' = [call EXCEPT ![t] = c]
      BY <1>10 DEF ReadTemplates, ReadFails, PublishTemplates, ChooseTemplate, Move
    <2>2. c = Idle \/ (c.next = call[t].next /\ c.pc # "waiting")
      BY <1>1, <2>1 DEF To, Record
    <2> QED
      BY <1>2, <1>4, <1>8, <2>1, <2>2
  <1>11. CASE \/ LookLocal(t) \/ LookShared(t) \/ MissShared(t) \/ StoreShared(t)
              \/ NoProvider(t) \/ Answer(t) \/ FailFinal(t)
    <2>1. PICK c \in {Idle, To(t, "redis"), To(t, "ask"), To(t, "store")} :
              call' = [call EXCEPT ![t] = c]
      BY <1>11 DEF LookLocal, LookShared, MissShared, StoreShared, NoProvider, Answer,
         FailFinal, Move
    <2>2. c = Idle \/ (c.next = call[t].next /\ c.pc # "waiting")
      BY <1>9, <2>1
    <2> QED
      BY <1>2, <1>4, <1>8, <2>1, <2>2
  <1>12. CASE Ask(t)
    <2>1. call' = [call EXCEPT ![t] = To(t, "waiting")] /\ ~(call[t].next > Len(Chain))
      BY <1>12 DEF Ask, Move, Exhausted
    <2>2. InChain(To(t, "waiting"))
      BY <1>1, <1>9, <2>1 DEF InChain
    <2> QED
      BY <1>2, <2>1, <2>2
  <1>13. CASE SkipProvider(t)
    <2> DEFINE c == [call[t] EXCEPT !.next = @ + 1]
    <2>1. /\ call[t].pc = "ask" /\ call' = [call EXCEPT ![t] = c]
          /\ ~(call[t].next > Len(Chain))
      BY <1>13 DEF SkipProvider, Move, Exhausted
    <2>2. c.next = call[t].next + 1 /\ c.pc # "waiting" /\ call[t].next <= Len(Chain)
      BY <1>1, <2>1 DEF Record, InChain
    <2> HIDE DEF c
    <2> QED
      BY <1>2, <1>5, <2>1, <2>2
  <1>14. CASE FailRetryable(t)
    <2> DEFINE c == [To(t, "ask") EXCEPT !.next = @ + 1]
    <2>1. call[t].pc = "waiting" /\ call' = [call EXCEPT ![t] = c]
      BY <1>14 DEF FailRetryable, Move
    <2>2. c.next = call[t].next + 1 /\ c.pc # "waiting" /\ call[t].next <= Len(Chain)
      BY <1>1, <2>1 DEF To, Record, InChain
    <2> HIDE DEF c
    <2> QED
      BY <1>2, <1>5, <2>1, <2>2
  <1> QED
    BY <1>6, <1>7, <1>10, <1>11, <1>12, <1>13, <1>14 DEF Render, Cache, Invoke

LEMMA CallsInChain ==
    ASSUME CallsTyped, LimitsHold, [Next]_vars
    PROVE  \A u \in Thread : InChain(call'[u])
  <1>1. call \in [Thread -> Record] /\ \A u \in Thread : InChain(call[u])
    BY CallsParts DEF LimitsHold
  <1>2. ASSUME NEW p \in Process, Restart(p)
        PROVE  \A u \in Thread : InChain(call'[u])
    <2>1. InChain(Idle)
      BY CallsParts DEF InChain, Idle
    <2> QED
      BY <1>1, <1>2, <2>1 DEF Restart
  <1>3. CASE Tick
    <2> SUFFICES ASSUME NEW u \in Thread
                 PROVE  InChain(call'[u])
      OBVIOUS
    <2>1. call'[u] = [call[u] EXCEPT !.read = IF call[u].pc = "loaded" THEN @ + 1 ELSE @]
      BY <1>3 DEF Tick
    <2>2. call'[u].pc = call[u].pc /\ call'[u].next = call[u].next
      BY <1>1, <2>1 DEF Record
    <2> QED
      BY <1>1, <2>2 DEF InChain
  <1>4. CASE \/ \E p \in Process : HealthCheck(p)
             \/ \E v \in Version : Retire(v)
             \/ UNCHANGED vars
    BY <1>1, <1>4 DEF HealthCheck, Retire, vars
  <1> QED
    BY <1>2, <1>3, <1>4, ThreadInChain DEF Next

\* Every variable keeps its type: failures and cooldowns stay within their limits, an entry
\* of either cache expires with its period, and no thread leaves the chain of providers.
THEOREM CallsTypeCorrect == Spec => []TypeOK
  <1> DEFINE Inv == CallsTyped /\ LimitsHold
  <1>1. Init => Inv
    BY ExpireInit, CircuitInit, RowsInit, LimitsInit DEF CallsTyped
  <1>2. Inv /\ [Next]_vars => Inv'
    <2> SUFFICES ASSUME CallsTyped, LimitsHold, [Next]_vars
                 PROVE  CallsTyped' /\ LimitsHold'
      OBVIOUS
    <2>1. CallsTyped'
      BY CallsTypedNext
    <2> QED
      BY <2>1, CooldownHeld, EntriesCleared, RetiredFades, CallsInChain DEF LimitsHold, InChain
  <1>3. Inv => TypeOK
    <2> SUFFICES ASSUME CallsTyped, LimitsHold
                 PROVE  TypeOK
      OBVIOUS
    <2>0. /\ shared \in Cached /\ local \in [Process -> Cached]
          /\ circuit \in [Process -> [Provider -> Circuit]]
          /\ retired \in [Version -> Nat] /\ call \in [Thread -> Record]
          /\ Len(Chain) \in Nat /\ Cooldown \in Nat /\ Faded \in Nat
      BY CallsParts
    <2>1. ASSUME NEW p \in Process, NEW v \in Provider
          PROVE  circuit[p][v] \in
                     [failures : 0..(Threshold + Cardinality(Thread)), left : 0..Cooldown]
      <3>1. circuit[p][v] \in Circuit /\ circuit[p][v].left <= Cooldown
        BY <2>0 DEF LimitsHold
      <3>2. circuit[p][v].failures + Cardinality(Waiting(p, v))
                < Threshold + Cardinality(Here(p))
        BY DEF CallsTyped, CircuitsCount, StrikesAreBounded, Here
      <3>3. Here(p) \subseteq Thread /\ IsFiniteSet(Thread)
        BY ModelCallsAssumption DEF Here
      <3>4. Cardinality(Here(p)) <= Cardinality(Thread) /\ Cardinality(Thread) \in Nat
        BY <3>3, FS_Subset, FS_CardinalityType
      <3>5. Cardinality(Here(p)) \in Nat /\ Cardinality(Waiting(p, v)) \in Nat
        BY Counted
      <3> QED
        BY <2>0, <3>1, <3>2, <3>4, <3>5, ModelCallsAssumption DEF Circuit
    <2>2. ASSUME NEW p \in Process
          PROVE  local[p] \in [is : BOOLEAN, made : Nat, age : 0..(TTL - 1)]
      <3>0. local[p] \in Cached
        BY <2>0
      <3>1. /\ local[p].is \/ local[p] = None
            /\ local[p].is => local[p].age < TTL
        BY <2>0 DEF LimitsHold, CallsTyped, EntriesExpire
      <3>2. local[p].age < TTL
        <4>1. CASE local[p].is
          BY <3>1, <4>1
        <4>2. CASE local[p] = None
          BY <4>2, Periods DEF None
        <4> QED
          BY <3>1, <4>1, <4>2
      <3> QED
        BY <3>0, <3>2, Periods DEF Cached
    <2>3. shared \in [is : BOOLEAN, made : 0..(TTL - 1), age : 0..(TTL - 1)]
      <3>1. /\ shared.is \/ shared = None
            /\ shared.is => shared.made = shared.age /\ shared.age < TTL
        BY DEF LimitsHold, CallsTyped, EntriesExpire
      <3> QED
        BY <2>0, <3>1, Periods DEF Cached, None
    <2>4. live \subseteq Version /\ registry \in [Process -> [rows : SUBSET Version, age : 0..Stale]]
      BY DEF CallsTyped, RowsWereLive
    <2>5. retired \in [Version -> 0..Faded]
      BY <2>0 DEF LimitsHold
    <2>6. ASSUME NEW t \in Thread
          PROVE  call[t] \in [pc : CallState, kind : CallKind, next : 1..(Len(Chain) + 1),
                              rows : SUBSET Version, read : 0..MaxLoad, failed : BOOLEAN]
      BY <2>0 DEF LimitsHold, InChain, Record
    <2> QED
      BY <2>0, <2>1, <2>2, <2>3, <2>4, <2>5, <2>6 DEF TypeOK
  <1> QED
    BY <1>1, <1>2, <1>3, PTL DEF Spec
=============================================================================
