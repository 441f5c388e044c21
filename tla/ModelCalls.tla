----------------------------- MODULE ModelCalls -----------------------------
(***************************************************************************)
(* How the agents' processes call language models: the prompt is rendered  *)
(* from the templates each process caches (prompt_registry), the providers *)
(* of a role are tried in turn behind a circuit breaker per process, and   *)
(* the judge's plain answers are cached in the process and in Redis        *)
(* (llm_gateway).                                                          *)
(*                                                                         *)
(* Time stamps are kept as ages, and ages stop growing where the code no   *)
(* longer tells them apart.  Time passes only while a thread waits for a   *)
(* provider or for the database: everything else takes microseconds where  *)
(* the periods are of tens of seconds.                                     *)
(***************************************************************************)
EXTENDS Integers, Sequences, FiniteSets

CONSTANTS Process, Thread,
          Home(_),    \* the process of a thread
          Makes(_),   \* the kinds of call a thread makes
          Chain,      \* the providers of the role, in order (AGENT_*_MODEL_CHAIN)
          Configured, \* those whose credentials are set
          Version,    \* versions of the one prompt template
          Threshold,  \* AGENT_LLM_PROVIDER_FAILURE_THRESHOLD
          Cooldown,   \* AGENT_LLM_PROVIDER_COOLDOWN_SECONDS
          TTL,        \* _cache_ttl_seconds and _cache_ttl: both are 300 s
          MaxLoad     \* bound: time a template query takes

ASSUME ModelCallsAssumption ==
    /\ \A t \in Thread : /\ Home(t) \in Process
                         /\ Makes(t) \subseteq {"judge", "structured"}
    /\ IsFiniteSet(Thread) /\ Chain \in Seq({Chain[i] : i \in DOMAIN Chain})
    /\ Threshold \in Nat \ {0} /\ {Cooldown, TTL, MaxLoad} \subseteq Nat \ {0}

VARIABLES
    circuit,  \* [Process -> [provider -> failures, and the time it stays open]]
    local,    \* [Process -> the judge's answer in the process, or None] (L1)
    shared,   \* the judge's answer in Redis, or None (L2)
    live,     \* versions that are active or staged in prompt_templates
    retired,  \* history: [Version -> time since it left live]
    registry, \* [Process -> cached versions and the age of the cache]
    call      \* [Thread -> the call it makes: where it stands, its kind, its position in
              \*  Chain, the rows of its template query and their age, and whether
              \*  that query failed]

caches == <<local, shared>>
templates == <<live, retired>>
vars == <<circuit, caches, templates, registry, call>>
-----------------------------------------------------------------------------
None == [is |-> FALSE, made |-> 0, age |-> 0]
Entry == [is |-> TRUE, made |-> 0, age |-> 0]  \* made: time since the provider answered
Fallback == 0                      \* the template in the code
Provider == {Chain[i] : i \in DOMAIN Chain}
Closed == [failures |-> 0, left |-> 0]
CallState == {"idle", "load", "loaded", "choose", "lookup", "redis", "ask", "waiting", "store"}
CallKind == {"none", "judge", "structured"}
Idle == [pc |-> "idle", kind |-> "none", next |-> 1, rows |-> {}, read |-> 0,
         failed |-> FALSE]
Stale == TTL + 1                   \* the age of a registry that must be read again
Faded == TTL + MaxLoad + 1         \* a version retired so long ago is in no cache

TypeOK ==
    /\ circuit \in [Process -> [Provider ->
                      [failures : 0..(Threshold + Cardinality(Thread)), left : 0..Cooldown]]]
    /\ local \in [Process -> [is : BOOLEAN, made : Nat, age : 0..(TTL - 1)]]
    /\ shared \in [is : BOOLEAN, made : 0..(TTL - 1), age : 0..(TTL - 1)]
    /\ live \subseteq Version /\ retired \in [Version -> 0..Faded]
    /\ registry \in [Process -> [rows : SUBSET Version, age : 0..Stale]]
    /\ call \in [Thread ->
          [pc : CallState, kind : CallKind, next : 1..(Len(Chain) + 1),
           rows : SUBSET Version, read : 0..MaxLoad, failed : BOOLEAN]]

\* A registry as it is at import: the database may not answer.
Imported == {[rows |-> {}, age |-> Stale], [rows |-> live, age |-> 0]}

Init ==
    /\ circuit = [p \in Process |-> [v \in Provider |-> Closed]]
    /\ local = [p \in Process |-> None] /\ shared = None
    /\ live = Version /\ retired = [v \in Version |-> 0]
    /\ registry \in [Process -> Imported]
    /\ call = [t \in Thread |-> Idle]

\* Thread t stands at `from` and its call becomes c.
Move(t, from, c) == call[t].pc = from /\ call' = [call EXCEPT ![t] = c]
To(t, to) == [call[t] EXCEPT !.pc = to]
-----------------------------------------------------------------------------
(* The prompt: PromptRegistry.                                             *)

\* _ensure_fresh: the stamp is read without the lock.
IsStale(p) == registry[p].age > TTL

\* An agent asks for structured output: _render_prompt comes first.
BeginStructured(t) ==
    /\ "structured" \in Makes(t)
    /\ Move(t, "idle", [Idle EXCEPT !.kind = "structured",
                                    !.pc = IF IsStale(Home(t)) THEN "load" ELSE "choose"])
    /\ UNCHANGED <<circuit, caches, templates, registry>>

\* _refresh: the query reads the live versions of one moment.
ReadTemplates(t) ==
    /\ Move(t, "load", [To(t, "loaded") EXCEPT !.rows = live])
    /\ UNCHANGED <<circuit, caches, templates, registry>>

\* What a process keeps when a query fails: the versions it had, as old as they are.
StampFailure(r) == [r EXCEPT !.age = 0]   \* as if the stamp were set before the query
AfterFailure(r) == r

ReadFails(t) ==
    /\ Move(t, "load", [To(t, "choose") EXCEPT !.failed = TRUE])
    /\ registry' = [registry EXCEPT ![Home(t)] = AfterFailure(@)]
    /\ UNCHANGED <<circuit, caches, templates>>

\* The lock covers only the assignment: a slower, older query may publish last.
PublishTemplates(t) ==
    /\ Move(t, "loaded", [To(t, "choose") EXCEPT !.rows = {}, !.read = 0])
    /\ registry' = [registry EXCEPT ![Home(t)] = [rows |-> call[t].rows, age |-> 0]]
    /\ UNCHANGED <<circuit, caches, templates>>

\* Only a version of the table is shown with examples.
TakesExamples(v) == v # Fallback

\* _select_variant draws a cached version; with none, or one that does not render, the
\* template in the code is used.  An example without an expected output raises: the
\* agent falls back without a call.
ChooseTemplate(t) ==
    /\ \E v \in registry[Home(t)].rows \cup {Fallback} :
          \/ Move(t, "choose", [To(t, "ask") EXCEPT !.failed = FALSE])
          \/ TakesExamples(v) /\ Move(t, "choose", Idle)
    /\ UNCHANGED <<circuit, caches, templates, registry>>

\* External: an operator retires a version in the table.
Retire(v) ==
    /\ v \in live /\ live' = live \ {v}
    /\ retired' = [retired EXCEPT ![v] = 0]
    /\ UNCHANGED <<circuit, caches, registry, call>>
-----------------------------------------------------------------------------
(* The judge's cache.                                                      *)

\* A plain call of a cached role without a token callback: the skill evolution.
BeginJudge(t) ==
    /\ "judge" \in Makes(t)
    /\ Move(t, "idle", [Idle EXCEPT !.kind = "judge", !.pc = "lookup"])
    /\ UNCHANGED <<circuit, caches, templates, registry>>

\* What a hit leaves in the process: the entry and its stamp.
SlidingHit(entry) == [entry EXCEPT !.age = 0]   \* as if a hit renewed the period
AfterHit(entry) == entry

LookLocal(t) ==
    LET p == Home(t)
    IN /\ Move(t, "lookup", IF local[p].is THEN Idle ELSE To(t, "redis"))
       /\ local' = [local EXCEPT ![p] = IF @.is THEN AfterHit(@) ELSE None]
       /\ UNCHANGED <<circuit, shared, templates, registry>>

\* A hit in Redis is stamped anew in the process.
LookShared(t) ==
    /\ shared.is /\ Move(t, "redis", Idle)
    /\ local' = [local EXCEPT ![Home(t)] = [shared EXCEPT !.age = 0]]
    /\ UNCHANGED <<circuit, shared, templates, registry>>

\* A miss, or Redis is down.
MissShared(t) ==
    /\ Move(t, "redis", To(t, "ask"))
    /\ UNCHANGED <<circuit, caches, templates, registry>>

\* SETEX after the answer; a failed write is only logged.
StoreShared(t) ==
    /\ Move(t, "store", Idle)
    /\ shared' \in {shared, Entry}
    /\ UNCHANGED <<circuit, local, templates, registry>>
-----------------------------------------------------------------------------
(* The providers: invoke and invoke_structured.                            *)

Target(t) == Chain[call[t].next]
Exhausted(t) == call[t].next > Len(Chain)
Waiting(p, v) == {t \in Thread : Home(t) = p /\ call[t].pc = "waiting" /\ Target(t) = v}
IsOpen(p, v) == circuit[p][v].left > 0

\* _report_failure: the circuit opens at the threshold.
TripsLate(n) == n > Threshold             \* as if the threshold were exceeded
Trips(n) == n >= Threshold
Struck(c) == [failures |-> c.failures + 1,
              left |-> IF Trips(c.failures + 1) THEN Cooldown ELSE c.left]

\* _can_invoke: a circuit that has opened and whose time is over forgets its failures.
Probed(c) == IF Trips(c.failures) /\ c.left = 0 THEN Closed ELSE c

\* A provider without credentials or with an open circuit is passed over.
SkipProvider(t) ==
    /\ ~Exhausted(t) /\ (Target(t) \in Configured => IsOpen(Home(t), Target(t)))
    /\ Move(t, "ask", [call[t] EXCEPT !.next = @ + 1])
    /\ UNCHANGED <<circuit, caches, templates, registry>>

Ask(t) ==
    /\ ~Exhausted(t) /\ Target(t) \in Configured /\ ~IsOpen(Home(t), Target(t))
    /\ Move(t, "ask", To(t, "waiting"))
    /\ circuit' = [circuit EXCEPT ![Home(t)][Target(t)] = Probed(@)]
    /\ UNCHANGED <<caches, templates, registry>>

\* LLMGatewayError: no provider was available.
NoProvider(t) ==
    /\ Exhausted(t) /\ Move(t, "ask", Idle)
    /\ UNCHANGED <<circuit, caches, templates, registry>>

\* The provider answers: the circuit is closed whatever happened meanwhile, and
\* the judge's answer goes to the process's cache.
Answer(t) ==
    /\ Move(t, "waiting", IF call[t].kind = "judge" THEN To(t, "store") ELSE Idle)
    /\ circuit' = [circuit EXCEPT ![Home(t)][Target(t)] = Closed]
    /\ local' = IF call[t].kind = "judge"
                THEN [local EXCEPT ![Home(t)] = Entry] ELSE local
    /\ UNCHANGED <<shared, templates, registry>>

\* A timeout, a rate limit or an overload: the next provider is tried.
FailRetryable(t) ==
    /\ Move(t, "waiting", [To(t, "ask") EXCEPT !.next = @ + 1])
    /\ circuit' = [circuit EXCEPT ![Home(t)][Target(t)] = Struck(@)]
    /\ UNCHANGED <<caches, templates, registry>>

\* Refused credentials, an empty response, an invalid object: the call is over,
\* no other provider is tried and the circuit is not told.
FailFinal(t) ==
    /\ Move(t, "waiting", Idle)
    /\ UNCHANGED <<circuit, caches, templates, registry>>

\* GET /health probes every circuit, which half-opens those whose time is over.
HealthCheck(p) ==
    /\ circuit' = [circuit EXCEPT ![p] = [v \in Provider |-> Probed(@[v])]]
    /\ UNCHANGED <<caches, templates, registry, call>>

\* A process dies and starts again: Redis and the tables are what is left.
Restart(p) ==
    /\ circuit' = [circuit EXCEPT ![p] = [v \in Provider |-> Closed]]
    /\ local' = [local EXCEPT ![p] = None]
    /\ \E r \in Imported : registry' = [registry EXCEPT ![p] = r]
    /\ call' = [t \in Thread |-> IF Home(t) = p THEN Idle ELSE call[t]]
    /\ UNCHANGED <<shared, templates>>

\* An entry whose period is over is as good as none: Redis drops it, and so does the
\* process when it looks at it.
OlderKept(entry) == IF entry.is /\ entry.age < TTL   \* as if the period were inclusive
                    THEN [entry EXCEPT !.made = @ + 1, !.age = @ + 1] ELSE None
Older(entry) == IF entry.is /\ entry.age + 1 < TTL
                THEN [entry EXCEPT !.made = @ + 1, !.age = @ + 1] ELSE None
Later(time, limit) == IF time < limit THEN time + 1 ELSE limit

\* Time passes only in calls of providers and of the database, and the latter
\* answers within MaxLoad.
Tick ==
    /\ \A t \in Thread : \/ call[t].pc \in {"idle", "waiting"}
                         \/ call[t].pc = "loaded" /\ call[t].read < MaxLoad
    /\ circuit' = [p \in Process |-> [v \in Provider |->
                      [circuit[p][v] EXCEPT !.left = IF @ = 0 THEN 0 ELSE @ - 1]]]
    /\ local' = [p \in Process |-> Older(local[p])] /\ shared' = Older(shared)
    /\ retired' = [v \in Version |-> IF v \in live THEN 0 ELSE Later(retired[v], Faded)]
    /\ registry' = [p \in Process |-> [registry[p] EXCEPT !.age = Later(@, Stale)]]
    /\ call' = [t \in Thread |->
                   [call[t] EXCEPT !.read = IF call[t].pc = "loaded" THEN @ + 1 ELSE @]]
    /\ UNCHANGED live

Render(t) == BeginStructured(t) \/ ReadTemplates(t) \/ ReadFails(t) \/ PublishTemplates(t)
                \/ ChooseTemplate(t)
Cache(t) == BeginJudge(t) \/ LookLocal(t) \/ LookShared(t) \/ MissShared(t) \/ StoreShared(t)
Invoke(t) == SkipProvider(t) \/ Ask(t) \/ NoProvider(t) \/ Answer(t) \/ FailRetryable(t)
                \/ FailFinal(t)

Next ==
    \/ \E t \in Thread : Render(t) \/ Cache(t) \/ Invoke(t)
    \/ \E p \in Process : HealthCheck(p) \/ Restart(p)
    \/ \E v \in Version : Retire(v)
    \/ Tick

Spec == Init /\ [][Next]_vars
-----------------------------------------------------------------------------
\* A judge's answer that a lookup may still return was made less than two periods
\* ago: a hit in Redis at the end of its period lives for one more in the process,
\* and no chain of processes prolongs it further (LLMGateway._cache_get).
AnswersAreFresh ==
    \A p \in Process : local[p].is => local[p].made < 2 * TTL

\* Why: an entry in Redis is as old as its answer, and one in the process was copied from
\* there less than a period ago, if it was.
EntriesExpire ==
    /\ shared \in [is : BOOLEAN, made : Nat, age : Nat]
    /\ shared.is => shared.made = shared.age /\ shared.age < TTL
    /\ local \in [Process -> [is : BOOLEAN, made : Nat, age : Nat]]
    /\ \A p \in Process : local[p].is => local[p].age < TTL /\ local[p].made < local[p].age + TTL

\* Between two successes, or two cooldowns, a failing provider is struck by fewer
\* calls of a process than the threshold plus the process's threads, those in
\* flight when the circuit opens included (LLMGateway._report_failure).
StrikesAreBounded ==
    \A p \in Process, v \in Provider :
        circuit[p][v].failures + Cardinality(Waiting(p, v))
            < Threshold + Cardinality({t \in Thread : Home(t) = p})

\* With the types of what it counts, this is inductive: a call that finds the circuit
\* closed finds it below the threshold.
CircuitsCount ==
    /\ circuit \in [Process -> [Provider -> [failures : Nat, left : Nat]]]
    /\ StrikesAreBounded

\* A prompt is drawn among versions retired at most a period and a query ago, unless
\* the database failed in this very call: neither a slow query that publishes after a
\* newer one, nor a failure in another call, keeps a retired version longer
\* (PromptRegistry._refresh).
RetiredPromptsFade ==
    \A t \in Thread : call[t].pc = "choose" /\ ~call[t].failed =>
        \A v \in registry[Home(t)].rows : v \in live \/ retired[v] < Faded

\* Why: what a query has read, and what a process keeps, was live when the query began, and
\* a thread draws at once from what it has found young enough.
RowsWereLive ==
    /\ live \subseteq Version /\ retired \in [Version -> Nat]
    /\ registry \in [Process -> [rows : SUBSET Version, age : 0..Stale]]
    /\ call \in [Thread -> [pc : CallState, kind : CallKind, next : Nat, rows : SUBSET Version,
                            read : 0..MaxLoad, failed : BOOLEAN]]
    /\ \A t \in Thread, v \in Version :
          call[t].pc = "loaded" /\ v \in call[t].rows => v \in live \/ retired[v] <= call[t].read
    /\ \A p \in Process, v \in Version :
          v \in registry[p].rows =>
              v \in live \/ registry[p].age = Stale \/ retired[v] <= registry[p].age + MaxLoad
    /\ \A t \in Thread :
          call[t].pc = "choose" /\ ~call[t].failed => registry[Home(t)].age <= TTL

\* Why: nothing is left of an entry that expired, and a thread that waits has a provider.
InChain(c) == c.next \in 1..(Len(Chain) + 1) /\ (c.pc = "waiting" => c.next <= Len(Chain))
LimitsHold ==
    /\ \A p \in Process, v \in Provider : circuit[p][v].left <= Cooldown
    /\ \A p \in Process : local[p].is \/ local[p] = None
    /\ shared.is \/ shared = None
    /\ \A v \in Version : retired[v] <= Faded
    /\ \A t \in Thread : InChain(call[t])
=============================================================================
