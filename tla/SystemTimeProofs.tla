-------------------------- MODULE SystemTimeProofs ---------------------------
(***************************************************************************)
(* Proofs about SystemTime, for any zones and any number of requests and   *)
(* changes: reference counts are exact, superseded and late answers are    *)
(* inert, and the controls show what timedated reports.                    *)
(***************************************************************************)
EXTENDS SystemTime, FiniteSetTheorems, SequenceTheorems, TLAPS

(***************************************************************************)
(* The inductive invariant.                                                *)
(***************************************************************************)
\* A request carries a value of its own kind.
WellFormed(req) ==
  /\ req.op = "timezone" => req.value \in Zone
  /\ req.op = "ntp" => req.value \in {"on", "off"}

RequestsWellFormed == \A req \in unresolved : WellFormed(req)

\* Finitely many calls, no two of them for one generation of one operation,
\* and none from the future: a generation is used once.
CallsDistinct ==
  /\ IsFiniteSet(calls)
  /\ \A c \in calls : c.req.gen <= generation[c.req.op]
  /\ \A c, d \in calls : c.req.op = d.req.op /\ c.req.gen = d.req.gen => c = d

\* Only an open panel listens, only once it is connected, and it has handled
\* everything its proxy has.
Listens ==
  /\ owned => open /\ shown = cache
  /\ connecting => ~owned /\ calls = {}

\* What the proxy will know when all signals under way have arrived.
Latest == IF signals = <<>> THEN cache ELSE signals[Len(signals)]

\* A proxy that exists is told of every change, in order.
ProxyTold ==
  IF srefs = 0 THEN signals = <<>> ELSE Latest = Actual

IInv ==
  /\ TypeOK
  /\ RequestsWellFormed
  /\ CallsDistinct
  /\ ReferencesExact
  /\ ActiveIsNewest
  /\ Listens
  /\ ProxyTold

-----------------------------------------------------------------------------
(***************************************************************************)
(* The operators.                                                          *)
(***************************************************************************)
\* An answer changes results and nothing else: the calls keep their requests
\* and their number (timedated's reply, the D-Bus timeout).
LEMMA AnswerKeeps ==
  ASSUME calls \subseteq Call, CallsDistinct, NEW reqs, NEW r \in {"ok", "error"},
         Answer(reqs, r)
  PROVE  /\ calls' \subseteq Call
         /\ IsFiniteSet(calls') /\ Cardinality(calls') = Cardinality(calls)
         /\ \A c \in calls' : \E d \in calls : c.req = d.req
         /\ \A d \in calls : \E c \in calls' : c.req = d.req
         /\ \A c, d \in calls' : c.req.op = d.req.op /\ c.req.gen = d.req.gen => c = d
<1> DEFINE F(c) == IF c.req \in reqs /\ c.result = "waiting" THEN [c EXCEPT !.result = r] ELSE c
           f == [c \in calls |-> F(c)]
<1>1. calls' = {F(c) : c \in calls}
  BY DEF Answer
<1>2. \A c \in calls : F(c) \in Call /\ F(c).req = c.req
  BY DEF Call
<1> HIDE DEF F
<1>3. \A c, d \in calls : c.req.op = d.req.op /\ c.req.gen = d.req.gen => c = d
  BY DEF CallsDistinct
<1>4. f \in Bijection(calls, calls')
  <2>1. f \in [calls -> calls']
    BY <1>1
  <2>2. \A c, d \in calls : f[c] = f[d] => c = d
    BY <1>2, <1>3
  <2>3. \A e \in calls' : \E c \in calls : f[c] = e
    BY <1>1
  <2>4. QED BY <2>1, <2>2, <2>3 DEF Bijection, Injection, Surjection, IsInjective
<1>5. IsFiniteSet(calls') /\ Cardinality(calls') = Cardinality(calls)
  BY <1>4, FS_Bijection DEF CallsDistinct, ExistsBijection
<1>6. QED BY <1>1, <1>2, <1>3, <1>5

\* What timedated does with a request leaves it with properties.
LEMMA EffectType ==
  ASSUME system \in Properties, NEW req \in Request, WellFormed(req)
  PROVE  Effect(req) \in Properties
<1>1. CASE req.op = "timezone"
  BY <1>1 DEF Effect, Properties, WellFormed
<1>2. CASE req.op = "ntp"
  BY <1>2 DEF Effect, Properties, WellFormed
<1>3. CASE req.op \notin {"timezone", "ntp"}
  BY <1>3 DEF Effect
<1>4. QED BY <1>1, <1>2, <1>3

\* A signal sent to a proxy is what that proxy will know last.
LEMMA SignalLatest ==
  ASSUME TypeOK, NEW report \in Reported, Signal(report)
  PROVE  /\ signals' \in Seq(Reported)
         /\ srefs > 0 => signals' # <<>> /\ signals'[Len(signals')] = report
         /\ srefs = 0 => signals' = signals
BY AppendProperties DEF TypeOK, Signal

\* Handling the first signal leaves what the proxy will know last
\* (on_properties_changed).
LEMMA HandledLatest ==
  ASSUME TypeOK, on_properties_changed
  PROVE  /\ signals' \in Seq(Reported) /\ cache' \in Reported
         /\ Latest' = Latest
<1>1. signals \in Seq(Reported) /\ signals # <<>> /\ cache' = Head(signals) /\ signals' = Tail(signals)
  BY DEF TypeOK, on_properties_changed
<1>2. Head(signals) \in Reported /\ Tail(signals) \in Seq(Reported)
  BY <1>1, HeadTailProperties
<1>3. CASE Tail(signals) = <<>>
  <2>1. Len(signals) = 1
    <3>1. Len(<<>>) = 0
      OBVIOUS
    <3>2. Len(signals) \in Nat /\ Len(Tail(signals)) = Len(signals) - 1
      BY <1>1, HeadTailProperties, LenProperties
    <3>3. Len(Tail(signals)) = 0
      BY <1>3, <3>1
    <3>4. QED BY <3>2, <3>3
  <2>2. Head(signals) = signals[1]
    BY <1>1
  <2>3. QED BY <1>1, <1>2, <1>3, <2>1, <2>2 DEF Latest
<1>4. CASE Tail(signals) # <<>>
  <2>1. Len(Tail(signals)) = Len(signals) - 1 /\ Len(Tail(signals)) \in Nat \ {0}
    BY <1>1, <1>2, <1>4, HeadTailProperties, EmptySeq
  <2>2. Tail(signals)[Len(Tail(signals))] = signals[Len(signals)]
    BY <1>1, <2>1, HeadTailProperties
  <2>3. QED BY <1>1, <1>2, <1>4, <2>2 DEF Latest
<1>5. QED BY <1>3, <1>4

-----------------------------------------------------------------------------
(***************************************************************************)
(* Type correctness.                                                       *)
(***************************************************************************)
\* The initial state satisfies the inductive invariant.
LEMMA InvInit == Init => IInv
<1> SUFFICES ASSUME Init PROVE IInv
  OBVIOUS
<1>1. TypeOK
  <2>1. signals \in Seq(Reported) /\ generation \in [Operation -> 0..MaxRequests]
    BY EmptySeq, BoundAssumption DEF Init
  <2>2. changes \in 0..MaxChanges /\ lrefs \in Nat /\ srefs \in Nat
    BY BoundAssumption DEF Init
  <2>3. QED BY <2>1, <2>2 DEF Init, TypeOK, Reported
<1>2. IsFiniteSet({}) /\ Cardinality({}) = 0
  BY FS_EmptySet
<1>3. CallsDistinct /\ ReferencesExact
  BY <1>2 DEF Init, CallsDistinct, ReferencesExact
<1>4. QED
  BY <1>1, <1>3 DEF Init, IInv, RequestsWellFormed, ActiveIsNewest, Listens, ProxyTold

\* Every step keeps the state well typed.
LEMMA TypeStep == IInv /\ [Next]_vars => TypeOK'
<1> SUFFICES ASSUME IInv, [Next]_vars PROVE TypeOK'
  OBVIOUS
<1>0. TypeOK /\ CallsDistinct /\ RequestsWellFormed /\ ReferencesExact
  BY DEF IInv
<1>1. Actual \in Reported /\ Unavailable \in Reported /\ Cardinality(calls) \in Nat
  BY <1>0, FS_CardinalityType DEF TypeOK, Actual, Reported, CallsDistinct
<1>2. CASE system_time_service_ready \/ system_time_service_fails
  <2>1. lrefs' \in Nat
    BY <1>0, <1>1, <1>2
    DEF TypeOK, ReferencesExact, system_time_service_ready, system_time_service_fails
  <2>2. cache' \in Reported /\ shown' \in Reported
    <3>1. \/ cache' = Actual /\ shown' = cache'
          \/ cache' = cache /\ shown' = shown
      BY <1>2 DEF system_time_service_ready, system_time_service_fails, proxy
    <3>2. QED BY <1>0, <1>1, <3>1 DEF TypeOK
  <2>3. owned' \in BOOLEAN /\ connecting' \in BOOLEAN /\ srefs' \in Nat
    <3>1. \/ owned' = TRUE /\ srefs' = 1
          \/ owned' = owned /\ srefs' = srefs
      BY <1>2, Zenon DEF system_time_service_ready, system_time_service_fails
    <3>2. connecting' = FALSE
      BY <1>2 DEF system_time_service_ready, system_time_service_fails
    <3>3. owned \in BOOLEAN /\ srefs \in Nat
      BY <1>0 DEF TypeOK
    <3>4. owned' \in BOOLEAN /\ connecting' \in BOOLEAN
      BY <3>1, <3>2, <3>3, Zenon
    <3>5. QED BY <3>1, <3>3, <3>4
  <2>4. QED
    BY <1>0, <1>2, <2>1, <2>2, <2>3
    DEF TypeOK, system_time_service_ready, system_time_service_fails, timedated, proxy
<1>3. ASSUME NEW op \in Operation, NEW v \in Value, begin_system_time_operation(op, v)
      PROVE  TypeOK'
  <2>1. generation[op] + 1 \in 1..MaxRequests
    <3>1. \A o \in Operation : generation[o] \in Nat
      BY <1>0 DEF TypeOK
    <3>2. generation[op] <= Requests
      BY <3>1 DEF Operation, Requests
    <3>3. Requests \in Nat /\ Requests < MaxRequests
      BY <1>3, <3>1 DEF begin_system_time_operation, Requests, Operation
    <3>4. QED BY <3>1, <3>2, <3>3, BoundAssumption
  <2>2. generation' \in [Operation -> 0..MaxRequests]
    BY <1>0, <1>3, <2>1, BoundAssumption DEF TypeOK, begin_system_time_operation
  <2>3. unresolved' \subseteq Request /\ calls' \subseteq Call
    BY <1>0, <1>3, <2>1 DEF TypeOK, begin_system_time_operation, begin_call, Request, Call
  <2>4. QED
    BY <1>0, <1>3, <2>2, <2>3
    DEF TypeOK, begin_system_time_operation, begin_call, sync, proxy, Reported
<1>4. ASSUME NEW op \in Operation, system_time_operation_refused(op) PROVE TypeOK'
  BY <1>0, <1>4 DEF TypeOK, system_time_operation_refused, sync, timedated, proxy, Reported
<1>5. ASSUME NEW c \in calls, call_finished(c) PROVE TypeOK'
  <2>1. Cardinality(calls) \in Nat \ {0}
    BY <1>0, <1>1, FS_EmptySet DEF CallsDistinct
  <2>2. srefs' \in Nat /\ lrefs' \in Nat
    <3>1. srefs' = srefs - 1 /\ lrefs' = lrefs - 1
      BY <1>5 DEF call_finished, Unref
    <3>2. QED BY <1>0, <2>1, <3>1 DEF ReferencesExact
  <2>3. signals' \in Seq(Reported)
    BY <1>0, <1>5, EmptySeq DEF TypeOK, call_finished, Unref
  <2>4. active' \subseteq Operation /\ shown' \in Reported
    BY <1>0, <1>5
    DEF TypeOK, call_finished, system_time_operation_complete, sync, Reported
  <2>5. QED
    BY <1>0, <1>5, <2>2, <2>3, <2>4 DEF TypeOK, call_finished, timedated
<1>6. ASSUME NEW c \in calls, call_given_up(c) PROVE TypeOK'
  BY <1>0, <1>6, AnswerKeeps DEF TypeOK, call_given_up, timedated, proxy, controller
<1>7. CASE on_properties_changed
  BY <1>0, <1>7, HandledLatest
  DEF TypeOK, on_properties_changed, emit_changed, timedated
<1>8. CASE panel_free
  <2>1. srefs' \in Nat /\ lrefs' \in Nat
    BY <1>0, <1>1, <1>8 DEF TypeOK, ReferencesExact, panel_free, Unref
  <2>2. signals' \in Seq(Reported)
    BY <1>0, <1>8, EmptySeq DEF TypeOK, panel_free, Unref
  <2>3. QED BY <1>0, <1>8, <2>1, <2>2 DEF TypeOK, panel_free, timedated
<1>9. ASSUME NEW req \in unresolved, timedated_applies(req) \/ timedated_denies(req)
      PROVE  TypeOK'
  <2>1. calls' \subseteq Call
    BY <1>0, <1>9, AnswerKeeps DEF TypeOK, timedated_applies, timedated_denies
  <2>2. system' \in Properties
    BY <1>0, <1>9, EffectType
    DEF TypeOK, RequestsWellFormed, timedated_applies, timedated_denies
  <2>3. signals' \in Seq(Reported)
    <3>1. system' \in Reported
      BY <2>2 DEF Reported
    <3>2. QED
      BY <1>0, <1>9, <3>1, SignalLatest DEF TypeOK, timedated_applies, timedated_denies, proxy
  <2>4. QED
    BY <1>0, <1>9, <2>1, <2>2, <2>3
    DEF TypeOK, timedated_applies, timedated_denies, proxy, controller
<1>10. CASE OtherProgramSets
  <2>1. system' \in Reported
    BY <1>10 DEF OtherProgramSets, Reported
  <2>2. signals' \in Seq(Reported)
    BY <1>0, <1>10, <2>1, SignalLatest DEF OtherProgramSets
  <2>3. changes' \in 0..MaxChanges
    BY <1>0, <1>10, BoundAssumption DEF TypeOK, OtherProgramSets
  <2>4. QED BY <1>0, <1>10, <2>2, <2>3 DEF TypeOK, OtherProgramSets, controller
<1>11. CASE OwnerChange
  <2>1. (IF owner' THEN system ELSE Unavailable) \in Reported
    BY <1>0 DEF TypeOK, Reported
  <2>2. signals' \in Seq(Reported)
    BY <1>0, <1>11, <2>1, SignalLatest DEF OwnerChange
  <2>3. changes' \in 0..MaxChanges
    BY <1>0, <1>11, BoundAssumption DEF TypeOK, OwnerChange
  <2>4. calls' \subseteq Call
    BY <1>0, <1>11, AnswerKeeps DEF TypeOK, OwnerChange
  <2>5. owner' \in BOOLEAN
    BY <1>11 DEF OwnerChange
  <2>6. QED BY <1>0, <1>11, <2>2, <2>3, <2>4, <2>5 DEF TypeOK, OwnerChange, controller
<1>12. CASE UNCHANGED vars
  BY <1>0, <1>12 DEF TypeOK, vars, timedated, proxy, controller
<1>13. CASE UserRequests
  BY <1>3, <1>13 DEF UserRequests, Operation, Value
<1>14. QED
  BY <1>2, <1>4, <1>5, <1>6, <1>7, <1>8, <1>9, <1>10, <1>11, <1>12, <1>13 DEF Next

-----------------------------------------------------------------------------
(***************************************************************************)
(* The steps.                                                              *)
(***************************************************************************)
\* A step that only answers calls disturbs neither the counts nor the newest
\* generation.
LEMMA AnswerStep ==
  ASSUME TypeOK, CallsDistinct, ReferencesExact, ActiveIsNewest, Listens,
         NEW reqs, NEW r \in {"ok", "error"}, Answer(reqs, r),
         UNCHANGED <<srefs, lrefs, controller, cache>>
  PROVE  CallsDistinct' /\ ReferencesExact' /\ ActiveIsNewest' /\ Listens'
<1>1. /\ IsFiniteSet(calls') /\ Cardinality(calls') = Cardinality(calls)
      /\ \A c \in calls' : \E d \in calls : c.req = d.req
      /\ \A d \in calls : \E c \in calls' : c.req = d.req
      /\ \A c, d \in calls' : c.req.op = d.req.op /\ c.req.gen = d.req.gen => c = d
  BY AnswerKeeps DEF TypeOK
<1>2. CallsDistinct'
  BY <1>1 DEF CallsDistinct, controller
<1>3. ReferencesExact'
  BY <1>1 DEF ReferencesExact, controller
<1>4. ActiveIsNewest'
  BY <1>1 DEF ActiveIsNewest, controller
<1>5. Listens'
  BY <1>1 DEF Listens, controller
<1>6. QED BY <1>2, <1>3, <1>4, <1>5

\* The arrival of the proxy, or of the news that there is none
\* (system_time_service_ready).
LEMMA ReadyStep ==
  ASSUME IInv, TypeOK', system_time_service_ready \/ system_time_service_fails
  PROVE  IInv'
<1> USE DEF system_time_service_ready, system_time_service_fails
<1>1. /\ connecting /\ connecting' = FALSE /\ lrefs' = lrefs - 1
      /\ UNCHANGED <<timedated, signals, calls, open, active, generation>>
  BY DEF proxy
<1>2. ~owned /\ calls = {} /\ Cardinality(calls) = 0 /\ srefs = 0 /\ signals = <<>>
  BY <1>1, FS_EmptySet DEF IInv, Listens, ReferencesExact, ProxyTold
<1>3. \/ open /\ srefs' = 1 /\ owned' = TRUE /\ cache' = Actual /\ shown' = cache'
      \/ UNCHANGED <<srefs, owned, cache, shown>>
  BY DEF proxy
<1>4. RequestsWellFormed' /\ CallsDistinct' /\ ActiveIsNewest'
  BY <1>1 DEF IInv, RequestsWellFormed, WellFormed, CallsDistinct, ActiveIsNewest, timedated
<1>5. ReferencesExact'
  BY <1>1, <1>2, <1>3 DEF IInv, ReferencesExact
<1>6. Listens'
  BY <1>1, <1>2, <1>3 DEF Listens
<1>7. ProxyTold'
  BY <1>1, <1>2, <1>3 DEF IInv, ProxyTold, Latest, Actual, timedated
<1>8. QED BY <1>4, <1>5, <1>6, <1>7 DEF IInv

\* A new request is newer than every call (begin_system_time_operation).
LEMMA BeginStep ==
  ASSUME IInv, TypeOK', NEW op \in Operation, NEW v \in Value,
         WellFormed([op |-> op, gen |-> generation[op] + 1, value |-> v]),
         begin_system_time_operation(op, v)
  PROVE  IInv'
<1> DEFINE req == [op |-> op, gen |-> generation[op] + 1, value |-> v]
           new == [req |-> req, result |-> "waiting"]
<1>1. /\ calls' = calls \cup {new} /\ unresolved' = unresolved \cup {req}
      /\ srefs' = srefs + 1 /\ lrefs' = lrefs + 1
      /\ open /\ owned /\ active \subseteq {op} /\ active' = {op}
      /\ generation' = [generation EXCEPT ![op] = @ + 1]
      /\ shown' = cache
      /\ UNCHANGED <<system, owner, signals, cache, open, connecting, owned>>
  BY DEF begin_system_time_operation, begin_call, sync, proxy
<1>2. req.op = op /\ req.gen = generation[op] + 1 /\ new.req = req
  OBVIOUS
<1> HIDE DEF req, new
<1>3. /\ \A o \in Operation : generation[o] \in Nat
      /\ generation'[op] = generation[op] + 1
      /\ \A o \in Operation : o # op => generation'[o] = generation[o]
      /\ \A c \in calls : c.req.op \in Operation /\ c.req.gen \in Nat
      /\ \A c \in calls : c.req.gen <= generation[c.req.op]
  BY <1>1 DEF IInv, TypeOK, CallsDistinct, Call, Request
<1>4. \A c \in calls : c.req.op = op => c.req.gen < generation'[op]
  BY <1>3
<1>5. new \notin calls
  BY <1>2, <1>3
<1>6. RequestsWellFormed'
  BY <1>1 DEF IInv, RequestsWellFormed, WellFormed, req
<1>7. CallsDistinct'
  <2>1. IsFiniteSet(calls')
    BY <1>1, FS_AddElement DEF IInv, CallsDistinct
  <2>2. \A c \in calls' : c.req.gen <= generation'[c.req.op]
    BY <1>1, <1>2, <1>3
  <2>3. \A c, d \in calls' : c.req.op = d.req.op /\ c.req.gen = d.req.gen => c = d
    BY <1>1, <1>2, <1>3, <1>4 DEF IInv, CallsDistinct
  <2>4. QED BY <2>1, <2>2, <2>3 DEF CallsDistinct
<1>8. ReferencesExact'
  <2>1. Cardinality(calls') = Cardinality(calls) + 1 /\ Cardinality(calls) \in Nat
    BY <1>1, <1>5, FS_AddElement, FS_CardinalityType DEF IInv, CallsDistinct
  <2>2. QED BY <1>1, <2>1 DEF IInv, ReferencesExact
<1>9. ActiveIsNewest'
  <2>1. \A o \in Operation : o # op => o \notin active' /\ o \notin active
    BY <1>1
  <2>2. ASSUME NEW o \in Operation, o # op
        PROVE  ~ \E c \in calls' : c.req.op = o /\ c.req.gen = generation'[o]
    BY <1>1, <1>2, <1>3, <2>1, <2>2 DEF IInv, ActiveIsNewest
  <2>3. \E c \in calls' : c.req.op = op /\ c.req.gen = generation'[op]
    BY <1>1, <1>2, <1>3
  <2>4. QED BY <1>1, <2>1, <2>2, <2>3 DEF ActiveIsNewest
<1>10. Listens'
  BY <1>1 DEF IInv, Listens
<1>11. ProxyTold'
  <2>1. srefs # 0 /\ srefs' # 0
    BY <1>1, FS_CardinalityType DEF IInv, TypeOK, ReferencesExact, CallsDistinct
  <2>2. QED BY <1>1, <2>1 DEF IInv, ProxyTold, Latest, Actual
<1>12. QED BY <1>6, <1>7, <1>8, <1>9, <1>10, <1>11 DEF IInv

\* An answer releases what its call held; only the newest one is heard
\* (call_finished, system_time_operation_complete).
LEMMA FinishedStep ==
  ASSUME IInv, TypeOK', NEW c \in calls, call_finished(c)
  PROVE  IInv'
<1>1. /\ calls' = calls \ {c} /\ lrefs' = lrefs - 1 /\ srefs' = srefs - 1
      /\ signals' = IF srefs = 1 THEN <<>> ELSE signals
      /\ UNCHANGED <<timedated, cache, open, connecting, owned, generation>>
  BY DEF call_finished, Unref
<1>2. IF open /\ c.req.gen = generation[c.req.op]
        THEN active' = active \ {c.req.op} /\ shown' = IF owned THEN cache ELSE Unavailable
        ELSE UNCHANGED <<active, shown>>
  BY DEF call_finished, system_time_operation_complete, sync
<1>3. RequestsWellFormed'
  BY <1>1 DEF IInv, RequestsWellFormed, WellFormed, timedated
<1>4. CallsDistinct'
  BY <1>1, FS_RemoveElement DEF IInv, CallsDistinct
<1>5. ReferencesExact'
  <2>1. Cardinality(calls') = Cardinality(calls) - 1 /\ Cardinality(calls) \in Nat
    BY <1>1, FS_RemoveElement, FS_CardinalityType DEF IInv, CallsDistinct
  <2>2. ReferencesExact
    BY DEF IInv
  <2>3. QED BY <1>1, <2>1, <2>2 DEF ReferencesExact
<1>6. ActiveIsNewest'
  BY <1>1, <1>2 DEF IInv, CallsDistinct, ActiveIsNewest
<1>7. Listens'
  BY <1>1, <1>2 DEF IInv, Listens
<1>8. ProxyTold'
  BY <1>1 DEF IInv, TypeOK, ProxyTold, Latest, Actual, timedated
<1>9. QED BY <1>3, <1>4, <1>5, <1>6, <1>7, <1>8 DEF IInv

\* Closing the panel gives back its reference, whatever is still under way
\* (ss_linux_date_time_panel_free).
LEMMA FreeStep ==
  ASSUME IInv, TypeOK', panel_free
  PROVE  IInv'
<1>1. /\ open /\ open' = FALSE /\ owned' = FALSE /\ lrefs' = lrefs - 1
      /\ \/ owned /\ srefs' = srefs - 1 /\ signals' = IF srefs = 1 THEN <<>> ELSE signals
         \/ ~owned /\ UNCHANGED <<srefs, signals>>
      /\ UNCHANGED <<timedated, cache, calls, connecting, generation, shown>>
  BY DEF panel_free, Unref
<1>2. RequestsWellFormed' /\ CallsDistinct'
  BY <1>1 DEF IInv, RequestsWellFormed, WellFormed, CallsDistinct, timedated
<1>3. ReferencesExact'
  <2>1. ReferencesExact /\ Cardinality(calls) \in Nat
    BY FS_CardinalityType DEF IInv, CallsDistinct
  <2>2. QED BY <1>1, <2>1 DEF ReferencesExact
<1>4. ActiveIsNewest' /\ Listens'
  BY <1>1 DEF IInv, ActiveIsNewest, Listens
<1>5. ProxyTold'
  BY <1>1 DEF IInv, TypeOK, ProxyTold, Latest, Actual, timedated
<1>6. QED BY <1>2, <1>3, <1>4, <1>5 DEF IInv

\* A step that touches nothing but the controls and the proxy's cache.
LEMMA QuietKeeps ==
  ASSUME IInv, UNCHANGED <<timedated, srefs, calls, lrefs, open, connecting, owned, active,
                           generation>>
  PROVE  RequestsWellFormed' /\ CallsDistinct' /\ ReferencesExact' /\ ActiveIsNewest'
<1>1. RequestsWellFormed' /\ CallsDistinct'
  BY DEF IInv, RequestsWellFormed, WellFormed, CallsDistinct, timedated
<1>2. ReferencesExact' /\ ActiveIsNewest'
  BY DEF IInv, ReferencesExact, ActiveIsNewest
<1>3. QED BY <1>1, <1>2

\* A refused request and a handled signal (system_time_operation_refused,
\* on_properties_changed).
LEMMA QuietStep ==
  ASSUME IInv, TypeOK',
         on_properties_changed \/ \E op \in Operation : system_time_operation_refused(op)
  PROVE  IInv'
<1>1. UNCHANGED <<timedated, srefs, calls, lrefs, open, connecting, owned, active, generation>>
  BY DEF on_properties_changed, system_time_operation_refused
<1>2. RequestsWellFormed' /\ CallsDistinct' /\ ReferencesExact' /\ ActiveIsNewest'
  BY <1>1, QuietKeeps
<1>3. CASE on_properties_changed
  <2>1. Listens'
    BY <1>1, <1>3 DEF IInv, Listens, on_properties_changed, emit_changed
  <2>2. srefs # 0 /\ Latest' = Latest
    BY <1>3, HandledLatest DEF IInv, ProxyTold, on_properties_changed
  <2>3. ProxyTold'
    BY <1>1, <2>2 DEF IInv, ProxyTold, Actual, timedated
  <2>4. QED BY <1>2, <2>1, <2>3 DEF IInv
<1>4. ASSUME NEW op \in Operation, system_time_operation_refused(op) PROVE IInv'
  <2>0. UNCHANGED <<signals, cache>> /\ owned /\ (shown' = shown \/ sync)
    BY <1>4 DEF system_time_operation_refused, proxy
  <2>1. UNCHANGED <<signals, cache>> /\ (shown' = shown \/ shown' = cache)
    BY <2>0 DEF sync
  <2>2. Listens' /\ ProxyTold'
    BY <1>1, <2>1 DEF IInv, Listens, ProxyTold, Latest, Actual, timedated
  <2>3. QED BY <1>2, <2>2 DEF IInv
<1>5. QED BY <1>3, <1>4

\* The proxy hears of every change timedated makes known.
LEMMA Told ==
  ASSUME TypeOK, ProxyTold, UNCHANGED <<srefs, cache>>, Signal(Actual'), Actual' \in Reported
  PROVE  ProxyTold'
BY SignalLatest DEF TypeOK, ProxyTold, Latest

\* timedated applies or denies a request, and calls are given up.
LEMMA AnsweredStep ==
  ASSUME IInv, TypeOK',
         \/ \E c \in calls : call_given_up(c)
         \/ \E req \in unresolved : timedated_applies(req) \/ timedated_denies(req)
  PROVE  IInv'
<1>1. /\ \E reqs : \E r \in {"ok", "error"} : Answer(reqs, r)
      /\ UNCHANGED <<owner, cache, srefs, lrefs, controller>>
      /\ unresolved' \subseteq unresolved
  BY DEF call_given_up, timedated_applies, timedated_denies, timedated, proxy
<1>2. CallsDistinct' /\ ReferencesExact' /\ ActiveIsNewest' /\ Listens'
  BY <1>1, AnswerStep DEF IInv
<1>3. RequestsWellFormed'
  BY <1>1 DEF IInv, RequestsWellFormed, WellFormed
<1>4. ProxyTold'
  <2>1. CASE UNCHANGED <<system, signals>>
    BY <1>1, <2>1 DEF IInv, ProxyTold, Latest, Actual
  <2>2. CASE owner /\ Signal(system')
    <3>1. Actual' = system' /\ Actual' \in Reported
      BY <1>1, <2>2 DEF Actual, TypeOK, Reported
    <3>2. QED BY <1>1, <2>2, <3>1, Told DEF IInv
  <2>3. QED
    BY <2>1, <2>2 DEF call_given_up, timedated_applies, timedated_denies, timedated, proxy
<1>5. QED BY <1>2, <1>3, <1>4 DEF IInv

\* Another program's change, and timedated leaving or returning.
LEMMA OthersStep ==
  ASSUME IInv, TypeOK', OtherProgramSets \/ OwnerChange
  PROVE  IInv'
<1>1. UNCHANGED <<cache, srefs, lrefs, controller>> /\ unresolved' \subseteq unresolved
  BY DEF OtherProgramSets, OwnerChange
<1>2. RequestsWellFormed'
  BY <1>1 DEF IInv, RequestsWellFormed, WellFormed
<1>3. CallsDistinct' /\ ReferencesExact' /\ ActiveIsNewest' /\ Listens'
  <2>1. CASE UNCHANGED calls
    <3>1. CallsDistinct' /\ ActiveIsNewest' /\ Listens'
      BY <1>1, <2>1 DEF IInv, CallsDistinct, ActiveIsNewest, Listens, controller
    <3>2. ReferencesExact'
      BY <1>1, <2>1 DEF IInv, ReferencesExact, controller
    <3>3. QED BY <3>1, <3>2
  <2>2. CASE Answer(unresolved, "error")
    BY <1>1, <2>2, AnswerStep DEF IInv
  <2>3. QED BY <2>1, <2>2 DEF OtherProgramSets, OwnerChange
<1>4. ProxyTold'
  <2>1. Actual' \in Reported
    BY DEF TypeOK, Actual, Reported
  <2>2. Signal(Actual')
    <3>1. CASE OtherProgramSets
      BY <3>1 DEF OtherProgramSets, Actual
    <3>2. CASE OwnerChange
      BY <3>2 DEF OwnerChange, Actual
    <3>3. QED BY <3>1, <3>2
  <2>3. QED BY <1>1, <2>1, <2>2, Told DEF IInv
<1>5. QED BY <1>2, <1>3, <1>4 DEF IInv

-----------------------------------------------------------------------------
(***************************************************************************)
(* The theorems.                                                           *)
(***************************************************************************)
\* Every step keeps the inductive invariant.
LEMMA InvStep == IInv /\ [Next]_vars => IInv'
<1> SUFFICES ASSUME IInv, [Next]_vars PROVE IInv'
  OBVIOUS
<1>0. TypeOK'
  BY TypeStep
<1>1. CASE UserRequests
  <2>1. PICK op \in Operation, v \in Value :
          /\ begin_system_time_operation(op, v)
          /\ op = "timezone" => v \in Zone
          /\ op = "ntp" => v \in {"on", "off"}
    BY <1>1 DEF UserRequests, Operation, Value
  <2>2. WellFormed([op |-> op, gen |-> generation[op] + 1, value |-> v])
    BY <2>1 DEF WellFormed
  <2>3. QED BY <1>0, <2>1, <2>2, BeginStep
<1>2. CASE UNCHANGED vars
  <2>1. RequestsWellFormed' /\ CallsDistinct' /\ ReferencesExact' /\ ActiveIsNewest'
    BY <1>2, QuietKeeps DEF vars, controller
  <2>2. Listens' /\ ProxyTold'
    BY <1>2 DEF IInv, Listens, ProxyTold, Latest, Actual, vars, timedated, proxy, controller
  <2>3. QED BY <1>0, <2>1, <2>2 DEF IInv
<1>3. QED
  BY <1>0, <1>1, <1>2, ReadyStep, FinishedStep, FreeStep, QuietStep, AnsweredStep, OthersStep
  DEF Next

\* The inductive invariant holds throughout every behaviour.
THEOREM Invariance == Spec => []IInv
BY InvInit, InvStep, PTL DEF Spec

\* The counters stay natural numbers: no reference is given back twice.
THEOREM TypeCorrect == Spec => []TypeOK
<1>1. IInv => TypeOK
  BY DEF IInv
<1>2. QED BY <1>1, Invariance, PTL

\* The service and the anchor live exactly as long as something needs them
\* (begin_call, call_finished, ss_system_time_service_free).
THEOREM ReferencesAreExact == Spec => []ReferencesExact
<1>1. IInv => ReferencesExact
  BY DEF IInv
<1>2. QED BY <1>1, Invariance, PTL

\* Superseded answers never end a newer request
\* (system_time_operation_complete's generation check).
THEOREM NewestDecides == Spec => []ActiveIsNewest
<1>1. IInv => ActiveIsNewest
  BY DEF IInv
<1>2. QED BY <1>1, Invariance, PTL

\* With no signal under way the controls show what timedated reports
\* (ss_linux_date_time_system_time_sync, on_properties_changed).
THEOREM ControlsShowActual == Spec => []ShownIsActual
<1>1. IInv => ShownIsActual
  <2> SUFFICES ASSUME IInv, owned, signals = <<>> PROVE shown = Actual
    BY DEF ShownIsActual
  <2>1. srefs # 0
    BY FS_CardinalityType DEF IInv, ReferencesExact, CallsDistinct
  <2>2. QED BY <2>1 DEF IInv, Listens, ProxyTold, Latest
<1>2. QED BY <1>1, Invariance, PTL

\* After the panel is gone no answer, signal or proxy changes its state
\* (ss_linux_date_time_panel_free, system_time_operation_complete).
THEOREM LateRepliesAreInert == Spec => LateReplyInert
<1>1. IInv /\ [Next]_vars => [~open => UNCHANGED <<owned, active, generation, shown>>]_vars
  <2> SUFFICES ASSUME IInv, Next, ~open PROVE UNCHANGED <<owned, active, generation, shown>>
    OBVIOUS
  <2>1. ~owned
    BY DEF IInv, Listens
  <2>2. QED
    BY <2>1
    DEF Next, UserRequests, system_time_service_ready, system_time_service_fails,
        begin_system_time_operation, system_time_operation_refused, call_finished,
        system_time_operation_complete, call_given_up, on_properties_changed, emit_changed,
        panel_free, timedated_applies, timedated_denies, OtherProgramSets, OwnerChange,
        controller
<1>2. QED BY <1>1, Invariance, PTL DEF Spec, LateReplyInert
=============================================================================
