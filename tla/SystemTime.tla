----------------------------- MODULE SystemTime ------------------------------
(***************************************************************************)
(* The protected settings: time zone, network time and the manual clock,   *)
(* changed through timedated over D-Bus.  The panel may be closed at any   *)
(* moment.  Whatever is still under way then holds a reference to the      *)
(* panel's lifetime anchor and each call one to the service object; late   *)
(* answers must find the anchor empty.                                     *)
(*                                                                         *)
(* timedated applies or denies a request whenever its authorisation is     *)
(* settled; a call may be given up earlier, by the D-Bus timeout or by     *)
(* cancellation, and the request then stays with timedated.  Replies and   *)
(* property signals are delivered in any order.                            *)
(*                                                                         *)
(* The controls are also made insensitive while a request is outstanding;  *)
(* the model does not rely on it: handlers may be called at any time.      *)
(*                                                                         *)
(* Definitions introduced by "Mutant:" are slips the properties must catch;*)
(* no other definition uses them.                                          *)
(***************************************************************************)
EXTENDS Naturals, Sequences, FiniteSets

CONSTANTS
  Zone,                \* IANA time zones
  Unavailable,         \* timedated has no owner on the bus
  MaxRequests,         \* bound on the requests of one panel
  MaxChanges           \* bound on what others do to timedated

ASSUME UnavailableAssumption == Unavailable \notin [zone : Zone, ntp : {"on", "off"}]
ASSUME BoundAssumption == MaxRequests \in Nat /\ MaxChanges \in Nat

Operation == {"timezone", "ntp", "manual"}
Value == Zone \cup {"on", "off", "instant"}
Properties == [zone : Zone, ntp : {"on", "off"}]
Request == [op : Operation, gen : 1..MaxRequests, value : Value]
Call == [req : Request, result : {"waiting", "ok", "error"}]

VARIABLES
  system,              \* timedated's properties
  owner,               \* timedated is on the bus
  unresolved,          \* requests timedated has neither applied nor denied
  signals,             \* property and owner changes on their way to the proxy
  cache,               \* the proxy's cached properties
  srefs,               \* references to the service object (0: there is none)
  calls,               \* calls whose completion has not run
  lrefs,               \* references to the lifetime anchor
  open,                \* the anchor still leads to the panel
  connecting,          \* the construction of the proxy is under way
  owned,               \* the panel has a service and listens to it
  active,              \* operations whose cancellable is set
  generation,          \* per operation
  shown,               \* what the controls show
  changes              \* history: how often others have acted

timedated == <<system, owner, unresolved, changes>>
proxy == <<signals, cache>>
controller == <<open, connecting, owned, active, generation, shown>>
vars == <<timedated, proxy, srefs, calls, lrefs, controller>>

Reported == Properties \cup {Unavailable}

TypeOK ==
  /\ system \in Properties
  /\ owner \in BOOLEAN
  /\ unresolved \subseteq Request
  /\ signals \in Seq(Reported)
  /\ cache \in Reported
  /\ srefs \in Nat
  /\ calls \subseteq Call
  /\ lrefs \in Nat
  /\ open \in BOOLEAN
  /\ connecting \in BOOLEAN
  /\ owned \in BOOLEAN
  /\ active \subseteq Operation
  /\ generation \in [Operation -> 0..MaxRequests]
  /\ shown \in Reported
  /\ changes \in 0..MaxChanges

\* A panel has just been built and ss_linux_date_time_system_time_start has run.
Init ==
  /\ system \in Properties
  /\ owner \in BOOLEAN
  /\ unresolved = {}
  /\ signals = <<>>
  /\ cache = Unavailable
  /\ srefs = 0
  /\ calls = {}
  /\ lrefs = 2
  /\ open = TRUE
  /\ connecting = TRUE
  /\ owned = FALSE
  /\ active = {}
  /\ generation = [o \in Operation |-> 0]
  /\ shown = Unavailable
  /\ changes = 0

-----------------------------------------------------------------------------
(* The panel and the service object.                                       *)

Actual == IF owner THEN system ELSE Unavailable

\* ss_linux_date_time_system_time_sync shows what the proxy knows.
sync == shown' = IF owned THEN cache ELSE Unavailable

\* Mutant: a proxy that arrives too late is kept.
system_time_service_ready_leaks ==
  /\ connecting
  /\ connecting' = FALSE
  /\ lrefs' = lrefs - 1
  /\ srefs' = 1
  /\ cache' = Actual
  /\ owned' = open
  /\ shown' = IF open THEN cache' ELSE shown
  /\ UNCHANGED <<timedated, signals, calls, open, active, generation>>

\* The proxy has been built; a panel that is gone frees the service at once.
system_time_service_ready ==
  /\ connecting
  /\ connecting' = FALSE
  /\ lrefs' = lrefs - 1
  /\ IF open
       THEN srefs' = 1 /\ owned' = TRUE /\ cache' = Actual /\ shown' = cache'
       ELSE UNCHANGED <<srefs, owned, cache, shown>>
  /\ UNCHANGED <<timedated, signals, calls, open, active, generation>>

\* The proxy could not be built, or its construction was cancelled.
system_time_service_fails ==
  /\ connecting
  /\ connecting' = FALSE
  /\ lrefs' = lrefs - 1
  /\ UNCHANGED <<timedated, proxy, srefs, calls, open, owned, active, generation, shown>>

Requests == generation["timezone"] + generation["ntp"] + generation["manual"]

begin_call(req) ==
  /\ calls' = calls \cup {[req |-> req, result |-> "waiting"]}
  /\ unresolved' = unresolved \cup {req}
  /\ srefs' = srefs + 1

\* on_timezone_changed, on_network_time_changed, on_manual_set_time_clicked: a
\* request supersedes one of its own kind that is still under way.
begin_system_time_operation(op, value) ==
  /\ open /\ owned
  /\ active \subseteq {op}
  /\ Requests < MaxRequests
  /\ active' = {op}
  /\ generation' = [generation EXCEPT ![op] = @ + 1]
  /\ lrefs' = lrefs + 1
  /\ begin_call([op |-> op, gen |-> generation[op] + 1, value |-> value])
  /\ sync
  /\ UNCHANGED <<system, owner, changes, proxy, open, connecting, owned>>

\* Refused while a change of another kind is being applied; a refused change of
\* zone or network time also puts the control back.
system_time_operation_refused(op) ==
  /\ open /\ owned
  /\ ~(active \subseteq {op})
  /\ IF op = "manual" THEN UNCHANGED shown ELSE sync
  /\ UNCHANGED <<timedated, proxy, srefs, calls, lrefs,
                 open, connecting, owned, active, generation>>

\* service_unref: the last reference disconnects the proxy.
Unref == /\ srefs' = srefs - 1
         /\ signals' = IF srefs = 1 THEN <<>> ELSE signals

\* Mutant: an answer of any generation counts.
system_time_operation_complete_any(req) ==
  IF open THEN active' = active \ {req.op} /\ sync ELSE UNCHANGED <<active, shown>>

\* Mutant: the panel is not looked up through its anchor.
system_time_operation_complete_late(req) ==
  IF req.gen = generation[req.op]
    THEN active' = active \ {req.op} /\ sync
    ELSE UNCHANGED <<active, shown>>

system_time_operation_complete(req) ==
  IF open /\ req.gen = generation[req.op]
    THEN active' = active \ {req.op} /\ sync
    ELSE UNCHANGED <<active, shown>>

\* Mutant: only a successful answer is passed on.
call_finished_ok(c) ==
  /\ c.result # "waiting"
  /\ calls' = calls \ {c}
  /\ lrefs' = lrefs - 1
  /\ IF c.result = "ok" THEN system_time_operation_complete(c.req)
                        ELSE UNCHANGED <<active, shown>>
  /\ Unref
  /\ UNCHANGED <<timedated, cache, open, connecting, owned, generation>>

call_finished(c) ==
  /\ c.result # "waiting"
  /\ calls' = calls \ {c}
  /\ lrefs' = lrefs - 1
  /\ system_time_operation_complete(c.req)
  /\ Unref
  /\ UNCHANGED <<timedated, cache, open, connecting, owned, generation>>

\* Mutant: the panel does not hear of the change.
emit_changed_unheard == UNCHANGED shown

\* A released service has no callback.
emit_changed == IF owned THEN shown' = cache' ELSE UNCHANGED shown

\* g-properties-changed and notify::g-name-owner.
on_properties_changed ==
  /\ signals # <<>>
  /\ cache' = Head(signals)
  /\ signals' = Tail(signals)
  /\ emit_changed
  /\ UNCHANGED <<timedated, srefs, calls, lrefs, open, connecting, owned, active, generation>>

\* Mutant: a service that never came is released all the same.
panel_free_unconditional ==
  /\ open
  /\ open' = FALSE
  /\ lrefs' = lrefs - 1
  /\ active' = {}
  /\ owned' = FALSE
  /\ Unref
  /\ UNCHANGED <<timedated, cache, calls, connecting, generation, shown>>

\* ss_linux_date_time_panel_free: the anchor is emptied before anything is
\* cancelled, and the panel's references are given back.
panel_free ==
  /\ open
  /\ open' = FALSE
  /\ lrefs' = lrefs - 1
  /\ active' = {}
  /\ owned' = FALSE
  /\ IF owned THEN Unref ELSE UNCHANGED <<srefs, signals>>
  /\ UNCHANGED <<timedated, cache, calls, connecting, generation, shown>>

-----------------------------------------------------------------------------
(* timedated and the bus.                                                  *)

\* A message reaches the proxy only while there is one.
Signal(report) == signals' = IF srefs > 0 THEN Append(signals, report) ELSE signals

Answer(reqs, result) ==
  calls' = {IF c.req \in reqs /\ c.result = "waiting" THEN [c EXCEPT !.result = result] ELSE c
              : c \in calls}

Effect(req) ==
  CASE req.op = "timezone" -> [system EXCEPT !.zone = req.value]
    [] req.op = "ntp"      -> [system EXCEPT !.ntp = req.value]
    [] OTHER               -> system

timedated_applies(req) ==
  /\ owner /\ req \in unresolved
  /\ req.op = "manual" => system.ntp = "off"
  /\ unresolved' = unresolved \ {req}
  /\ system' = Effect(req)
  /\ IF system' = system THEN UNCHANGED signals ELSE Signal(system')
  /\ Answer({req}, "ok")
  /\ UNCHANGED <<owner, changes, cache, srefs, lrefs, controller>>

timedated_denies(req) ==
  /\ owner /\ req \in unresolved
  /\ unresolved' = unresolved \ {req}
  /\ Answer({req}, "error")
  /\ UNCHANGED <<system, owner, changes, proxy, srefs, lrefs, controller>>

\* The D-Bus timeout, or a cancellation: the caller no longer waits.
call_given_up(c) ==
  /\ c.result = "waiting"
  /\ Answer({c.req}, "error")
  /\ UNCHANGED <<timedated, proxy, srefs, lrefs, controller>>

\* Another program changes the zone or network time.
OtherProgramSets ==
  /\ owner /\ changes < MaxChanges
  /\ system' \in Properties \ {system}
  /\ Signal(system')
  /\ changes' = changes + 1
  /\ UNCHANGED <<owner, unresolved, cache, srefs, calls, lrefs, controller>>

\* timedated leaves the bus, with whatever it had not answered, or returns.
OwnerChange ==
  /\ changes < MaxChanges
  /\ owner' = ~owner
  /\ Signal(IF owner' THEN system ELSE Unavailable)
  /\ unresolved' = IF owner THEN {} ELSE unresolved
  /\ IF owner THEN Answer(unresolved, "error") ELSE UNCHANGED calls
  /\ changes' = changes + 1
  /\ UNCHANGED <<system, cache, srefs, lrefs, controller>>

-----------------------------------------------------------------------------
UserRequests ==
  \/ \E z \in Zone : begin_system_time_operation("timezone", z)
  \/ \E n \in {"on", "off"} : begin_system_time_operation("ntp", n)
  \/ begin_system_time_operation("manual", "instant")

Next ==
  \/ system_time_service_ready
  \/ system_time_service_fails
  \/ UserRequests
  \/ \E op \in Operation : system_time_operation_refused(op)
  \/ \E c \in calls : call_finished(c)
  \/ \E c \in calls : call_given_up(c)
  \/ on_properties_changed
  \/ panel_free
  \/ \E req \in unresolved : timedated_applies(req) \/ timedated_denies(req)
  \/ OtherProgramSets
  \/ OwnerChange

Spec == Init /\ [][Next]_vars

\* Every D-Bus call ends, at the latest with its timeout, and the main loop
\* runs its completion.
FairSpec ==
  /\ Spec
  /\ WF_vars(\E c \in calls : call_finished(c))
  /\ WF_vars(\E c \in calls : call_given_up(c))

-----------------------------------------------------------------------------
(* What must hold.                                                         *)

\* References are exact: the service lives as long as a call or the panel
\* needs it, the anchor as long as a completion may look at it, and both are
\* released when the last of them is done, in whatever order panel, proxy and
\* replies come and go (begin_call, call_finished, ss_system_time_service_free).
ReferencesExact ==
  LET One(b) == IF b THEN 1 ELSE 0
  IN  /\ srefs = One(owned) + Cardinality(calls)
      /\ lrefs = One(open) + One(connecting) + Cardinality(calls)

\* "A later timezone/NTP/manual-time request invalidates every older
\* completion": an operation counts as under way exactly while its newest call
\* is unanswered, whatever superseded calls still answer.
ActiveIsNewest ==
  open => \A op \in Operation :
            op \in active <=> \E c \in calls : c.req.op = op /\ c.req.gen = generation[op]

\* "A removed panel therefore makes every late reply inert."
LateReplyInert == [][~open => UNCHANGED <<owned, active, generation, shown>>]_vars

\* Once the signals under way are handled, the controls show what timedated
\* reports, whatever was requested, denied, given up or changed by others.
ShownIsActual == owned /\ signals = <<>> => shown = Actual

\* No request leaves the controls locked for ever.
RequestsEnd == \A op \in Operation : op \in active ~> op \notin active
=============================================================================
