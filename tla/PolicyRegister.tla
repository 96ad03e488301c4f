--------------------------- MODULE PolicyRegister ---------------------------
(***************************************************************************)
(* What the shared temporal policy promises to every process that edits it:*)
(* a single register holding a complete policy, or nothing at all.  A      *)
(* process asks for an edit; the register makes exactly that edit, once,   *)
(* in the value it holds at that moment, leaving the fields the edit does  *)
(* not name alone, or the edit is given up.  An edit of the location may   *)
(* be tentative: it is either kept, or undone exactly, and no other edit   *)
(* is made while it is open.                                               *)
(*                                                                         *)
(* DateTimeModel implements this register with a file, an advisory lock    *)
(* and a candidate copied, edited and saved by each process.               *)
(***************************************************************************)
EXTENDS TemporalPolicy

CONSTANTS
  Proc,                \* processes that edit the policy
  Nothing              \* no edit is asked for, no tentative change is open

VARIABLES
  value,               \* the policy the register holds, or Absent
  wants,               \* the edit each process has asked for, or Nothing
  undo                 \* what an open tentative change restores, or Nothing

registerVars == <<value, wants, undo>>

RegisterTypeOK ==
  /\ value \in Policy \cup {Absent}
  /\ wants \in [Proc -> Change \cup {Nothing}]
  /\ undo \in Policy \cup {Absent, Nothing}

RegisterInit ==
  /\ value \in Policy \cup {Absent}
  /\ wants = [p \in Proc |-> Nothing]
  /\ undo = Nothing

(***************************************************************************)
(* The policies an edit may start from: the one the register holds, or,    *)
(* when it holds none, the defaults seeded from some desktop setting.      *)
(***************************************************************************)
Bases == IF value \in Policy THEN {value} ELSE {Seed(n) : n \in Native}

Ask(p, ch) ==
  /\ wants[p] = Nothing
  /\ wants' = [wants EXCEPT ![p] = ch]
  /\ UNCHANGED <<value, undo>>

\* The edit of p is made, in the present value and only once.
Make(p) ==
  /\ wants[p] # Nothing /\ undo = Nothing
  /\ \E base \in Bases : value' = Assign(base, wants[p])
  /\ wants' = [wants EXCEPT ![p] = Nothing]

Update(p) == Make(p) /\ UNCHANGED undo

BeginTentative(p) ==
  /\ Make(p)
  /\ wants[p].location # Same
  /\ undo' = value

GiveUp(p) ==
  /\ wants[p] # Nothing
  /\ wants' = [wants EXCEPT ![p] = Nothing]
  /\ UNCHANGED <<value, undo>>

Keep ==
  /\ undo # Nothing
  /\ undo' = Nothing
  /\ UNCHANGED <<value, wants>>

Undo ==
  /\ undo # Nothing
  /\ value' = undo
  /\ undo' = Nothing
  /\ UNCHANGED wants

RegisterNext ==
  \/ \E p \in Proc : \/ \E ch \in Change : Ask(p, ch)
                     \/ Update(p)
                     \/ BeginTentative(p)
                     \/ GiveUp(p)
  \/ Keep
  \/ Undo

RegisterSpec == RegisterInit /\ [][RegisterNext]_registerVars
=============================================================================
