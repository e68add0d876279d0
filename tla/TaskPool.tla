------------------------------ MODULE TaskPool ------------------------------
(***************************************************************************)
(* What a ThreadPool promises to the code that uses it, with no threads,   *)
(* no mutex and no condition variable: accepted tasks are started in the   *)
(* order of acceptance, each of them once, and the destructor returns only *)
(* when nothing that was accepted is left undone.                          *)
(***************************************************************************)
EXTENDS Naturals, Sequences

CONSTANT Tasks

VARIABLES
  pending,   \* accepted and not started, in the order of acceptance
  active,    \* started and not finished
  finished,  \* finished: the future of the task is ready
  open,      \* enqueue still accepts
  joined     \* the destructor has returned

apVars == <<pending, active, finished, open, joined>>

Elements(s) == {s[i] : i \in 1..Len(s)}

Init ==
  /\ pending = <<>>
  /\ active = {}
  /\ finished = {}
  /\ open = TRUE
  /\ joined = FALSE

Accept(t) ==
  /\ open
  /\ t \notin Elements(pending) \cup active \cup finished
  /\ pending' = Append(pending, t)
  /\ UNCHANGED <<active, finished, open, joined>>

Start ==
  /\ ~joined
  /\ pending # <<>>
  /\ pending' = Tail(pending)
  /\ active' = active \cup {Head(pending)}
  /\ UNCHANGED <<finished, open, joined>>

Finish(t) ==
  /\ t \in active
  /\ active' = active \ {t}
  /\ finished' = finished \cup {t}
  /\ UNCHANGED <<pending, open, joined>>

Close ==
  /\ open
  /\ open' = FALSE
  /\ UNCHANGED <<pending, active, finished, joined>>

Join ==
  /\ ~open
  /\ pending = <<>>
  /\ active = {}
  /\ joined' = TRUE
  /\ UNCHANGED <<pending, active, finished, open>>

Next ==
  \/ \E t \in Tasks : Accept(t) \/ Finish(t)
  \/ Start
  \/ Close
  \/ Join

Spec == Init /\ [][Next]_apVars
=============================================================================
