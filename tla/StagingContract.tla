--------------------------- MODULE StagingContract ---------------------------
(***************************************************************************)
(* What the stager promises Cloud Controller about the stagings it holds,  *)
(* whatever calls fail and whenever the process dies: a staging is there   *)
(* at most once per space, stagings come and go one at a time, and one is  *)
(* given up only after a completion for it was passed on to Cloud          *)
(* Controller, or somebody cancelled it.                                   *)
(***************************************************************************)
CONSTANTS Guids, Spaces

VARIABLES
  staged,     \* the stagings held, each a task in a space
  completed,  \* tasks a completion of which Cloud Controller has
  cancelled   \* tasks somebody asked to stop

contractVars == <<staged, completed, cancelled>>

Init ==
  /\ staged = {}
  /\ completed = {}
  /\ cancelled = {}

Stage(s) ==
  /\ s \notin staged
  /\ staged' = staged \cup {s}
  /\ UNCHANGED <<completed, cancelled>>

\* Anybody who reaches the server can complete and cancel any task, whether
\* it is staged or not.  Completions of several tasks may name the same one
\* in their bodies: then all of them are completed when it is reported.
Complete(gs) ==
  /\ completed' = completed \cup gs
  /\ UNCHANGED <<staged, cancelled>>

Cancel(g) ==
  /\ cancelled' = cancelled \cup {g}
  /\ UNCHANGED <<staged, completed>>

GiveUp(s) ==
  /\ s \in staged
  /\ s.task \in completed \cup cancelled
  /\ staged' = staged \ {s}
  /\ UNCHANGED <<completed, cancelled>>

Next ==
  \/ \E s \in [task : Guids, space : Spaces] : Stage(s) \/ GiveUp(s)
  \/ \E gs \in SUBSET Guids : Complete(gs)
  \/ \E g \in Guids : Cancel(g)

Spec == Init /\ [][Next]_contractVars

=============================================================================
