------------------------------ MODULE Lifecycle ------------------------------
(***************************************************************************)
(* What whoever runs the feeder may count on: its workers work together    *)
(* until one has a reason to stop, that reason is the one reported in the  *)
(* end, and the process ends when all have left.                           *)
(***************************************************************************)

VARIABLES signalled, \* SIGINT or SIGTERM has come
          cause,     \* why the process stops, or "none"
          live,      \* the workers that have not left
          ended      \* the process has ended

Workers == {"signals", "client", "broker", "server"}

LifecycleInit ==
  /\ signalled = FALSE
  /\ cause = "none"
  /\ live = Workers
  /\ ended = FALSE

\* The reasons a worker may have to be the first to leave.
Reasons(w) ==
  CASE w = "signals" -> {e \in {"signal"} : signalled}
    [] w = "client"  -> {"fault"}
    [] w = "server"  -> {"listen"}
    [] w = "broker"  -> {}

Signal == signalled' = TRUE /\ UNCHANGED <<cause, live, ended>>

Leave(w) ==
  /\ w \in live
  /\ live' = live \ {w}
  /\ \/ cause = "none" /\ cause' \in Reasons(w)
     \/ cause # "none" /\ UNCHANGED cause
  /\ UNCHANGED <<signalled, ended>>

End ==
  /\ live = {} /\ ~ended
  /\ ended' = TRUE
  /\ UNCHANGED <<signalled, cause, live>>

LifecycleNext == ~ended /\ (Signal \/ End \/ \E w \in Workers : Leave(w))

LifecycleSpec ==
  LifecycleInit /\ [][LifecycleNext]_<<signalled, cause, live, ended>>
=============================================================================
