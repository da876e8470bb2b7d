--------------------------- MODULE ContainerLifetime ---------------------------
(***************************************************************************)
(* What capsule promises about the lifetime of the container process      *)
(* (capsule.c, the comment above parent_sigfwd_handler): if the parent     *)
(* exits or is killed, the child is killed with SIGKILL by the             *)
(* PR_SET_PDEATHSIG prctl, which is the first thing the child does.  The   *)
(* one exception is the window between clone() and prctl(): a parent that  *)
(* exits there leaves the child running, orphaned.                         *)
(*                                                                         *)
(* parent: "alive" or "gone".  child: "none" before clone(), "unarmed"     *)
(* before its prctl(), "armed" once a SIGKILL is sure to follow the        *)
(* parent's exit, "orphan" if it armed only after the parent was gone and  *)
(* nothing will kill it, "dead".                                           *)
(***************************************************************************)

VARIABLES parent, child

avars == <<parent, child>>

Init == parent = "alive" /\ child = "none"

\* clone(): only a live parent creates the child
Clone ==
  /\ parent = "alive" /\ child = "none"
  /\ child' = "unarmed"
  /\ UNCHANGED parent

\* prctl(PR_SET_PDEATHSIG): it ties the child to a parent that is still
\* there; a parent already gone leaves it orphaned, unless the parent's
\* kill(child_pid, SIGKILL) is already queued for it
Arm ==
  /\ child = "unarmed"
  /\ child' \in IF parent = "alive" THEN {"armed"} ELSE {"armed", "orphan"}
  /\ UNCHANGED parent

\* the child exits or is killed, for any reason
Die ==
  /\ child \in {"unarmed", "armed", "orphan"}
  /\ child' = "dead"
  /\ UNCHANGED parent

\* the kernel's SIGKILL to an armed child whose parent is gone
KernelKill ==
  /\ parent = "gone" /\ child = "armed"
  /\ child' = "dead"
  /\ UNCHANGED parent

\* the parent exits: a fatal check, a signal, or the return from main()
ParentGoes ==
  /\ parent = "alive"
  /\ parent' = "gone"
  /\ UNCHANGED child

Next == Clone \/ Arm \/ Die \/ ParentGoes

\* The child runs its prctl() without waiting on anything, and the kernel
\* delivers SIGKILL to an armed child whose parent is gone.
Spec == Init /\ [][Next]_avars /\ WF_avars(Arm) /\ WF_avars(KernelKill)

=============================================================================
