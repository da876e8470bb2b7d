------------------------------ MODULE SetupOrder ------------------------------
(***************************************************************************)
(* What the container child of capsule promises about the order of its    *)
(* set-up (clone_child() in capsule.c): the configuration is complete      *)
(* before anything privileged, the mounts come before the root pivot, the  *)
(* pivot before the capability drop, the drop before the seccomp filter,   *)
(* and the filter before execve().  The target command runs holding        *)
(* exactly the capabilities it was meant to keep and, unless the kernel    *)
(* has no seccomp, under the filter.  Every step may end the child; none   *)
(* is undone or retried.                                                   *)
(*                                                                         *)
(* phase: "config", "privileged" (mounting), "mounted", "pivoted",         *)
(* "dropped", "filtered", "running" (the target command), "exited".        *)
(***************************************************************************)
CONSTANT Caps   \* every capability

VARIABLES
  phase,
  keep,       \* the capabilities the configuration keeps
  supported,  \* the kernel has seccomp
  held,       \* the capabilities the process holds
  filter      \* "loaded" or "none"

avars == <<phase, keep, supported, held, filter>>

Init ==
  /\ phase = "config"
  /\ keep \in SUBSET Caps /\ supported \in BOOLEAN
  /\ held = Caps /\ filter = "none"

Step(from, to) ==
  /\ phase = from /\ phase' = to
  /\ UNCHANGED <<keep, supported, held, filter>>

\* the command line is parsed into a valid configuration
Configure == Step("config", "privileged")

\* the bind mounts, the console and the mount plan are all in place
Mount == Step("privileged", "mounted")

\* the prepared tree becomes "/"
Pivot == Step("mounted", "pivoted")

\* every capability outside the kept set is gone for good
Drop ==
  /\ phase = "pivoted" /\ phase' = "dropped"
  /\ held' = keep
  /\ UNCHANGED <<keep, supported, filter>>

\* the blacklist is loaded; only a kernel without seccomp excuses it
Filter ==
  /\ phase = "dropped" /\ phase' = "filtered"
  /\ filter' = IF supported THEN "loaded" ELSE "none"
  /\ UNCHANGED <<keep, supported, held>>

\* execve() of the target command
Exec == Step("filtered", "running")

\* a configuration error or a failing set-up call ends the child
Abort ==
  /\ phase \notin {"running", "exited"}
  /\ Step(phase, "exited")

Next == Configure \/ Mount \/ Pivot \/ Drop \/ Filter \/ Exec \/ Abort

\* Set-up is straight-line code that waits on nothing: the child always
\* ends up running the target command or exited.
Spec == Init /\ [][Next]_avars /\ WF_avars(Next)

=============================================================================
