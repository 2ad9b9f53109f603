---------------------------- MODULE MCSupervisor ----------------------------
(***************************************************************************)
(* Instances of Supervisor for TLC.                                        *)
(***************************************************************************)
EXTENDS Supervisor, TLC

\* Processes, handle objects and presets are interchangeable.
Symmetry == Permutations(Presets) \union Permutations(Handles) \union Permutations(Pids)

\* What is left of a process or a handle object that nobody refers to any more
\* is overwritten before it is read again, except by AnsweredOnce.
Reduced ==
    <<tracked, cmd, wish, {q \in letGo : ~Reusable(q)}, AnsweredOnce,
      [h \in Handles |-> IF Dropped(h) THEN Fresh(NoPreset) ELSE handle[h]],
      [q \in Pids |-> IF Reusable(q) THEN <<>> ELSE <<proc[q], answer[q]>>]>>

=============================================================================
