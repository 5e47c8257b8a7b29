---------------------------- MODULE CompileQueue ----------------------------
(***************************************************************************)
(* What the AOT compiler promises the rest of the daemon: a queue of       *)
(* QueueLen packages is worked off strictly in order by one worker.  A     *)
(* package is attempted any number of times (an attempt can be given up    *)
(* and repeated), settled exactly once, as "ok" or as "err", and no        *)
(* package is overtaken by a later one.  AotCompiler is shown to implement *)
(* this specification.                                                     *)
(***************************************************************************)
EXTENDS Naturals, Sequences

CONSTANT QueueLen

VARIABLES
  settled,   \* results of the packages settled so far, in queue order
  busy       \* TRUE while the package after the settled ones is attempted

qvars == <<settled, busy>>

Result == {"ok", "err"}

QInit == settled = <<>> /\ busy = FALSE

\* An attempt at the first package that is not settled begins.
Attempt ==
  /\ ~busy
  /\ Len(settled) < QueueLen
  /\ busy' = TRUE
  /\ UNCHANGED settled

\* The attempt under way settles its package.
Settle ==
  /\ busy
  /\ \E r \in Result : settled' = Append(settled, r)
  /\ busy' = FALSE

\* The attempt under way is given up; its package stays first in the queue.
GiveUp ==
  /\ busy
  /\ busy' = FALSE
  /\ UNCHANGED settled

QNext == Attempt \/ Settle \/ GiveUp

QSpec == QInit /\ [][QNext]_qvars
=============================================================================
