------------------------------ MODULE SendOnce ------------------------------
(***************************************************************************)
(* What the send path promises, whatever runs overlap, crash or are swept: *)
(* the mail server is handed each message at most once, and once more      *)
(* after a soft bounce of the copy it was handed.  "At most once beats at  *)
(* least once" (docs/concept.md).                                          *)
(***************************************************************************)
EXTENDS Integers

CONSTANT Messages

VARIABLES
  handed,   \* copies of each message the server is known to have taken
  allowed   \* copies of it that may ever be handed over

Init ==
  /\ handed = [m \in Messages |-> 0]
  /\ allowed = [m \in Messages |-> 1]

HandOver(m) ==
  /\ handed[m] < allowed[m]
  /\ handed' = [handed EXCEPT ![m] = @ + 1]
  /\ UNCHANGED allowed

\* The one retry: only for a message that did leave, and only once.
AllowRetry(m) ==
  /\ handed[m] = 1 /\ allowed[m] = 1
  /\ allowed' = [allowed EXCEPT ![m] = 2]
  /\ UNCHANGED handed

Next == \E m \in Messages : HandOver(m) \/ AllowRetry(m)

Spec == Init /\ [][Next]_<<handed, allowed>>

WithinAllowance == \A m \in Messages : handed[m] <= allowed[m]
=============================================================================
