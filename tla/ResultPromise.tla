--------------------------- MODULE ResultPromise ---------------------------
(***************************************************************************)
(* What ten_env_send_cmd promises to a caller that registers a result      *)
(* handler: the handler is called with results until one of them is        *)
(* completed, which eventually happens, and never again afterwards.        *)
(***************************************************************************)
EXTENDS Naturals

CONSTANT Cmds

VARIABLES
  phase,   \* "idle", "waiting" or "completed", for each command
  results  \* how many results the handler of each command has seen

vars == <<phase, results>>

Init ==
  /\ phase = [c \in Cmds |-> "idle"]
  /\ results = [c \in Cmds |-> 0]

Send(c) ==
  /\ phase[c] = "idle"
  /\ phase' = [phase EXCEPT ![c] = "waiting"]
  /\ UNCHANGED results

Partial(c) ==
  /\ phase[c] = "waiting"
  /\ results' = [results EXCEPT ![c] = @ + 1]
  /\ UNCHANGED phase

Complete(c) ==
  /\ phase[c] = "waiting"
  /\ phase' = [phase EXCEPT ![c] = "completed"]
  /\ results' = [results EXCEPT ![c] = @ + 1]

Next == \E c \in Cmds : Send(c) \/ Partial(c) \/ Complete(c)

Spec == Init /\ [][Next]_vars
FairSpec == Spec /\ \A c \in Cmds : WF_vars(Complete(c))
============================================================================
