---------------------------- MODULE RequestLines ----------------------------
(***************************************************************************)
(* What the service promises of the requests that use a bus: each port has *)
(* a line of its own and serves it in the order in which the requests      *)
(* came, one after the other.  A request leaves its line when it is        *)
(* answered.  The lines of some ports may be dropped, each as a whole, and *)
(* then none of its requests is answered later.                            *)
(***************************************************************************)
EXTENDS Sequences, Functions

CONSTANTS
  Clients,  \* who sends requests, one at a time each
  Lines,    \* a line for each port
  Kept      \* lines that are never dropped

VARIABLES
  line,     \* line -> its requests, as their clients
  reply     \* what each client has got

vars == <<line, reply>>

Init ==
  /\ line = [l \in Lines |-> <<>>]
  /\ reply = [c \in Clients |-> "none"]

Enter(c, l) ==
  /\ reply[c] # "waiting"
  /\ line' = [line EXCEPT ![l] = Append(@, c)]
  /\ reply' = [reply EXCEPT ![c] = "waiting"]

Serve(l) ==
  /\ line[l] # <<>>
  /\ line' = [line EXCEPT ![l] = Tail(@)]
  /\ reply' = [reply EXCEPT ![Head(line[l])] = "done"]

Drop(l) ==
  /\ line' = [line EXCEPT ![l] = <<>>]
  /\ reply' = [c \in Clients |-> IF c \in Range(line[l]) THEN "lost" ELSE reply[c]]

Next ==
  \/ \E c \in Clients, l \in Lines : Enter(c, l)
  \/ \E l \in Lines : Serve(l)
  \/ \E l \in Lines \ Kept : Drop(l)

Spec == Init /\ [][Next]_vars
=============================================================================
