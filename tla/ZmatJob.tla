------------------------------- MODULE ZmatJob -------------------------------
(***************************************************************************)
(* What a caller of zmat_pool_run is promised, with no threads and no lock: *)
(* the blocks of one job are processed one at a time, each at most once,    *)
(* and the call answers once, 0 only when every block is done, -3 only when *)
(* some block failed, -5 only when nothing was tried.                       *)
(*                                                                          *)
(* ZmatPool is shown to implement this specification.                       *)
(***************************************************************************)
EXTENDS Integers

CONSTANT NBlock      \* blocks of the job

Blocks == 0 .. (NBlock - 1)

VARIABLES status,    \* what became of each block
          rc         \* the answer; Pending until the call returns

vars == <<status, rc>>

Pending == 1
Failures == {"noinit", "nocodec"}

Init == /\ status = [b \in Blocks |-> "none"]
        /\ rc = Pending

\* A block is processed, once.
Process(b) ==
  /\ rc = Pending
  /\ status[b] = "none"
  /\ \E s \in {"done"} \cup Failures : status' = [status EXCEPT ![b] = s]
  /\ UNCHANGED rc

Answer ==
  /\ rc = Pending
  /\ \/ rc' = 0  /\ \A b \in Blocks : status[b] = "done"
     \/ rc' = -3 /\ \E b \in Blocks : status[b] \in Failures
     \/ rc' = -5 /\ \A b \in Blocks : status[b] = "none"
  /\ UNCHANGED status

Next == Answer \/ \E b \in Blocks : Process(b)

Spec == Init /\ [][Next]_vars
=============================================================================
