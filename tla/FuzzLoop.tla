------------------------------ MODULE FuzzLoop ------------------------------
(***************************************************************************)
(* What the fuzzer's main loop (main.cpp, startFuzzing) promises, whatever *)
(* recursion the dependency solver needs to fill one transaction:          *)
(*   - one transaction of the loop is in progress at a time;               *)
(*   - while none is, no transaction is marked as used, so that every      *)
(*     iteration may choose among all the dependencies again;              *)
(*   - a transaction that was begun is finished.                           *)
(***************************************************************************)
CONSTANTS Tx,           \* the transactions of svcInfo
          NoTx          \* not a transaction

VARIABLES loopTx,       \* the transaction of this iteration, or NoTx
          marks         \* the transactions marked as used

vars == <<loopTx, marks>>

Init == loopTx = NoTx /\ marks = {}

\* generateTx constructs the transaction of the next iteration.
Begin(t) ==
  /\ loopTx = NoTx
  /\ loopTx' = t
  /\ marks' = {t}

\* Filling and issuing it marks and unmarks transactions.
Work ==
  /\ loopTx # NoTx
  /\ marks' \in SUBSET Tx
  /\ UNCHANGED loopTx

\* The iteration is over: issued, given up, or lost with the process.
End ==
  /\ loopTx # NoTx
  /\ loopTx' = NoTx
  /\ marks' = {}

Next == (\E t \in Tx : Begin(t)) \/ Work \/ End

Spec == Init /\ [][Next]_vars

\* An iteration that begins ends.
IterationsEnd == (loopTx # NoTx) ~> (loopTx = NoTx)
=============================================================================
