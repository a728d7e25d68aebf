---------------------------- MODULE RemoteCalls ----------------------------
(***************************************************************************)
(* What the scripts of the web client may rely on when they call a method  *)
(* of the server (scripts/lib/kiara.js: the wrapper a connection generates *)
(* returns a CallResponse, on which the script listens for "result",       *)
(* "exception" and "error"):                                               *)
(*                                                                         *)
(*   - a call is answered at most once, and never after it has failed;     *)
(*   - a failure may be reported more than once;                           *)
(*   - nothing follows an answer, unless the script's own listener threw   *)
(*     while it handled the answer (Throwing): then a failure may follow.  *)
(*                                                                         *)
(* A call need not be answered: it can also be forgotten, see FivesJson.   *)
(* Calls are numbered in the order in which they are made.                 *)
(***************************************************************************)
EXTENDS Naturals

CONSTANTS NumCalls,  \* how many calls the scripts make
          Throwing   \* the calls whose listener throws when it is handed the answer

Calls == 1 .. NumCalls

VARIABLE status  \* what the script has learnt of each call

Answers == {"result", "exception"}

Init == status = [c \in Calls |-> "unmade"]

Make(c) ==
    /\ status[c] = "unmade"
    /\ \A d \in Calls : status[d] = "unmade" => c <= d
    /\ status' = [status EXCEPT ![c] = "made"]

Answer(c) ==
    /\ status[c] = "made"
    /\ \E a \in Answers : status' = [status EXCEPT ![c] = a]

MayFail(c) ==
    \/ status[c] \in {"made", "error"}
    \/ c \in Throwing /\ status[c] \in Answers

\* One event may report the failure of several calls.
Fail(F) ==
    /\ \A c \in F : MayFail(c)
    /\ status' = [c \in Calls |-> IF c \in F THEN "error" ELSE status[c]]

Next ==
    \/ \E c \in Calls : Make(c) \/ Answer(c)
    \/ \E F \in SUBSET Calls : Fail(F)

Spec == Init /\ [][Next]_status
=============================================================================
