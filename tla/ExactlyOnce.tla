---------------------------- MODULE ExactlyOnce ----------------------------
(***************************************************************************)
(* What an idempotent command service promises its callers.  A key stands  *)
(* for at most one performed request; once it is performed, every success  *)
(* reported for the key names that request and that one effect.            *)
(***************************************************************************)
CONSTANTS Keys, Requests, Ids

VARIABLES
  done,      \* done[k]: the request performed under key k, and its effect
  answered   \* the successes reported to callers

Nothing == [req |-> "none", id |-> "none"]

Init ==
  /\ done = [k \in Keys |-> Nothing]
  /\ answered = {}

\* The effect of a key happens once, under an identifier of its own.
Perform(k, q, id) ==
  /\ done[k] = Nothing
  /\ \A j \in Keys : done[j].id # id
  /\ done' = [done EXCEPT ![k] = [req |-> q, id |-> id]]

\* A success may be reported as soon as, and whenever, the effect is there.
Report(k, q, id) ==
  answered' = answered \cup {[key |-> k, req |-> q, id |-> id]}

Silently(k, q, id) == Perform(k, q, id) /\ UNCHANGED answered

AndReport(k, q, id) == Perform(k, q, id) /\ Report(k, q, id)

ReportAgain(k, q, id) ==
  /\ done[k] = [req |-> q, id |-> id]
  /\ Report(k, q, id)
  /\ UNCHANGED done

Next == \E k \in Keys, q \in Requests, id \in Ids :
          Silently(k, q, id) \/ AndReport(k, q, id) \/ ReportAgain(k, q, id)

Spec == Init /\ [][Next]_<<done, answered>>
=============================================================================
