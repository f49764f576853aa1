---------------------------- MODULE QueryService ----------------------------
(***************************************************************************)
(* What the query multiplexer promises the callers of ExchangeAsync         *)
(* (dns/transport/multiplexer.go): each query that was asked is called back *)
(* exactly once, with the response to it or with an error.  Connections,    *)
(* query IDs, retries and the goroutines behind them do not appear here.    *)
(***************************************************************************)
CONSTANT Queries

VARIABLE outcome    \* what has become of each query

Init == outcome = [q \in Queries |-> "unasked"]

Exchange(q) ==
    /\ outcome[q] = "unasked"
    /\ outcome' = [outcome EXCEPT ![q] = "asked"]

\* The callback runs.
Callback(q) ==
    /\ outcome[q] = "asked"
    /\ outcome'[q] \in {"response", "error"}
    /\ outcome' = [outcome EXCEPT ![q] = outcome'[q]]

Next == \E q \in Queries : Exchange(q) \/ Callback(q)

\* Most steps of an implementation are stuttering steps: written first, they are
\* cheap to check.
Spec == Init /\ [][UNCHANGED outcome \/ Next]_outcome

=============================================================================
