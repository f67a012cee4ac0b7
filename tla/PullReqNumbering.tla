---------------------------- MODULE PullReqNumbering ----------------------------
(***************************************************************************)
(* What concurrent pull request creation promises, with no transactions,   *)
(* locks or retries: pull requests are opened one at a time, each numbered *)
(* one past the repository's last number, at most one open per branch     *)
(* pair; a Created event is reported once for every opened pull request,  *)
(* and eventually.                                                         *)
(***************************************************************************)
EXTENDS Naturals

CONSTANTS
  Pairs,   \* (source branch, target branch) pairs
  Shas     \* source SHAs

VARIABLES
  seq,       \* the repository's PullReqSeq
  prs,       \* opened pull requests
  reported   \* numbers a Created event was reported for

vars == <<seq, prs, reported>>

Init ==
  /\ seq = 0
  /\ prs = {}
  /\ reported = {}

\* A pull request of pair from sha gets the next number.
Open(pair, sha) ==
  /\ \A p \in prs : p.pair # pair
  /\ prs' = prs \cup {[number |-> seq + 1, pair |-> pair, sha |-> sha]}
  /\ seq' = seq + 1
  /\ UNCHANGED reported

\* The Created event of an opened pull request.
Report(n) ==
  /\ n \in {p.number : p \in prs} \ reported
  /\ reported' = reported \cup {n}
  /\ UNCHANGED <<seq, prs>>

Next ==
  \/ \E pair \in Pairs, sha \in Shas : Open(pair, sha)
  \/ \E n \in 1..seq : Report(n)

Spec == Init /\ [][Next]_vars

\* Opening a pull request is the caller's choice; reporting one that was
\* opened is not, so only Report is fair.
LiveSpec == Spec /\ WF_vars(\E n \in 1..seq : Report(n))

=============================================================================
