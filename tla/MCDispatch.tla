----------------------------- MODULE MCDispatch -----------------------------
(* Small instances of Dispatch for TLC. *)
EXTENDS Dispatch, TLC

CONSTANTS c1, c2, r1, r2, o1, s1

BothCredentials == {c1, c2}
OneCredential == {c1}
BothRequests == {r1, r2}
OneRequest == {r1}
Operators == {o1}
ToolCalls == {r2}
PaidOnes == {c2}
Sessions == {s1}
None == {}
Priorities == {0, 1}

\* r1 belongs to a group of one credential; r2 is not bound to any.
GroupOfOne == [r \in Request |-> IF r = r1 THEN {c1} ELSE Cred]
NoGroup == [r \in Request |-> Cred]

\* One request continues a conversation; without one, the affinity mode
\* behaves as the priority mode does.
OneInSession == [r \in Request |-> IF r = r1 THEN s1 ELSE NoId]

\* A start with every credential in service.
MCInit ==
  /\ DispatchInit
  /\ pool = Cred
  /\ \A c \in Cred : ~entry[c].disabled

MCSafety == MCInit /\ [][DispatchNext]_dvars

MCFair == MCInit /\ [][DispatchNext]_dvars /\ Fairness
=============================================================================
