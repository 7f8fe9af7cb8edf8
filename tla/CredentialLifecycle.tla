------------------------ MODULE CredentialLifecycle ------------------------
(***************************************************************************)
(* What the credential pool promises about one credential, without the     *)
(* counters, reasons and locks that implement it.                          *)
(*                                                                         *)
(*   absent    not in the table                                            *)
(*   serving   may be handed to a request                                  *)
(*   cooling   rate limited, its cooldown still running                    *)
(*   rested    rate limited, its cooldown over                            *)
(*   tripped   too many failed calls; may be given another chance          *)
(*   latched   out until an operator decides otherwise                     *)
(*                                                                         *)
(* The promise: traffic alone takes credentials out one at a time, brings  *)
(* back only rested ones and (all together) tripped ones, and never moves  *)
(* a latched one.  Everything else is the step of an operator.             *)
(***************************************************************************)
CONSTANTS Cred, Operator

VARIABLES status,   \* [Cred -> Status]
          working   \* operators in the middle of an Admin API call

Status == {"absent", "serving", "cooling", "rested", "tripped", "latched"}

TypeOK == status \in [Cred -> Status] /\ working \in SUBSET Operator

Init == status \in [Cred -> {"absent", "serving", "latched"}] /\ working = {}

\* Traffic takes one serving credential out of service.
Withdraw(c) ==
  /\ status[c] = "serving"
  /\ \E s \in {"cooling", "tripped", "latched"} : status' = [status EXCEPT ![c] = s]
  /\ UNCHANGED working

CoolDown(c) ==
  /\ status[c] = "cooling"
  /\ status' = [status EXCEPT ![c] = "rested"]
  /\ UNCHANGED working

\* Every credential in state `from` serves again, at once.
Return(from) ==
  /\ status' = [c \in Cred |-> IF status[c] = from THEN "serving" ELSE status[c]]
  /\ UNCHANGED working

\* The effective step of an operator's call settles one credential: in
\* service, latched, or out of the table (only when it was not serving).
Settle(o, c) ==
  /\ o \in working \/ o \in working'
  /\ \E s \in {"serving", "latched", "absent"} :
        /\ s = "absent" => status[c] # "serving"
        /\ s = "latched" => status[c] # "absent"
        /\ status' = [status EXCEPT ![c] = s]

\* An operator starts or ends a call, or does a part of it that leaves every
\* credential where it is.
Administer == UNCHANGED status /\ working' \in SUBSET Operator

Next ==
  \/ \E c \in Cred : Withdraw(c) \/ CoolDown(c)
  \/ Return("rested")
  \/ Return("tripped")
  \/ \E o \in Operator, c \in Cred : Settle(o, c)
  \/ Administer

vars == <<status, working>>

Spec == Init /\ [][Next]_vars
=============================================================================
