---------------------------- MODULE ProviderCall ----------------------------
(***************************************************************************)
(* What executeWithRetry promises whoever calls it, with the shared token, *)
(* the logins and the second attempt left out: a call that returns has     *)
(* been carried out once, one that is refused has not been carried out,    *)
(* and only one that got no answer leaves that open.  Nothing is done for  *)
(* a call that has ended.                                                  *)
(***************************************************************************)
EXTENDS Naturals

CONSTANT Caller

VARIABLES
  outcome,    \* how each call has ended, "none" while it has not
  performed   \* how often the provider did what it asks for

Outcome == {"none", "returned", "refused", "unanswered"}

Init ==
  /\ outcome = [c \in Caller |-> "none"]
  /\ performed = [c \in Caller |-> 0]

End(c, how, times) ==
  /\ outcome[c] = "none"
  /\ outcome' = [outcome EXCEPT ![c] = how]
  /\ performed' = [performed EXCEPT ![c] = @ + times]

Return(c) == End(c, "returned", 1)
Refuse(c) == End(c, "refused", 0)
LeaveOpen(c) == \E times \in {0, 1} : End(c, "unanswered", times)

Next == \E c \in Caller : Return(c) \/ Refuse(c) \/ LeaveOpen(c)

Spec == Init /\ [][Next]_<<outcome, performed>>
=============================================================================
