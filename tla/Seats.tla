------------------------------ MODULE Seats ------------------------------
(***************************************************************************)
(* What invitations promise one address.  An invitation is offered, and    *)
(* then taken once or withdrawn, never both; an offer withdraws the desk's *)
(* earlier one, so a link that was replaced is dead; and taking it is what *)
(* gives the seat.  The desk's administrators seat and unseat people       *)
(* by hand as well.                                                        *)
(***************************************************************************)
CONSTANTS Desks, Invites, None

VARIABLES
  life,   \* where each invitation stands
  desk,   \* the desk an invitation was offered by, or None
  seat    \* the desks that seat the person

vars == <<life, desk, seat>>

Init == /\ life = [i \in Invites |-> "none"]
        /\ desk = [i \in Invites |-> None]
        /\ seat \in SUBSET Desks

Offer(i, d) ==
  /\ life[i] = "none"
  /\ life' = [j \in Invites |-> IF j = i THEN "pending"
                                ELSE IF desk[j] = d /\ life[j] = "pending" THEN "revoked"
                                ELSE life[j]]
  /\ desk' = [desk EXCEPT ![i] = d]
  /\ UNCHANGED seat

Withdraw(i) ==
  /\ life[i] = "pending"
  /\ life' = [life EXCEPT ![i] = "revoked"]
  /\ UNCHANGED <<desk, seat>>

Take(i) ==
  /\ life[i] = "pending"
  /\ life' = [life EXCEPT ![i] = "accepted"]
  /\ seat' = seat \cup {desk[i]}
  /\ UNCHANGED desk

Staff == seat' \in SUBSET Desks /\ UNCHANGED <<life, desk>>

Next == \/ \E i \in Invites : Withdraw(i) \/ Take(i) \/ \E d \in Desks : Offer(i, d)
        \/ Staff

Spec == Init /\ [][Next]_vars
==========================================================================
