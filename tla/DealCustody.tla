----------------------------- MODULE DealCustody -----------------------------
(***************************************************************************)
(* The exchange implements Custody: status "V" together with the accepted  *)
(* deal is the reservation, and a deal is past once it has met.            *)
(***************************************************************************)
EXTENDS DealProperties

CONSTANT NoDeal
ASSUME NoDealAssumption == NoDeal \notin Deals

Holder == [b \in Books |-> book[b].keeper]
ReservedFor ==
  [b \in Books |-> IF book[b].status = "V" THEN CHOOSE d \in AcceptedOn(b) : TRUE
                                           ELSE NoDeal]
Met == {d \in Deals : deal[d].status \in {"M", "D"} /\ deal[d].type # "EX"}

C == INSTANCE Custody WITH holder <- Holder, reservedFor <- ReservedFor, past <- Met

\* Every step of the services moves, reserves and releases books only the way
\* Custody allows.
ImplementsCustody == C!CustodySpec
=============================================================================
