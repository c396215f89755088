--------------------------- MODULE MCUidIssuance ---------------------------
(* Instances of UidIssuance for TLC: an account that Persona verifies and one  *)
(* that is on the list of entities that are not from the US.                   *)
EXTENDS UidIssuanceProperties

CONSTANTS person, entity

PersonOnly == {person}
AboutPerson == [i \in Inquiry |-> person]
EntityListed == (person :> None) @@ (entity :> 4)
NoneListed == [a \in Account |-> None]

\* The person asks for itself, or for the entity to receive the UID.
PersonAsks == {<<person, None>>, <<person, entity>>}
AllAsk == PersonAsks \cup {<<entity, None>>}
PersonStates == {<<person, "non-us">>}
=============================================================================
