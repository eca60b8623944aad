---------------------------- MODULE MCGrantClaims ----------------------------
(* A small instance of GrantClaims for TLC: the client of the platform, and two *)
(* users, one of them without an email that parses.  Whatever is optional is    *)
(* odd about both.                                                              *)
EXTENDS GrantClaims

PlatformClient == {[alkemio |-> TRUE, trusted |-> TRUE]}

Member == [structured |-> TRUE, email |-> "valid", display |-> "absent", named |-> TRUE,
           first |-> "plain", last |-> "unfit", addresses |-> {[via |-> "sms", verified |-> FALSE]},
           terms |-> "other", matrix |-> Omitted]
Guest  == [Member EXCEPT !.email = "invalid"]
Users  == {Member, Guest}

LackingTraits == {i \in Users : MissingTraits(i) # {}}
=============================================================================
