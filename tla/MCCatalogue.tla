---------------------------- MODULE MCCatalogue ----------------------------
(* A small instance of Catalogue for TLC: two people sign up, each as an    *)
(* owner or a player, with addresses and numbers that clash or do not.      *)
EXTENDS Catalogue, TLC

CONSTANTS e1, e2, p1, p2, hanoi, saigon_time

Form(email, phone, role, wellFormed) ==
    [email |-> email, phone |-> phone, role |-> role, wellFormed |-> wellFormed]

Forms == {Form(e1, p1, "owner", TRUE), Form(e2, p2, "", TRUE), Form(e1, p2, "player", TRUE),
          Form(e2, p2, "admin", TRUE), Form(e2, p2, "", FALSE)}

SeededTimezone == [c \in Cities |-> saigon_time]

Interchangeable == Permutations(Accounts) \cup Permutations(Courts)
=============================================================================
