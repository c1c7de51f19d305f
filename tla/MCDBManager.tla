---------------------------- MODULE MCDBManager ----------------------------
(***************************************************************************)
(* DBManager with two threads, two routes and three requests, two of which *)
(* fight for the same route and differ in every other field; one of these  *)
(* is dated before 1970, as the form's date picker allows.                 *)
(***************************************************************************)
EXTENDS DBManager

CONSTANTS r1, r2

MCTexts == {"", "a", "b", "a@x.es", "b@x.es"}

MCValidEmails == {"a@x.es", "b@x.es"}

First(r) ==
    [route |-> r, name |-> "a", surename |-> "a", email |-> "a@x.es",
     timestamp |-> 0, report |-> 0, phone |-> ""]

Second(r) ==
    [route |-> r, name |-> "b", surename |-> "b", email |-> "b@x.es",
     timestamp |-> -1, report |-> 200, phone |-> "b"]

MCRequests == {First(r1), Second(r1), First(r2)}
=============================================================================
