----------------------------- MODULE MCSessions ----------------------------
(* An instance of Sessions for TLC: two tabs, one of which makes two requests *)
(* at a time.  Users are interchangeable: let u1 be the first to sign in.   *)
EXTENDS Sessions

CallTabs == [c \in Calls |-> IF c = "c3" THEN "t2" ELSE "t1"]
FirstUser == rows[1].user # "u2"
=============================================================================
