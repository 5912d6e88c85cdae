------------------------------- MODULE MCUsers -------------------------------
(***************************************************************************)
(* Users for TLC.                                                          *)
(***************************************************************************)
EXTENDS Users, TLC

\* A new name (a column nothing depends on), a new address, a new password.
Rename == {[email |-> None, password |-> None]}
Readdress == [email : Emails, password : {None}]
Repassword == [email : {None}, password : Passwords]

LinkPatches == Rename \cup Readdress
AnyPatch == LinkPatches \cup Repassword

Interchangeable == Permutations(Calls) \cup Permutations(Emails)
=============================================================================
