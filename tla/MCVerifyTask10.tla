---------------------------- MODULE MCVerifyTask10 -----------------------------
(* The script against one rival publisher, with two gates (the second is   *)
(* skipped after an error of the first) and one fault anywhere.            *)
EXTENDS VerifyTask10

CONSTANTS rival
=============================================================================
