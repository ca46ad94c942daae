----------------------------- MODULE MCAccounts -----------------------------
(* Two replicas, a goroutine each; one address in two spellings.  The      *)
(* table of users is empty or holds an admin and a member who are logged   *)
(* in.                                                                     *)
EXTENDS Accounts, TLC

MCFold(e) == IF e = "A" THEN "a" ELSE e
MCServedBy == "c1" :> "r1" @@ "c2" :> "r2"
MCFirstUsers ==
  {<<>>} \cup {u :> [email |-> "a", role |-> "admin"] @@ v :> [email |-> "b", role |-> "member"] :
               <<u, v>> \in {p \in Users \X Users : p[1] # p[2]}}
MCSymmetry == Permutations(Users)
=============================================================================
