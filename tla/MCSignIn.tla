------------------------------ MODULE MCSignIn ------------------------------
(* SignIn on small sets.                                                    *)
EXTENDS SignIn, TLC

(* two Google accounts that have had the same email, one after the other    *)
SharedEmail == {<<"s1", "e1">>, <<"s2", "e1">>}

(* and one that has changed its email                                       *)
ChangedEmail == SharedEmail \cup {<<"s1", "e2">>}

(* The API without the pages                                                *)
ApiOnly == Init /\ [][AccountsNext /\ UNCHANGED pageVars]_vars

Interchangeable == Permutations(Ids) \cup Permutations(Reqs)

=============================================================================
