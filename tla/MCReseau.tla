------------------------------ MODULE MCReseau ------------------------------
(* Instance of Reseau: one bench after the other. *)
EXTENDS Reseau

\* A small frame and one of two fragments, each with the least parity.
MCLots == {[k |-> 1, m |-> 1], [k |-> 2, m |-> 1]}

MCReglages ==
  {[restreint |-> FALSE, relais |-> FALSE, admis |-> Appelants],
   [restreint |-> TRUE, relais |-> TRUE, admis |-> Appelants],
   [restreint |-> TRUE, relais |-> FALSE, admis |-> {CHOOSE a \in Appelants : TRUE}]}

\* What the requests of the administration API write.
MCEcritures == {<<"alloc">>, <<"groupes", "roles">>}

\* Requests of the accounts service: passwords, the second factor, the provider.
MCProfils ==
  LET seul == {CHOOSE c \in Emails : TRUE}
      avec(g, e, i, d) == [genres |-> g, emails |-> e, inscrits |-> i, demandes |-> d] IN
    {avec({"connexion"}, seul, seul, 4),
     avec({"connexion", "connexion2fa", "activation"}, seul, seul, 3),
     avec({"rappel"}, Emails, Emails, 2),
     avec({"inscription", "rappel"}, seul, {}, 2)}

=============================================================================
