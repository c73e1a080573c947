--------------------------------- MODULE MCApi ---------------------------------
(* Small instances of the four parts of Api. *)
EXTENDS Api, TLC

CONSTANTS home, moved, bad, inside, safe, alsoSafe, b1, b2, f1, f2, s1,
          host, acme, globex, ann, bob, c1, c2, c3,
          won, lost, opp, task, note, e1, e2,
          site, info, k1, k2, k3, k4, m1, m2, m3, m4, x1, x2

MCUrlOf == [s \in Sources |-> home]
MCAnswers == {<<safe>>, <<safe, inside>>, <<alsoSafe, safe>>}

MCRegistrations == {[slug |-> acme, name |-> acme, email |-> ann],
                    [slug |-> globex, name |-> acme, email |-> bob]}
MCJoins == {[slug |-> acme, email |-> bob, role |-> "viewer"]}

MCPages == {[domain |-> site, emails |-> <<ann, bob>>, title |-> "Ceo"],
            [domain |-> site, emails |-> <<ann>>, title |-> None],
            [domain |-> site, emails |-> <<bob>>, title |-> "Manager"]}
MCProfessional == {<<ann, site>>}
MCInputs == {[email |-> ann, title |-> "Engineer"], [email |-> bob, title |-> None]}

MCSymmetry == Permutations(Callers)
=============================================================================
