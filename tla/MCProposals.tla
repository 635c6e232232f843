----------------------------- MODULE MCProposals -----------------------------
EXTENDS Proposals, TLC

CONSTANTS run1, run2, run3, version1, version2

\* Two runs of an old prompt and one of its successor.
MCVersionOf == [run \in {run1, run2, run3} |->
                  IF run = run3 THEN version2 ELSE version1]

\* The cards of one user; what the decisions rest on; what one author gets to see
\* of all that may become of two proposals, and two authors of what is rejected.
MCScenes ==
  {[users |-> {user}, proposals |-> 3, judgements |-> 3, appeals |-> 1, now |-> 5,
    checks |-> {"block_card"}, reading |-> FALSE] : user \in Users} \cup
  {[users |-> {user}, proposals |-> 2, judgements |-> 2, appeals |-> 0, now |-> 2,
    checks |-> {"pass", "block_soft"}, reading |-> TRUE] : user \in Users} \cup
  {[users |-> Users, proposals |-> 2, judgements |-> 4, appeals |-> 0, now |-> 1,
    checks |-> CheckVerdicts, reading |-> FALSE],
   [users |-> Users, proposals |-> 2, judgements |-> 2, appeals |-> 0, now |-> 2,
    checks |-> {"block_soft"}, reading |-> TRUE]}

Symmetric == Permutations(Users) \cup Permutations(Contents)
=============================================================================
