----------------------- MODULE MCProviderConversation -----------------------
(* An instance of ProviderConversation for TLC: a range the dispute cites, *)
(* one that only the patch has, and one the model invents.                 *)
EXTENDS ProviderConversation

CONSTANTS cited, shown, invented

Cite(range) == [tool |-> "cite", range |-> range]

SomeCalls == {Cite(shown), Cite(invented), [tool |-> "other", range |-> shown]}
=============================================================================
