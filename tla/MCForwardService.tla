-------------------------- MODULE MCForwardService --------------------------
(* Instances of ForwardService for TLC.                                      *)
EXTENDS ForwardService, MCValues

CONSTANTS r1, r2, r3, p1, p2, absent

Symmetry == Permutations(Request) \cup Permutations(Replica)

MCEmptyStore == {[k \in Key |-> absent]}

\* johndoe@linux.com is missing, or was made by hand, disabled, with none or two
\* recipients.
MCJohnKey == <<"linux.com", "johndoe">>
MCStores ==
  {[k \in Key |-> IF k = MCJohnKey THEN e ELSE absent] :
     e \in {absent, Entry0(<<>>, FALSE), Entry0(<<"me@x.org", "you@y.org">>, FALSE)}}
MCTwoStores == {f \in MCStores : f[MCJohnKey] # absent => f[MCJohnKey].recipients = <<>>}
MCJohnRemovable == {MCJohnKey}
=============================================================================
