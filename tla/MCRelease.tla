------------------------------ MODULE MCRelease ------------------------------
(***************************************************************************)
(* Two commits after the released one, with every version, manifests that  *)
(* agree with VERSION or still say the old one, and two contents, where    *)
(* two tags are pushed; longer work on a few of these lines.               *)
(***************************************************************************)
EXTENDS Release

First == [version |-> 2, manifest |-> 2, body |-> 0]

Commits ==
  {c \in [version : Version, manifest : Version, body : {0, 1}] :
     c.manifest \in {c.version, 2}}

Limit(p, d, r, s) == [pushes |-> p, deletes |-> d, reruns |-> r, repairs |-> s]

Good(v, b) == [version |-> v, manifest |-> v, body |-> b]

MCPlans ==
  {[history |-> <<First, b, c>>, limit |-> Limit(2, 0, 0, 0)] :
     b \in {c \in Commits : c.body = 1}, c \in Commits}
  \cup {[history |-> <<First, Good(4, 1), Good(3, 0)>>, limit |-> Limit(2, 1, 1, 0)],
        [history |-> <<First, Good(3, 1)>>, limit |-> Limit(2, 1, 1, 1)],
        [history |-> <<First, Good(3, 1)>>, limit |-> Limit(1, 0, 0, 2)]}
=============================================================================
