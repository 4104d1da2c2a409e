------------------------------- MODULE MCCustody -------------------------------
(* Two devices that share one entry, with one key each and one to spare.   *)
EXTENDS Custody

CONSTANTS d1, d2
MCFirst == d1 :> "k1" @@ d2 :> "k2"
MCSpare == d1 :> "s1" @@ d2 :> "s2"
MCCanon == [k \in {"k1", "k2", "s1", "s2"} |-> k]
MCValid == {"k1", "k2", "s1", "s2"}
MCAgeRecipients == {Public(k) : k \in MCValid}

\* A comment that ends without a newline.
MCLists == {<<Line(<<"", TRUE>>, "none")>>}

MCRandom == <<0, 2>>
MCTyped == {<<0, Separator, 2, CheckValue(<<0, 2>>)>>, <<TypedO, 2, CheckValue(<<0, 2>>)>>,
            <<2, 0, CheckValue(<<0, 2>>)>>, <<0, 2>>}
=============================================================================
