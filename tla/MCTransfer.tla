----------------------------- MODULE MCTransfer -----------------------------
(***************************************************************************)
(* Instances of Transfer for TLC: what the sender offers.                  *)
(***************************************************************************)
EXTENDS Transfer

\* A list of files whose size has not changed, with so many chunks each.
Intact(chunks) ==
  [listed |-> TRUE, folders |-> FALSE,
   files |-> [f \in DOMAIN chunks |->
                [announced |-> chunks[f], actual |-> chunks[f]]]]

NoList == [listed |-> FALSE, folders |-> FALSE, files |-> <<>>]
OnlyFolders == [listed |-> TRUE, folders |-> TRUE, files |-> <<>>]

\* No list, an empty list, an empty file between two others, and a file of more
\* chunks than the queues hold.
IntactOffers ==
  {NoList, Intact(<<>>), Intact(<<2, 0, 1>>), Intact(<<2, 2>>), Intact(<<5, 1>>)}

\* A first file that has a chunk more when it is sent than was announced.
Grew ==
  [listed |-> TRUE, folders |-> FALSE,
   files |-> <<[announced |-> 1, actual |-> 2], [announced |-> 1, actual |-> 1]>>]

\* With every fault switched on.
SmallOffers == {NoList, OnlyFolders, Intact(<<1, 2>>), Intact(<<2, 1>>), Grew}

PairOffer == {Intact(<<2, 1>>)}
=============================================================================
