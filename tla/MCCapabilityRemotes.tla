------------------------ MODULE MCCapabilityRemotes ------------------------
(* Instances of CapabilityRemotes for TLC.  Names and remotes are strings:    *)
(* sources are compared with "host", and names with those of remotes.  Loads  *)
(* are model values: two of one remote that offer the same only differ by     *)
(* name, so that swapping them is a symmetry.                                 *)
EXTENDS CapabilityRemotes, TLC

CONSTANTS b1, b2, t1, t2

TwoRemotes == {"bookings", "travel"}

\* Twice the same version of bookings; two of travel, the second for another host.
FourLoads == {b1, b2, t1, t2}
FourRemotes == b1 :> "bookings" @@ b2 :> "bookings" @@ t1 :> "travel" @@ t2 :> "travel"
FourOffers == b1 :> <<"search">> @@ b2 :> <<"search">>
              @@ t1 :> <<"book", "search">> @@ t2 :> <<"search">>
NewVersion == {t2}
Swap == Permutations({b1, b2})

OneHostTool == {"search"}
AllPolicies == {"replace", "throw", "first-wins", "namespace"}
=============================================================================
