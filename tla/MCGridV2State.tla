--------------------------- MODULE MCGridV2State ---------------------------
(***************************************************************************)
(* The machine with and without net-off, which a behaviour chooses once:   *)
(* the runtime leaves it off, a configuration may turn it on.              *)
(***************************************************************************)
EXTENDS GridV2State, TLC

VARIABLE netoff

Netoff == INSTANCE GridV2State WITH NetoffEnabled <- TRUE

MCInit == Init /\ netoff \in BOOLEAN
MCNext ==
  /\ \/ ~netoff /\ Next
     \/ netoff /\ Netoff!Next
  /\ UNCHANGED netoff
MCSpec == MCInit /\ [][MCNext]_<<vars, netoff>>

\* Without net-off a branch keeps no entry on the opposite side ("Opposite side
\* stays empty until FLAT reseed").
OneSidedUnlessNetoff == ~netoff => OneSidedBranch

\* With the default reseed flags a branch that unwinds through its exits leaves
\* the full symmetric window, inside the cooldown or not, whatever rolled before.
UnwindUnlessNetoff ==
  [][~netoff /\ mode # "FLAT" /\ mode' = "FLAT" => window' \in {BuildWindow(ref), EmptyWindow}]_vars

MCFillPrices == 97..103
MCTimestamps == {0, 1}
MCReferences == {100}
MCSymmetry == Permutations(Ids)

=============================================================================
