---------------------------- MODULE MCGridV2Live ----------------------------
EXTENDS GridV2Live

\* CIDs that MaxFills fills can draw, F2 included.
MCEntries == {EntryCid(n) : n \in 0..14}
MCIds == MCEntries \cup {ExitCid(n) : n \in 0..8} \cup {F2Lot}
MCReferences == {100}

=============================================================================
