--------------------------- MODULE MC_MarketBook ---------------------------
(* One market with both assets registered; "yes2" belongs to another       *)
(* market's book.                                                          *)
EXTENDS MarketBook, TLC

CONSTANTS m1, m2

\* A text that is no number, before the best bid; a price twice, so that a
\* removal uncovers the second.  (Changes of one level make the other sides.)
MCSnapshotSides == {<<>>, <<Level(0, 0), Level(50, 1)>>, <<Level(50, 0), Level(50, 1)>>}

MCAssets == {"yes1", "no1", "yes2"}
MCAssetMarket == "yes1" :> m1 @@ "no1" :> m1 @@ "yes2" :> m2
MCAssetOutcome == "yes1" :> "Yes" @@ "no1" :> "No" @@ "yes2" :> "Yes"
=============================================================================
