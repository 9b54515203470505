\* Three rows in pages of two, and full pages only; two writers on two threads,
\* up to three writes around and during a listing.
SPECIFICATION FairSpec
CONSTANTS
    Writers = {w1, w2}
    Ids = {i1, i2, i3}
    PageSize = 2
    MaxHits = 1
    MaxGeneration = 2
PROPERTIES
    ListedIsTheCollection
    EveryListingEnds
