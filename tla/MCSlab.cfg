\* Pages of four units, as many as headers fit on one; five pages.
\* Sizes of a slice, of a page and of a page and a slice.
SPECIFICATION SlabSpec
CONSTANTS
  PAGE_SIZE = 4
  Pages = 5
  Sizes = {1, 2, 3, 4, 5}
INVARIANTS
  SlabTypeOK
  SlicesApart
  CachedIsUnused
  NothingIsLost
\* After a wild access nothing is known of the machine.
CHECK_DEADLOCK FALSE
