\* Two lists and three nodes: a node between two others, moves between lists.
SPECIFICATION UseSpec
CONSTANTS
  Heads = {h1, h2}
  Items = {a, b, c}
  Fifo = {h1}
INVARIANT
  Rings
PROPERTY
  ImplementsSequences
