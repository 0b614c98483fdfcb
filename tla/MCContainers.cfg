\* A list of three nodes, two of them with the same key, and two iterators;
\* the traversals of one of them are recorded.  Two hashes of two slots, two
\* keys that collide and two items; there is memory for two nodes.
SPECIFICATION ContainersSpec
CONSTANTS
  x1 = x1
  x2 = x2
  x3 = x3
  Nodes = {x1, x2, x3}
  Iters = {i1, i2}
  Watched = {i1}
  Key <- TwoEqual
  Null = Null
  HeadCell = HeadCell
  Tables = {t1, t2}
  Keys <- Strings
  Items = {d1, d2}
  Size = 2
  Word = 65536
  HASH_ALLOC = 2
  MaxChunks = 1
INVARIANTS WellFormed NodesAccounted
PROPERTIES ListImplemented Traverses RemovesNoOther CallsEnd HashImplemented
