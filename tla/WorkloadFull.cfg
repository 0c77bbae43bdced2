SPECIFICATION WSpec
CONSTANTS
  NULL = NULL
  v123 = v123
  Key <- MCKey
  Value = {v123}
  TheValue = v123
  nkey <- MCnkey
  nval <- MCnval
  Bucket = {0, 1}
  hash <- MChash
  Buffers = {252}
  sizeof_item = 32
  min_size = 40
  max_size = 16384
  slab_page_size = 640
  prealloc_size = 160
  nclasses = 9
  class_size <- MCClassSize
  NCHARS = 3
  ALPHABETSIZE = 2
  Items = {5}
  Passes = {1}
INVARIANT SetsSucceed
