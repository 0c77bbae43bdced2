SPECIFICATION TSpec
CONSTANTS
  NULL = NULL
  v27 = v27
  Key <- MCKey
  Value = {v27}
  TheValue = v27
  nkey <- MCnkey
  nval <- MCnval
  Bucket = {0, 1}
  hash <- MChash
  Buffers = {252}
  sizeof_item = 32
  min_size = 32
  max_size = 16384
  slab_page_size = 256
  prealloc_size = 64
  nclasses = 10
  class_size <- MCClassSize
  NCHARS = 3
  ALPHABETSIZE = 2
  N_ACCESSES = 5
  LOGBUFSIZE = 48
  LineMax = 8
  linelen <- MClinelen
  Access <- MCAccess
  sets <- MCSets
  assoc <- MCAssoc
  LineSize = 64
  PageSize = 128
  AsidUnit = 64
  Asid = {1, 2}
  AccessType = {"DATA"}
  MaxAccesses = 300
  Message = 256
  Reply = 512
  Table = 768
  Page = 1088
  Stack = 2048
  MarkersFirst = {"on", "off", "switch_cache", "switch_wrapper"}
  Items = {3}
  Passes = {3}
  Garbage = {0, 7}
INVARIANT RoundsTotal
