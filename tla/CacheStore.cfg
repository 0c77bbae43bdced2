SPECIFICATION Spec
CONSTANTS
  NULL = NULL
  k1 = k1
  k2 = k2
  k3 = k3
  k4 = k4
  v1 = v1
  v2 = v2
  vmid = vmid
  vbig = vbig
  Key = {k1, k2, k4}
  Value = {v1, v2, vmid, vbig}
  nkey <- MCnkey
  nval <- MCnval
  Bucket = {0, 1}
  hash <- MChash
  Buffers = {10, 252}
  sizeof_item = 32
  min_size = 32
  max_size = 16384
  slab_page_size = 130
  prealloc_size = 64
  nclasses = 10
  class_size <- MCClassSize
PROPERTY IsKVStore
