SPECIFICATION Spec
CONSTANTS
  b1 = b1
  b2 = b2
  b3 = b3
  v1 = v1
  s1 = s1
  s2 = s2
  i1 = i1
  i2 = i2
  p1 = p1
  p2 = p2
  t1 = t1
  t2 = t2
  NoItem = NoItem
  NoModule = NoModule
  Buffers = {b1, b2, b3}
  VppBuffers = {v1}
  Stores = {s1, s2}
  Items = {i1, i2}
  PoolThreads = {p1, p2}
  Binders = {t1, t2}
  ComponentNames = {"c2.intel.avc.decoder", "c2.intel.hevc.encoder"}
  SharedObjects = {"libmfx_c2_components_hw.so"}
  Responses = {"r1"}
  InputFailures = {"close", "session", "allocator", "vppInit", "vppSurface", "vpp", "convert", "encoder",
                   "bitstream"}
  NoRoom = {"header", "sample", "keep"}
  Bytes = {0, 1, 2, 103}
  PoolSize = 2
  VppSurfaces = 2
  Keeps = 2
  MaxLoads = 3
  MaxResets = 1
  MaxBytes = 6
  MaxElements = 6
  MaxDepth = 6
  MaxPools = 3
  MaxSurfaces = 3
  MaxMade = 3
  MaxFrames = 4
  MaxStarts = 3
  MaxObjects = 4
  MaxVaFrames = 2
  MaxSessions = 3
  MaxOpenings = 2
  MaxConfigs = 2
  MaxTasks = 1
SYMMETRY Symmetry
CHECK_DEADLOCK FALSE
INVARIANTS
  StreamKept
  PoolItemsKept
  SurfacesNotOverwritten
  TableIsTheDocument
  RunningWithinLimit
  FrameKeptWhileRead
  VaObjectsAccounted
  DecoderReady
  EncoderAsAsked
PROPERTY
  OpenedStays
