SPECIFICATION Spec
CONSTANTS
  ChunkSize = 2
  SortCanary = 2
  BytesPerRow = 2
  SpillTarget = 6
  SpillBatchSize = 2
  TargetSize = 1
  PartSize = 2
  PartTableSize = 2
  NumShard = 2
  NumPart = 2
  Procs = 2
  MaxDiscards = 1
  MaxCrashes = 1
  Combiner <- MCCombiner
  MapFn <- MCMapFn
  Pred <- MCPred
  FlatFn <- MCFlatFn
  FoldFn <- MCFoldFn
  Hash <- MCHash
  HashWithSeed <- MCHashWithSeed
  Jobs <- MCJobs
INVARIANTS TypeOK StoredExact CombinedSorted ScanExact 
           CacheWhole EffectsExact ErrorsExact
