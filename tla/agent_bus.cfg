SPECIFICATION BusSpec
CONSTANTS
  WorkerSets <- MCWorkerSets
  TermPlaces <- MCTermPlaces
  MaxArrivals <- MCMaxArrivals
  SubWorkers <- MCSubWorkers
  Arrivals <- MCArrivals
  MaxWork <- MCMaxWork
  CommandQueueSize <- MCCommandQueueSize
  SavedPatterns <- MCSavedPatterns
INVARIANT NothingLeftBehind
PROPERTY UnconfigureEnds
