SPECIFICATION WriterSpec
CONSTANTS
  k1 = k1
  k2 = k2
  Rows <- TwoRows
  NoRow = NoRow
  TableKey = TableKey
  Events <- FewEvents
  Hashes <- TwoHashes
  Workers = {1, 2}
  Writers = {1}
  ChanSize = 1
  BatchSize = 2
  WriteRetries = 1
  MaxWrites = 3
  MaxCall = 2
INVARIANTS
  WriterTypeOK
  RowHasLastChange
PROPERTY ImplementsRowDelivery
CHECK_DEADLOCK FALSE
