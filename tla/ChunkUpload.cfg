SPECIFICATION FairSpec
CONSTANTS
  Files = {a, b}
  UploadIds = {x}
  UploadId <- SameId
  TotalChunks <- Two
  Tasks = {t1, t2}
  MaxRequests = 4
  MaxFaults = 1
  
PROPERTIES UploadsEnd
CHECK_DEADLOCK FALSE
