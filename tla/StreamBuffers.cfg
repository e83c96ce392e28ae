\* Two uploads race for one id, a download runs beside them; two evictions, a restart.
SPECIFICATION Spec
CONSTANTS
  u1 = u1
  u2 = u2
  d1 = d1
  file1 = file1
  Ids = {file1}
  Uploads <- MCUploads
  Downloads <- MCDownloads
  Target <- MCTarget
  Parts = 2
  MaxEvictions = 2
  MaxRestarts = 1
INVARIANTS TypeOK Backed OneWriter WholeDownloads NotifiedIsStored
PROPERTIES Streams DownloadEnds
CHECK_DEADLOCK FALSE
