SPECIFICATION Spec
CONSTANTS
  URLs = {u1, u2}
  NoURL = NoURL
  NamesDownloads = TRUE
  RangeManaged = TRUE
  MaxRequests = 2
  MaxDownloads = 2
SYMMETRY Symmetry
INVARIANTS
  DownloadedImageIsOwn
  ClearedOutsidePreload
  ImageIsUnderWay
