\* Three videos of the user, one of which matches a search; pages of one and of two.
CONSTANTS
  v1 = v1  v2 = v2  v3 = v3  v4 = v4
  Videos <- Videos3
  Others = {}
  Matching = {v2}
  AskedSizes = {0, 1}
  DefaultSize = 2
  MaxSize = 2
  MaxPage = 4
  RowsScan = TRUE
  NoVideo = NoVideo
SPECIFICATION Spec
INVARIANTS TypeOK MissedOnlyByShift RepeatedOnlyByShift
PROPERTIES BlankOnlyByDeletion
