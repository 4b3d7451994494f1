SPECIFICATION Spec
CONSTANTS
  Tables = {"agency", "stops", "routes", "trips", "stop_times", "shapes"}
  Texts <- MCTexts
  NearTexts <- MCNearTexts
  RawTexts <- MCPlain
INVARIANT RecordReadBack
