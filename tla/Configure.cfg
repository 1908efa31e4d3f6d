SPECIFICATION Spec
CONSTANTS
  Order <- MCOrder
  Kconfigs <- MCKconfigs
  Newer <- MCNewer
  Starts <- MCStarts
  Text <- MCText
  DecStr <- MCDecStr
  HexStr <- MCHexStr
  Modes <- MCModes
  Faults <- MCFaults
  Answers <- MCAnswers
  MaxRuns = 2
  MaxKeys = 2
CHECK_DEADLOCK FALSE
INVARIANTS CacheFresh ChoiceExactlyOne ValuesFit ConfigKept AutoConfMarksCompletion TruthfulChange NoNewLeft
PROPERTIES TouchedCoversChange SaveLoadStable DefconfigRoundTrip RandEnds
