SPECIFICATION MessageSpec
CONSTANTS
  kQm35SamplesPerSymbol = 1016
  kQm35ChipsPerSymbol = 508
  TailFloor = 40
  NativeRate = 48
  HostRate = 65
  FilterDelay = 1353
  Labelled <- MCLabelled
  Identity <- MCIdentity
  Messages <- HeaderMessages
INVARIANT PhrSurvivesOneError
