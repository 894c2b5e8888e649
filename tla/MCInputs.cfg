\* Every kind of input from outside, each on its own.
SPECIFICATION InputsSpec
CONSTANTS
  Documents <- MCDocuments
  Pieces <- MCPieces
  MaxPieces <- MCMaxPieces
  MaxDepth = 3
  MaxInteger = 99
  MaxExponent = 10
  Precision = 4
  Indent = 1
  NULL = NULL
  Source <- MCSource
  MaxTaken = 2
  Urls <- AllUrls
  Registered <- MCRegistered
  MAX_ROUTES = 10
  Digits <- MCDigits
  Letters = {"g"}
  MaxLen = 5
  Currents <- MCCurrents
  Results <- MCResults
  Requests <- MCRequests
INVARIANTS
  UrlIsUnderstood
  NamesAreDecoded
  OctetsAreSound
  AnswerIsWhatWasAsked
  LoadsExactlyJSON
  OnlyTheWholeLoads
  LoadedIsKept
CHECK_DEADLOCK FALSE
