SPECIFICATION StoreSpec
CONSTANTS
  GlobMatches <- MCGlobMatches
  Documents <- MCDocuments
  Definitions <- MCDefinitions
  Offers <- MCOffers
  Inputs <- MCInputs
  StartOffer <- MCStartOffer
  StartRegistry = "both"
  Request = {r1}
  MaxReloads = 3
  MaxSwaps = 1
INVARIANTS AnswerOfOneOffer ReferencesResolve RestrictionsSurvive
CHECK_DEADLOCK FALSE
