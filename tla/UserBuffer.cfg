CONSTANTS
  Proc = {1, 2}
  Frame = {1, 2, 3, 4, 5}
  PAGE_SIZE = 4
  VA_SIZE = 20
  I32_SIZE = 2
  PageTable <- MC_PageTable
  Text <- MC_Text
  MaxCalls = 2
SPECIFICATION Spec
INVARIANTS SlicesAreTheBuffer PanicsOnlyOnSplitCharacter NameIsTheString
PROPERTIES AnswerLandsInTheCaller TranslationEnds
