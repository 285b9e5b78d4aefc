SPECIFICATION MCSpec
CONSTANTS
  c1 = c1
  c2 = c2
  c3 = c3
  c4 = c4
  Calls = {c1, c2, c3, c4}
  f1 = f1
  f2 = f2
  Files = {f1, f2}
  FileOf <- MCFileOf
  Header = Header
  Torn = Torn
  Runes <- MCRunes
  Ids <- MCIds
  Digits <- MCDigits
  Letters <- MCLetters
  Dash = "-"
  NoRune = ""
  LowerOf <- MCLowerOf
  Spaces <- MCSpaces
  Session <- MCSession
  Unknown <- MCUnknown
  MaxLen = 3
  MaxSessions = 2
INVARIANTS
  UntitledHasCause
  FileNamesSafe
  ChatsKeepApart
  SharedIffAlike
PROPERTIES
  TitledOnce
  ImplementsLog
