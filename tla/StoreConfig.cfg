CONSTANTS
  FileSets <- MCFileSets
  Profiles <- MCProfiles
  Paths <- MCPaths
  Values <- MCValues
  Leaves <- MCLeaves
  SchemaText <- MCSchemaText
  Texts <- MCTexts
  ScriptNames <- MCScriptNames
  MaxSize = 3
  MaxTotal = 5
  Liberties = {}
SPECIFICATION Spec
INVARIANTS SavedIsRead Precedence MergeKeepsValid LuaKeeps 
