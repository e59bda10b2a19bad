CONSTANTS
  Line = {x, y}
  MaxLines = 5
  Texts <- MCTexts
  Context = 1
SPECIFICATION Spec
INVARIANTS TypeOK ScriptSpellsBoth ScriptIsShortest HunksShowChanges HunksPatch
CHECK_DEADLOCK FALSE
