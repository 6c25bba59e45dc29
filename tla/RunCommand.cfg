\* Two calls of session_start; a byte has four values, a word 256.
SPECIFICATION Spec
CONSTANTS
  Base = 4
  Room <- MCRoom
  String <- MCString
  Commands <- MCCommands
  MaxCalls = 2
INVARIANTS
  RunsWhatWasAsked
  DroppedForItsCount
  MemoryIsKept
