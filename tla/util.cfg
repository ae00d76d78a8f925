SPECIFICATION Spec
CONSTANTS
  Width = 2
  Long = 32
  UInt64 = 256
  Tick = 2
  MaxBatch = 2
  NameChars = {"0", "1", "7", "+", "-", "x", ".", " "}
  Heads = {stream, queue}
  Nodes = {n1, n2, n3, n4}
  Poison = poison
INVARIANTS ReadsBack ChangeIsNoticed SkipsWhatIsRead NamesReadBack OneTextPerTopic NotLate EndlessWaits ListsAreSequences
CHECK_DEADLOCK FALSE
