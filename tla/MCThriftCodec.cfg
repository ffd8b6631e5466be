CONSTANTS
  Seqs = {0, 1}
  Methods <- MCMethods
  None = None
  MaxCalls = 4
  SeqReuse = FALSE
SPECIFICATION Spec
INVARIANTS RepliesMatchCalls
