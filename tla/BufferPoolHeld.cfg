SPECIFICATION Spec
CONSTANTS
  MAX_BUFFER_SIZE = 2
  Files = {f1, f2}
  PageNums = {0, 1}
  Contents = {Zero, A}
  Zero = Zero
INVARIANT
  HeldPagesStay
