CONSTANTS
  Depth = 3
  MaxSequence = 8
SPECIFICATION Spec
INVARIANT BitmapIsExact
INVARIANT PrefixIsMaximal
INVARIANT AckCoversReleased
PROPERTY Monotone
