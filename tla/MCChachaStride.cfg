\* Two tasklets with a stride of two.
SPECIFICATION Spec
CONSTANTS
  Tasklets = {0, 1}
  Lengths = {8}
  Strides = {2}
INVARIANT SealedTogether
