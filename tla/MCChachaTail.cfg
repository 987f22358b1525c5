\* One tasklet, any multiple of 16 bytes.
SPECIFICATION Spec
CONSTANTS
  Tasklets = {0}
  Lengths <- AnyLength
  Strides = {1}
INVARIANT StaysInside
