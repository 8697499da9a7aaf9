\* The examples of the comment, among the sizes around every boundary.
CONSTANTS
  PageSizes = {4096}
  LargeSizes = {1052672}
  SmallSizes = {10, 50, 100, 500}
SPECIFICATION Spec
INVARIANT ExamplesHold
