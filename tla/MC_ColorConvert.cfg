\* Every node configuration over the six tags; bytes 0 and 255; frames of
\* 2x1 and 1x2 pixels; two input frames per node.
CONSTANTS
  InTags = {"RGBA_IN", "RGB_IN", "GRAY_IN"}
  OutTags = {"RGBA_OUT", "RGB_OUT", "GRAY_OUT"}
  Values = {0, 255}
  Shapes <- MC_Shapes
  MaxInputs = 2
SPECIFICATION Spec
INVARIANT OutputMatchesReference
\* A node stops when it is rejected, fails, aborts or has had its inputs.
CHECK_DEADLOCK FALSE
