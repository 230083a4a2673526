\* Android build, a node reading TENSORS_GPU whose only output is MASK.
CONSTANTS
  ANDROID = TRUE
  InTags = {"TENSORS_GPU"}
  OutTags = {"MASK", "MASK_GPU"}
  MaxInputs = 1
SPECIFICATION Spec
INVARIANT NoAbortAfterValidContract
CHECK_DEADLOCK FALSE
