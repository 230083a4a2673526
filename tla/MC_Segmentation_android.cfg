\* Android build; node configurations over the CPU and GPU tensor inputs,
\* the optional previous mask and reference image, and both mask outputs;
\* two input sets.
CONSTANTS
  ANDROID = TRUE
  InTags = {"TENSORS", "TENSORS_GPU", "PREV_MASK_GPU",
            "REFERENCE_IMAGE_GPU"}
  OutTags = {"MASK", "MASK_GPU"}
  MaxInputs = 2
SPECIFICATION Spec
INVARIANT NoUninitializedGlUse
\* A node's life cycle ends: rejected at load, failed to open, closed or
\* aborted.
CHECK_DEADLOCK FALSE
