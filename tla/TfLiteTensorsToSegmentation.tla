--------------------- MODULE TfLiteTensorsToSegmentation ---------------------
(***************************************************************************)
(* TfLiteTensorsToSegmentationCalculator                                   *)
(* (calculators/tflite/tflite_tensors_to_segmentation_calculator.cc)       *)
(* driven through the node life cycle of the framework (spec.md 4.4-4.5,   *)
(* 7): GetContract when the graph is loaded, Open once, Process once per   *)
(* input set, and Close once for a node whose Open succeeded, also after a *)
(* failing Process.  The GL objects the calculator owns are abstracted to  *)
(* their state: "null" (the unique_ptr is empty), "failed" (allocated but  *)
(* its creation returned an error) or "live".  upsample_program_ is a      *)
(* GLuint member without an initializer, so before InitGpu assigns it it   *)
(* holds "garbage".  Reading it then, or dispatching a program or buffer   *)
(* that is not live, is recorded in faults, as is the abort of a lookup of *)
(* an output tag the node does not have.                                   *)
(***************************************************************************)
EXTENDS Naturals, FiniteSets

CONSTANTS
  ANDROID,    \* the build defines __ANDROID__
  InTags,     \* input stream tags a node configuration may name
  OutTags,    \* output stream tags a node configuration may name
  MaxInputs   \* number of input sets the node is given

ASSUME ANDROID \in BOOLEAN /\ MaxInputs \in Nat

CpuTags == {"TENSORS", "PREV_MASK", "REFERENCE_IMAGE", "MASK"}
GpuTags == {"TENSORS_GPU", "PREV_MASK_GPU", "REFERENCE_IMAGE_GPU", "MASK_GPU"}

\* A node of the graph configuration: its tags and the options it carries.
NodeConfigs == [in : SUBSET InTags, out : SUBSET OutTags,
                hasDims : BOOLEAN, channels : {1, 2}]

NodeStates == {"Unresolved", "Rejected", "NotOpened", "Opened",
               "OpenFailed", "ProcessFailed", "Closed", "Aborted"}

GlObjects == {"no_prev", "with_prev", "buffer"}
GlStates == {"null", "failed", "live"}

VARIABLES
  cfg,         \* the node's configuration
  node,        \* the node's state in the framework's life cycle
  useGpu,      \* use_gpu_
  helperOpen,  \* gpu_helper_.Open succeeded
  gl,          \* mask_program_no_prev_, mask_program_with_prev_, tensor_buffer_
  upsample,    \* upsample_program_: "garbage", "zero" or "live"
  ts,          \* number of input sets consumed
  faults       \* undefined behaviour or aborts observed

vars == <<cfg, node, useGpu, helperOpen, gl, upsample, ts, faults>>

(***************************************************************************)
(* GetContract: both tag lists must be non-empty, and it sets the packet   *)
(* type of every tag it knows; the GPU tags only in an Android build.  The *)
(* graph's validation rejects a node with a stream left untyped (spec.md   *)
(* 4.7, load).                                                              *)
(***************************************************************************)
TypedTags == CpuTags \cup (IF ANDROID THEN GpuTags ELSE {})

ContractOK(c) ==
  /\ c.in # {}
  /\ c.out # {}
  /\ c.in \cup c.out \subseteq TypedTags

GetContract ==
  /\ node = "Unresolved"
  /\ node' = IF ContractOK(cfg) THEN "NotOpened" ELSE "Rejected"
  /\ UNCHANGED <<cfg, useGpu, helperOpen, gl, upsample, ts, faults>>

(***************************************************************************)
(* InitGpu runs a chain of steps, each returning an error on failure:      *)
(*   1 compile the shader without previous mask,                           *)
(*   2 make mask_program_no_prev_ and create it,                           *)
(*   3 compile the shader with previous mask,                              *)
(*   4 make mask_program_with_prev_ and create it,                         *)
(*   5 make tensor_buffer_ and create its storage,                         *)
(*   6 GlhCreateProgram for upsample_program_, then RET_CHECK it.          *)
(* k is the step that fails, 0 when none does.  An object whose step       *)
(* failed has been allocated by make_unique but holds no GL object.        *)
(***************************************************************************)
InitGpuFailurePoints == 0..6

CreateStep == [no_prev |-> 2, with_prev |-> 4, buffer |-> 5]

GlAfterInitGpu(k) ==
  [o \in GlObjects |->
     IF k = 0 \/ k > CreateStep[o] THEN "live"
     ELSE IF k = CreateStep[o] THEN "failed"
     ELSE gl[o]]

UpsampleAfterInitGpu(k) ==
  CASE k = 0 -> "live"
    [] k = 6 -> "zero"
    [] OTHER -> upsample

(***************************************************************************)
(* LoadOptions: RET_CHECK_FAIL without the three tensor dimensions, then   *)
(* RET_CHECK_EQ(tensor_channels_, 2).                                      *)
(***************************************************************************)
LoadOptions(c) == c.hasDims /\ c.channels = 2

OpenIgnoringInitGpu ==
  /\ node = "NotOpened"
  /\ \E helperOK \in BOOLEAN, k \in InitGpuFailurePoints :
       LET gpu == "TENSORS_GPU" \in cfg.in
           helperStep == ~gpu \/ ~ANDROID \/ helperOK
           reachInitGpu == gpu /\ ANDROID /\ helperOK /\ LoadOptions(cfg)
           ok == helperStep /\ LoadOptions(cfg) /\ (~gpu \/ ANDROID)
       IN /\ useGpu' = gpu
          /\ helperOpen' = (gpu /\ ANDROID /\ helperOK)
          /\ gl' = IF reachInitGpu THEN GlAfterInitGpu(k) ELSE gl
          /\ upsample' = IF reachInitGpu THEN UpsampleAfterInitGpu(k)
                         ELSE upsample
          /\ node' = IF ok THEN "Opened" ELSE "OpenFailed"
  /\ UNCHANGED <<cfg, ts, faults>>

(***************************************************************************)
(* Open: use_gpu_ from the TENSORS_GPU tag, gpu_helper_.Open (Android),    *)
(* LoadOptions, then InitGpu in the GL context (Android) or RET_CHECK_FAIL *)
(* (other builds).  Each step's error is returned at once.                  *)
(***************************************************************************)
Open ==
  /\ node = "NotOpened"
  /\ \E helperOK \in BOOLEAN, k \in InitGpuFailurePoints :
       LET gpu == "TENSORS_GPU" \in cfg.in
           helperStep == ~gpu \/ ~ANDROID \/ helperOK
           reachInitGpu == gpu /\ ANDROID /\ helperOK /\ LoadOptions(cfg)
           ok == helperStep /\ LoadOptions(cfg) /\ (~gpu \/ (ANDROID /\ k = 0))
       IN /\ useGpu' = gpu
          /\ helperOpen' = (gpu /\ ANDROID /\ helperOK)
          /\ gl' = IF reachInitGpu THEN GlAfterInitGpu(k) ELSE gl
          /\ upsample' = IF reachInitGpu THEN UpsampleAfterInitGpu(k)
                         ELSE upsample
          /\ node' = IF ok THEN "Opened" ELSE "OpenFailed"
  /\ UNCHANGED <<cfg, ts, faults>>

(***************************************************************************)
(* Process: with use_gpu_ ProcessGpu runs in the GL context (Android; in   *)
(* other builds the block is compiled out and Process returns OK), without *)
(* it ProcessCpu returns Unimplemented.  ProcessGpu returns OK at once for *)
(* an empty TENSORS_GPU input, RET_CHECKs that one tensor arrived, copies  *)
(* it into tensor_buffer_, dispatches the mask program chosen by whether a *)
(* previous mask is present, draws with upsample_program_ and adds the     *)
(* mask to the MASK_GPU output.  The REFERENCE_IMAGE_GPU packet, when the  *)
(* node has the tag, is read with Get before the count check, and Get of   *)
(* an empty packet aborts (unlike PREV_MASK_GPU, it is not tested first).  *)
(* RunInGlContext is taken to run its lambda and return the lambda's       *)
(* status.                                                                 *)
(***************************************************************************)
NotLive(objs) == {o \in objs : gl[o] # "live"}

\* GlRender draws with upsample_program_; the vertex buffers and array it
\* uses are made and deleted inside it.
GlRenderUnready == upsample # "live"

ProcessGpu(tensorsPresent, count, prevPresent, refPresent) ==
  LET hasPrev == "PREV_MASK_GPU" \in cfg.in /\ prevPresent
      emptyRef == "REFERENCE_IMAGE_GPU" \in cfg.in /\ ~refPresent
      program == IF hasPrev THEN "with_prev" ELSE "no_prev"
      unready == NotLive({"buffer", program}) # {} \/ GlRenderUnready
      noTag == "MASK_GPU" \notin cfg.out
  IN CASE ~tensorsPresent ->
            UNCHANGED <<node, faults>>
       [] emptyRef ->
            /\ faults' = faults \cup {"empty_get"}
            /\ node' = "Aborted"
       [] count # 1 ->
            /\ node' = "ProcessFailed"
            /\ UNCHANGED faults
       [] OTHER ->
            /\ faults' = faults \cup (IF unready THEN {"unready_gl"} ELSE {})
                                \cup (IF noTag THEN {"missing_output_tag"} ELSE {})
            /\ node' = IF noTag THEN "Aborted" ELSE node

\* ProcessCpu: "CPU support is not implemented yet."
ProcessCpu ==
  /\ node' = "ProcessFailed"
  /\ UNCHANGED faults

\* ts < MaxInputs bounds the input sets the model feeds the node.
Process ==
  /\ node = "Opened"
  /\ ts < MaxInputs
  /\ ts' = ts + 1
  /\ IF useGpu
       THEN IF ANDROID
              THEN \E present, prev, ref \in BOOLEAN, count \in {1, 2} :
                     ProcessGpu(present, count, prev, ref)
              ELSE UNCHANGED <<node, faults>>
       ELSE ProcessCpu
  /\ UNCHANGED <<cfg, useGpu, helperOpen, gl, upsample>>

(***************************************************************************)
(* Close (Android): in the GL context, delete upsample_program_ if it is   *)
(* non-zero, zero it and reset the three GL objects; the status of         *)
(* RunInGlContext is discarded.  A helper that was never opened has no GL  *)
(* context and runs nothing.  In other builds Close does nothing.  The     *)
(* framework calls Close only for a node whose Open succeeded.             *)
(***************************************************************************)
Close ==
  /\ node \in {"Opened", "ProcessFailed"}
  /\ node' = "Closed"
  /\ IF ANDROID /\ helperOpen
       THEN /\ faults' = faults \cup
                 (IF upsample = "garbage" THEN {"uninit_read"} ELSE {})
            /\ upsample' = "zero"
            /\ gl' = [o \in GlObjects |-> "null"]
       ELSE UNCHANGED <<faults, upsample, gl>>
  /\ UNCHANGED <<cfg, useGpu, helperOpen, ts>>

Init ==
  /\ cfg \in NodeConfigs
  /\ node = "Unresolved"
  /\ useGpu = FALSE
  /\ helperOpen = FALSE
  /\ gl = [o \in GlObjects |-> "null"]
  /\ upsample = "garbage"
  /\ ts = 0
  /\ faults = {}

Next == GetContract \/ Open \/ Process \/ Close

Spec == Init /\ [][Next]_vars

-----------------------------------------------------------------------------

TypeOK ==
  /\ cfg \in NodeConfigs
  /\ node \in NodeStates
  /\ useGpu \in BOOLEAN
  /\ helperOpen \in BOOLEAN
  /\ gl \in [GlObjects -> GlStates]
  /\ upsample \in {"garbage", "zero", "live"}
  /\ ts \in 0..MaxInputs
  /\ faults \subseteq {"unready_gl", "uninit_read", "missing_output_tag",
                     "empty_get"}

(* Process never dispatches a mask program, copies into tensor_buffer_ or  *)
(* draws with upsample_program_ before InitGpu made them, and Close never  *)
(* reads the uninitialized upsample_program_: every failure of the InitGpu *)
(* chain must fail Open, so that the framework neither processes nor       *)
(* closes the node.                                                         *)
NoUninitializedGlUse == faults \cap {"unready_gl", "uninit_read"} = {}

(* A node whose contract the graph accepted does not abort the process in  *)
(* Process: errors of calculator code are returned as a status (spec.md 7).*)
(* ProcessGpu looks up the MASK_GPU output, which GetContract never        *)
(* requires, and Gets REFERENCE_IMAGE_GPU, which may be empty at a         *)
(* timestamp where TENSORS_GPU is not.                                     *)
NoAbortAfterValidContract == faults \cap {"missing_output_tag", "empty_get"} = {}

====
