# TLA+ models of the MediaPipe sources in `src/`

This directory holds TLA+ models of the MediaPipe code in `src/mediapipe`, the
TLC configurations that check them, and `PROJECT.json`. `PROJECT.json` maps
every definition to the source lines it models, and it lists the runs, the
mutants, the findings and the hazards.

## The system and its parts

| Part | Source | State and operations | Model |
|---|---|---|---|
| JNI graph wrapper | `java/.../jni/graph.cc`, `graph_jni.cc` | `graph_` (config), `graph_loaded_`, `callback_handlers_`, `graph_input_stream_add_mode_`, `gpu_resources_`, `running_graph_`; load, add callback, set add mode, set GL context, add surface output, start, run-until-close, add/close input, cancel, wait, release | `JniGraph` |
| Packet handle registry | `graph.cc` 141-172, 272-318 | `all_packets_` keyed by the address of each `PacketWithContext`; wrap, get, move, remove, `~Graph` | `PacketRegistry`, refining `PacketStore` |
| CalculatorGraph runtime | not in `src/` (spec.md 4.5-4.8) | graph lifecycle, bounded input queues, node life cycle, callbacks | inside `JniGraph` and `TfLiteTensorsToSegmentation` (spec-modelled); its promised life cycle is `GraphLifecycle`, which `JniGraph` refines |
| TfLiteTensorsToSegmentationCalculator | `calculators/tflite/...segmentation_calculator.cc` | `use_gpu_`, GL programs and buffer, `upsample_program_`; GetContract, Open, Process, Close | `TfLiteTensorsToSegmentation` |
| ColorConvertCalculator | `calculators/image/color_convert_calculator.cc` | stateless; GetContract, Process dispatch, ConvertAndOutput, SetColorChannel | `ColorConvert` |
| CalculatorContract | `framework/calculator_contract.h` | input stream handler and its options, service requests (`UseService`, `Optional`); packet type sets | `CalculatorContract` (without the type sets) |
| LegacyCalculatorSupport | `framework/legacy_calculator_support.cc` | the `current_` slots of `Scoped<CalculatorContext>` and `Scoped<CalculatorContract>`, `thread_local` or global | `CalculatorContract` |
| GlContext (NSGL) | `gpu/gl_context_nsgl.cc` | fallback chain when creating a pixel format, a context and a texture cache; thread-local binding | `GlContextNsgl` |
| Profiler resource util (Apple) | `framework/profiler/...apple.cc` | returns a directory path (pure I/O) | not modelled |

How the parts interact:

- Java threads call the wrapper's native methods.
- The wrapper owns at most one running `CalculatorGraph`.
- The framework resolves each node's contract inside a `Scoped<CalculatorContract>`. It runs `Open`, `Process` and `Close` inside a `Scoped<CalculatorContext>`. A legacy calculator finds its contract or context through that scope's `current_` slot, not through an argument.
- The graph's scheduler threads run calculators such as the two above. Through the callback calculators, they call back into the wrapper (`CallbackToJava`), and from there into Java.

Which behaviours are hard:

- The wrapper has no lock around `running_graph_`. Several calls test it and then dereference it.
- Some calls block: `WaitUntilDone`, `WaitUntilIdle`, and adds in `WAIT_TILL_NOT_FULL` mode.
- Graph threads deliver callbacks while Java threads release the wrapper.
- The calculators run a chain of fallible GL steps in `Open`. Every failure must keep `Process` and `Close` away from objects that were never made.

## Modules

### `JniGraph` (and `MC_JniGraph`)

**Constants.**
- `Threads`: the Java threads.
- `InputStreams` and `OutputStreams`.
- `GraphIds`: the `CalculatorGraph` objects that can be allocated.
- `MaxCalls`: a bound on the number of native calls.
- `MaxQueue`: the input queue limit.
- `NULL`.

**Variables.**

| Variable | Models |
|---|---|
| `graphLoaded` | `graph_loaded_` |
| `config` | the parsed `graph_`, abstracted to: valid or not, which inputs and sources it has, and which callback calculators it contains |
| `handlers` | `callback_handlers_` |
| `addMode` | the input stream add mode |
| `gpuResources` | whether `gpu_resources_` is set (`SetParentGlContext`) |
| `runningGraph` | `running_graph_` |
| `wrapperAlive` | the wrapper object has not been deleted |
| `cg` | each graph's state: constructed / running / done / destroyed, its queues, whether it is busy, cancelled or failed, and the sinks its callbacks were wired to |
| `pc`, `arg`, `ptr` | each Java thread's program counter, the argument of its call, and the graph pointer it read |
| `calls` | the number of native calls made |
| `faults` | history: undefined behaviour that occurred (see below) |

**Actions.** Each native method is one action, or two where it blocks or where another thread can act between its check of `running_graph_` and its use. The actions include:
- `LoadBinaryGraph`
- `AddCallbackHandler`
- `SetGraphInputStreamAddMode`, `SetParentGlContext` and `AddSurfaceOutput`
- `StartRunningGraph`, then one step per call of it that can fail after the reset: `StartSetGpuResources`, `StartInitialize`, `StartRun`. Each failure resets `running_graph_` and returns (`StartFails`). The `SetServicePacket` loop between them runs over `service_packets_`, which no native method fills, so its exit is not reachable and has no step.
- `RunGraphUntilClose`. Its local `CalculatorGraph(graph_)` constructor CHECKs `Initialize`, so an invalid `graph_` aborts the process: the model records `"abort"` in `faults` and stops (`Next` requires no abort).
- `ReadOnlyCall`: `nativeGetCalculatorGraphConfig`, which writes nothing of the wrapper.
- `CheckRunning`, then `AddPacketToInputStream`, `CloseStreams`, `WaitUntilDone`, `WaitUntilIdle` or `GetProfilingContext`
- `CancelGraph`
- `ReleaseGraph` (`~Graph`)

The graph is modelled from spec.md, because its code is not in `src/`. It runs `ProcessBegin`/`ProcessEnd` (a callback into the wrapper), `SourceEmit`, `SourcesDone`, `CalculatorFails` and `GraphDone`.

**Undefined behaviour.** Dereferencing a null or freed graph, or a callback into a deleted wrapper, is recorded in `faults` rather than given a meaning. So is a write of a member that `StartRunningGraph` reads while another thread is inside it (graph.cc:355-391): a data race. The writers are `LoadBinaryGraph`, `AddCallbackHandler`, `AddSurfaceOutput` (`graph_`), `SetGraphInputStreamAddMode` (the add mode), `SetParentGlContext` (`gpu_resources_`), and the copy of a start call's side packets and headers into `side_packets_` and `stream_headers_` (`CopyStartInputs`), which `nativeStartRunningGraph` and `nativeRunGraphUntilClose` do before the start is tried. The values in those maps are not modelled, only their writes.

**Allocation.** `new CalculatorGraph()` takes a fixed unused id (`NewGraphId`). Ids are interchangeable and never reused, so which one is taken does not change any behaviour. Fixing it removes symmetric copies of each state without a `SYMMETRY` declaration, which the refinement property would not tolerate.

**Refinement.** `AbsGraphs` maps each graph's state to `GraphLifecycle`'s record. `pending` is true while a running graph has queued packets, open inputs or a source still emitting; `inflight` is `busy`. `ImplementsGraphLifecycle` checks `Lifecycle!Spec` as a property of `jni_serial`. The wrapper's actions, and the modelled graph, then drive every graph through spec.md's life cycle.

### `GraphLifecycle`

This is the abstract specification of what a `CalculatorGraph` promises, written from spec.md 4.6, 4.7, 5 and 7. The graph's code is not in `src/`. Each graph is `unused`, `constructed`, `running`, `done` or `destroyed`. While running, it also records whether it was cancelled or failed, whether an invocation is in flight, and whether work is pending.
- `Construct` and `Start` bring a graph to `running`. A synchronous run starts without a separate construction.
- `Work` stands for inputs arriving or closing.
- `Dispatch` starts an invocation, but only when work is pending and the graph is neither cancelled nor failed. `Complete` ends the invocation.
- `Cancel` and `Fail` mark the graph.
- `Finish` reaches `done` only with nothing in flight, and only once the graph is cancelled, failed or out of work.
- `Delete` destroys a graph that is not running.

### `JniGlobalRefs` (and `MC_JniGlobalRefs`)

This module covers the JNI global references of the wrapper:
- one per packet callback (`nativeAddPacketCallback`), owned by its `CallbackHandler`;
- `global_java_packet_cls_`, set by `SetPacketJavaClass` at the start of both run calls.

**Variables.** `loaded`, `handlers` (the references owned by handlers), `live` (created and not deleted), `cls`, `running` (which runs are on: `running_graph_` or a synchronous run), `alive`, and per thread `pc` and `mode`.

**Actions.**
- `LoadBinaryGraph` and `AddPacketCallback`. `NewGlobalRef` is called, and `AddCallbackHandler` then refuses an unloaded graph.
- `RunGraph`, up to `SetPacketJavaClass`'s nullptr test, and `SetPacketJavaClass`, its store followed by the run. The test and the store are separate steps because nothing locks between them.
- `CallbackToJava`, `GraphDone`, and `ReleaseGraph` (`~Graph`).

### `PacketRegistry` (and `MC_PacketRegistry`), `PacketStore`

A Java `Packet` holds a handle: the address of a heap `PacketWithContext`, owned by the wrapper's `all_packets_` map.

**Constants.** `Addrs` (addresses `new` can return, so a freed one is handed out again), `JavaThreads`, `CallbackThreads` (graph threads inside `CallbackToJava`), `SyncCallbacks` (those of them that belong to a `RunGraphUntilClose` graph, which `~Graph` does not wait for), `MaxOps`, and `StaleReleases` (whether the Java side may release a handle it no longer owns).

**Variables.** `allPackets` (the map's keys, i.e. the live objects), `content` (packet, moved-from, or freed), `graphAlive`, `held` and `stale` (the handles each Java thread holds, or holds after they stopped being its own), `jpc`/`jarg` (a Java thread between the two steps of `RemovePacket`), `chandles` (the handles of the callback each graph thread delivers), `ops`, `faults`.

**Actions.**
- `WrapPacketIntoContext` is shared by `JavaWrap` (`AddSurfaceOutput`, packet creation) and `CallbackWrap` (`CallbackToJava` wraps the packet, and the header for a header callback).
- `GetPacketFromHandle` (the copy of `nativeAddPacketToInputStream`) and `SetTimestampAndMovePacketToInputStream` (the packet is moved out if the graph takes it) read through a handle.
- `RemovePacketGetContext` and `RemovePacketErase` are the two steps of `RemovePacket`: the context is read through the handle before the lock is taken; then the lock is taken and the key erased.
- `CallbackRemove` is the `RemovePacket` of each callback handle after the Java callback returns. The code makes two calls for a header callback; the model makes them one step. A stale Java release that falls between them reads freed memory exactly as one before or after both does, so no verdict depends on that window.
- `GraphDestroy` is `~Graph`: it cancels and waits for `running_graph_`, so none of its callbacks is in flight, and then destroys the map. It waits neither for the callbacks of a `RunGraphUntilClose` graph (`SyncCallbacks`) nor for the Java side to release its handles. A `RemovePacket` after it is recorded as `"remove_after_teardown"`.

**Java side.** The Java code is not in this repository. Whether it may release a handle it no longer owns is `StaleReleases`.

**`PacketStore`.** The atomic store: `Create`, `Move`, `Release` by the holder, and `Teardown`, which frees every handle at once (the store's view of `~Graph`).

**Refinement.** `PacketStore` is the atomic promise: each handle has one holder, and only the holder moves or releases it. `PacketRegistry` maps each live address to the thread holding it; the thread between the two steps of `RemovePacket` still counts as holding. The mapping is `Abs == INSTANCE PacketStore WITH ...`, and `Abs!Spec` is checked as a property.

### `GlContextNsgl` (no run)

**Constants.** `Contexts` (the `GlContext` objects) and `Threads`.

**Variables.**
- `share`, `pixelFormat`, `context`, `textureCache` and `status` per `GlContext`. A pixel format is named by its origin: accelerated, unaccelerated, or queried from the share context. A context is named by the format and share context it was made with. A texture cache is named by the context and format it was made from.
- `current`: the context bound on each thread.

**Actions.**
- `CreateContext(g)` is `Create` with `CreateContext`. The share context is nil or a `GlContext` that was created; these are the two overloads. Each AppKit or CoreVideo call succeeds or fails nondeterministically, and the fallback chain and `RET_CHECK`s follow the code.
- `SetCurrentContextBinding(t)` binds a created context on thread `t`, or clears the binding.

**Assumptions.** `FinishInitialization` is in `gl_context.cc`, which is outside this repository, and is taken to succeed. The fallback's call `CGLGetPixelFormat(NULL)` is recorded in `faults` and taken to yield no format.

**Why no run.** `CreateContext` is one sequential function. The consistency of the texture cache with the surviving context follows from its own assignments, so a property of it restates the code. What CGL does with a NULL context is Apple's. The module documents the fallback chain; no run checks it.

### `CalculatorContract` (no run)

This module covers two parts together, because legacy calculators reach their contract only through the slot:
- `CalculatorContract`'s mutable state, as far as a calculator changes it.
- `LegacyCalculatorSupport`'s `current_` slots.

**State.**
- `current` holds the slots, keyed by kind and by thread, or by `"global"` in the `EMSCRIPTEN_WORKAROUND_FOR_B121216479` build. All start at `NULL`, as legacy_calculator_support.cc:29-34 defines them.
- `scopes[t]` is the stack of `Scoped` objects alive on thread `t`. Each entry records the pointer it saved.
- `contract[n]` is node `n`'s input stream handler, its options, and a request per service (`"absent"`, `"required"`, `"optional"`).
- `build` is chosen in `Init`. The emscripten build runs on one thread (`Runs`).

**Actions.**
- Contract resolution begins with `BeginGetContract` (`Initialize`, then the `Scoped<CalculatorContract>` constructor) and ends with `EndGetContract`. A node's `Open`, `Process` or `Close` runs between `BeginCalculatorContext` and `EndCalculatorContext`. Both scope kinds nest, as when a calculator runs an inner graph on its own thread. The `Scoped` class is in legacy_calculator_support.h, outside `src/`, and is modelled from spec.md 9 as save-and-set, then restore.
- A legacy calculator's `SetInputStreamHandler`, `SetInputStreamHandlerOptions` and `UseService` (optionally followed by `Optional()`) go through `ThroughSlot`. It reads the contract slot, so a write goes wherever the slot points.
- `UseService` is an `emplace`, so a request that is already there is kept and returned.

**Why no run.** The slot's save-and-restore is the `Scoped` class in legacy_calculator_support.h, outside `src/`, so a property of the slots checks only the model of that header. The contract's setters are sequential code on one thread. The properties once stated of both restated the model; the module documents the operations and no run checks it.

### `TfLiteTensorsToSegmentation` (and `MC_TfLiteTensorsToSegmentation`)

**Constants.**
- `ANDROID`: the build flag.
- `InTags`, `OutTags`: the tags a node may name.
- `MaxInputs`: the number of input sets.

**Variables.**
- The node's configuration: tags, and whether the dimension and channel options are present.
- The node's state in the framework's life cycle (spec.md 4.5).
- `use_gpu_` and whether the GL helper is open.
- The three GL objects, each null, failed or live.
- `upsample_program_`, which is garbage, zero or live. It has no initializer.
- `faults`.

**Actions.** `GetContract`, `Open`, `Process` and `Close`.
- `Open` chooses the failure point of `gpu_helper_.Open` and of the six steps of `InitGpu`.
- `Process` chooses what the inputs hold: an empty tensor input, one or two tensors, a previous mask or none, and a reference image or none. `ProcessGpu` Gets `REFERENCE_IMAGE_GPU` without testing it, so an empty one aborts (`"empty_get"`), before the tensor count check.
- `ts < MaxInputs` in `Process` is the model's bound on the input sets, not a guard of the code.

**Framework rule.** The framework calls `Close` only for a node whose `Open` succeeded (spec.md 4.5 and 7).

**Assumption about `gpu_helper_`.** `RunInGlContext` runs its lambda and returns the lambda's status; a `gpu_helper_` that was never opened runs nothing. The helper's code is not in `src/`, so whether it can skip the lambda is not modelled.

### `ColorConvert` (and `MC_ColorConvert`)

**Frames.** A frame is held as `cv::Mat` holds it: rows of interleaved channel bytes.

**Conversion.** `cv::cvtColor` (OpenCV) is modelled per pixel:
- RGBA→RGB drops alpha.
- GRAY→RGB repeats the gray value.
- RGB→GRAY uses OpenCV's fixed-point luma.
- RGB→RGBA writes an alpha that is outside this repository: the comment in `ConvertAndOutput` says 0, OpenCV documents the maximum. The model takes either (`CvtAlphas`), so the output is right only if `SetColorChannel(3, 255)` writes every alpha.

`SetColorChannel`'s stride loop is the `RECURSIVE` operator `SetFrom`. A write at an offset past the row extends the row, so the result is no longer a frame of its shape and the check fails.

**Checks.** `Process`'s dispatch and `ConvertAndOutput` are checked against `RefPixel`. `RefPixel` is a reference that works on pixels, not on flat rows. It takes the output format from the documented format of the output tag.

## Runs

| Run | Expect | What it shows |
|---|---|---|
| `jni_serial` | pass | With one Java thread, every sequence of calls is safe, whatever the graph does: fail, fill its queue, finish or be cancelled. No use of a null or freed graph or wrapper (`NoUndefinedBehaviour`; the abort of `RunGraphUntilClose` on an invalid graph is allowed and ends the behaviour). A start that fails at `SetGpuResources`, `Initialize` or `StartRun` never leaves its graph installed once the call returned (`NoWedgedRunningGraph`). Every graph follows spec.md's life cycle (`ImplementsGraphLifecycle`): it is deleted only before it runs or once it is done, is done only with nothing in flight, and gets nothing dispatched after a cancel or a calculator error. |
| `jni_race` | violation | Two Java threads. Thread 1 starts a graph; thread 2 passes the `running_graph_` test of an add; thread 1's `SetGpuResources` fails and resets `running_graph_`; thread 2's add dereferences null (`NoNullOrFreedGraphUse`). |
| `jni_config_race` | violation | Two Java threads. One is inside `StartRunningGraph`, reading the configuration; the other writes it with `LoadBinaryGraph`, `AddCallbackHandler`, the add mode, the GL context, or the side-packet copy of its own start (`NoConfigRace`). |
| `jni_reload` | violation | Load, add a callback, load again, run. The second parse cleared the callback calculator while the handler stayed registered (`CallbacksWiredAtStart`). |
| `segmentation_android` | pass | No failure point of `Open` lets `Process` or `Close` use an unmade GL object, or read the uninitialized `upsample_program_` (`NoUninitializedGlUse`). |
| `segmentation_missing_tag` | violation | A node `TENSORS_GPU` → `MASK` passes `GetContract` and `Open`. `ProcessGpu` then looks up `MASK_GPU`, which the node does not have, and aborts (`NoAbortAfterValidContract`). |
| `color_convert` | pass | For every tag pair the contract accepts, every two-pixel frame of bytes 0 and 255, and either alpha `cvtColor` may write, the output equals the documented conversion (`OutputMatchesReference`). |
| `packet_registry` | pass | Two Java threads and two callback threads, with three reusable addresses, wrap, copy, move and release packets, each handle released once, and `~Graph` may run. Every step is a step of the atomic `PacketStore` (`ImplementsPacketStore`). |
| `packet_registry_stale_release` | violation | A Java thread releases a handle a second time: `RemovePacket` reads the freed object at graph.cc:169, before `erase` could return false (`RemoveReportsUnregistered`). |
| `packet_registry_teardown` | violation | A Java thread wraps a packet, then the graph is released: its handle names freed memory, against spec.md 4.1 (`PacketsOutliveHolders`). |
| `jni_refs` | pass | Two Java threads load, add callbacks, start or run graphs, and release the wrapper, in any order. Every callback finds the class reference and its callback reference live (`JavaRefsValidInCallbacks`). |
| `jni_refs_class_race` | violation | Two threads both pass `SetPacketJavaClass`'s nullptr test; the first class reference is overwritten and leaks (`AllGlobalRefsReleased`). |

Every property of a passing run has a mutant in `PROJECT.json` that breaks it, such as a dropped guard, a swallowed error or an off-by-one. `GlContextNsgl` and `CalculatorContract` have no run (see their sections).

## Bounds

**`jni_serial`.** One thread, one input and one output stream, two graph ids, six native calls, queue limit 1 (836,656 distinct states, under a minute).
- This is enough to fill a queue, block an add, and start a second graph after the first.
- It covers every failure point of a start, failing, cancelling and finishing in every order, and releasing the wrapper with a graph alive.
- The race runs use two threads and fewer calls. Their traces are 3 to 6 steps long.

**JNI references.** Two threads and four references. This is enough for two class stores and a callback in one run. The leak run has two threads and no callbacks, so the only leak it can show is the race.

**Registry.** Three addresses, so that two are live while a freed one is reused. Two Java threads and two callback threads, with a header callback taking two addresses, and eight operations. This covers a release split around another thread's wrap and erase, two callbacks at once, and `~Graph` after all of it. The teardown run makes one callback thread a `RunGraphUntilClose` one.

**Segmentation.** Every node configuration over {TENSORS, TENSORS_GPU, PREV_MASK_GPU, REFERENCE_IMAGE_GPU} × {MASK, MASK_GPU} × options, all failure points, and two input sets, so that `Close` follows both a good and a failed `Process`.

**Color.** All 64 tag configurations. Frames are 2×1 and 1×2, so swapping width and height shows. Byte values 0 and 255 separate alpha from colour and give distinct luma values.

## Fairness

No run checks a liveness property, and no specification has a fairness conjunct. What would oblige a `CalculatorGraph` to make progress (its scheduler, executors and the default input stream handler) is outside this repository, and a Java application is under no obligation to call anything. Weak fairness on the modelled graph's steps would assert what the model is meant to check, so "a cancelled graph finishes" and "`WaitUntilDone` returns" are listed as hazards with no property rather than checked under an assumption the code does not give.

## Findings

1. **No lock in the native layer.** Concurrent native calls on one wrapper can use a null or freed `running_graph_` (graph.cc:415-419, 459-460, 362-397). A configuration call can write `graph_`, the add mode, `gpu_resources_` or the side-packet maps while another thread's `StartRunningGraph` reads them (graph.cc:184, 252, 492 against 355-390). Safety depends on the Java side serializing calls.
2. **`CancelGraph` does not reach a synchronous run.** It is a no-op during `RunGraphUntilClose` (graph.cc:329-342, 511-515). It is a hazard with no run; see Fairness.
3. **Reloading drops callbacks.** `LoadBinaryGraph` clears the callback calculators that registered handlers rely on (graph.cc:252).
4. **The contract does not require `MASK_GPU`.** `GetContract` lets a GPU segmentation node omit `MASK_GPU`, which `ProcessGpu` writes unconditionally (segmentation:327). `ProcessGpu` also Gets `REFERENCE_IMAGE_GPU` without an emptiness test (segmentation:266).
5. **`RemovePacket` cannot detect a released handle.** It returns `erase(...) != 0`, but it dereferences the handle first (graph.cc:169). So a second release, or the release of a `Packet` that a Java callback kept, reads freed memory. Once the address is reused, the release erases another holder's packet.
6. **`~Graph` frees packets Java still holds.** spec.md 4.1 says a packet is destroyed when its last consumer releases it; `~Graph` destroys every `PacketWithContext` regardless (graph.cc:121-135), and does not wait for a `RunGraphUntilClose` graph's callbacks.
7. **`SetPacketJavaClass` is an unlocked test-and-set.** Two concurrent run calls can both create the class reference, and one of them leaks (graph.cc:321).

## Not modelled, and why

Two hazards are in the model but no run asserts them:
- **A callback added before loading** (graph_jni.cc:168). `nativeAddPacketCallback` creates a global reference. `AddCallbackHandler` refuses it when no graph is loaded, and nothing deletes it. `AllGlobalRefsReleased` breaks on it when the run allows callbacks. The leak run excludes callbacks, so that its trace shows the race.
- **The NSGL fallback with a nil share context** (gl_context_nsgl.cc:84). It passes a NULL CGL context to `CGLGetPixelFormat`. `GlContextNsgl` records this in `faults`. What Apple's CGL does with NULL is outside this repository, so no run asserts it.
- **The abort of `RunGraphUntilClose` on an invalid `graph_`** (graph.cc:335). `JniGraph` records it and stops; the constructor is outside this repository, so no run states that it must not abort.

- **The values of side packets, stream headers and service packets.** `JniGraph` models their writes, which race with a start, and a start refused for mismatched arrays. It does not model what they hold, which only the graph outside this repository reads. `SetServicePacket` has no caller among the native methods here. `RunGraphUntilClose` reads the maps in the same step as it starts its local graph, so a write racing that read is not in the model. The profiler pointer `GetProfilingContext` returns is used by `graph_profiler_jni.cc`, outside the repository.
- **JNI local references and `JNIEnv` attachment.** `~Graph` returns early if it cannot attach to a Java thread. It is always called from one, through `nativeReleaseGraph`.
- **Shader sources, `GlRender` and the mask arithmetic.** These are numeric data with no control.
- **The contract's packet type sets and options** (`Inputs()`, `Outputs()`, side packets, `Options()`). `PacketTypeSet` and `tool::OptionsMap` live outside the repository. The segmentation and colour models take a contract's tags as given.
- **The emscripten build with several threads.** The workaround makes `current_` a global. The model runs that build on one thread, as that build does.
- **`RunInGlContext` skipping its lambda.** The segmentation model takes the lambda to run; the helper is outside this repository.
- **The Apple profiler path.** Pure I/O.

## Further work

The project uses twelve runs, the most it keeps. The hazards with no property above would each need a run of their own, with a second Java thread or a platform behaviour outside the repository.
1. A `CalculatorGraph` core module from spec.md: streams with timestamp bounds, the default input handler, and the node state machine, refining `GraphLifecycle`. Its code is not in `src/`, so it would be modelled from the spec alone.
2. A composition of `JniGraph` with the registry.
