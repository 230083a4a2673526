---------------------------- MODULE GlContextNsgl ----------------------------
(***************************************************************************)
(* GlContext on macOS (gpu/gl_context_nsgl.cc): Create and the fallback    *)
(* chain of CreateContext, and the thread-local current-context binding.   *)
(* Each AppKit / CoreVideo call may succeed or fail, so its outcome is a   *)
(* nondeterministic choice.  A pixel format is named by where it came      *)
(* from; a context by the format and share context it was made with; the  *)
(* texture cache by the context and format it was made from.               *)
(***************************************************************************)
CONSTANTS
  Threads,   \* threads that bind contexts
  Contexts   \* the GlContext objects that can be created

VARIABLES
  share,         \* share[g]: the GlContext g was created sharing, or "nil"
  pixelFormat,   \* pixel_format_: "nil", "accel", "no_accel", "queried"
  context,       \* context_: NoContext or [fmt, share]
  textureCache,  \* texture_cache_: NoCache or [ctx, fmt]
  status,        \* status[g]: "none" before Create, then its status
  current,       \* current[t]: the GlContext current on thread t, or "nil"
  faults         \* calls made outside their preconditions

vars == <<share, pixelFormat, context, textureCache, status, current, faults>>

\* A nil context_ and a nil texture_cache_.
NoContext == [fmt |-> "nil", share |-> "nil"]
NoCache == [ctx |-> NoContext, fmt |-> "nil"]

\* initWithFormat:shareContext: on success.
NewContext(fmt, s) == [fmt |-> fmt, share |-> s]

\* The format the fallback queries from the share context: [nil
\* CGLContextObj] is NULL, and CGLGetPixelFormat(NULL) returns no format.
QueriedFormat(s) == IF s = "nil" THEN "nil" ELSE "queried"

(***************************************************************************)
(* CreateContext.  Pixel format with acceleration, else without; none is   *)
(* an InternalError.  A context with it; if none, the share context's      *)
(* pixel format is queried and a context made with that.  RET_CHECK the    *)
(* context, then CVOpenGLTextureCacheCreate from context_ and              *)
(* pixel_format_, RET_CHECK_EQ success.  FinishInitialization, in          *)
(* gl_context.cc outside this repository, is taken to succeed.             *)
(***************************************************************************)
\* The fallback: a context with the queried format and the share context.
FallbackContext(fmt, s, ok) ==
  IF ok /\ fmt # "nil" THEN NewContext(fmt, s) ELSE NoContext

(* Create(nullptr) gives a nil share context, Create(const GlContext&)    *)
(* the context_ of a GlContext that Create returned.                       *)
CreateContext(g) ==
  /\ status[g] = "none"
  /\ \E sh \in {"nil"} \cup {h \in Contexts : status[h] = "ok"},
       accelOk, noAccelOk, ctxOk, fallbackOk, cacheOk \in BOOLEAN :
       LET pf1 == IF accelOk THEN "accel" ELSE IF noAccelOk THEN "no_accel" ELSE "nil"
           ctx1 == IF ctxOk THEN NewContext(pf1, sh) ELSE NoContext
           pf2 == IF ctx1 # NoContext THEN pf1 ELSE QueriedFormat(sh)
           ctx2 == IF ctx1 # NoContext THEN ctx1
                   ELSE FallbackContext(pf2, sh, fallbackOk)
           st == CASE pf1 = "nil" -> "no_pixel_format"
                   [] ctx2 = NoContext -> "no_context"
                   [] ~cacheOk -> "no_texture_cache"
                   [] OTHER -> "ok"
       IN /\ share' = [share EXCEPT ![g] = sh]
          /\ status' = [status EXCEPT ![g] = st]
          /\ pixelFormat' = [pixelFormat EXCEPT ![g] = IF pf1 = "nil" THEN "nil" ELSE pf2]
          /\ context' = [context EXCEPT ![g] = IF pf1 = "nil" THEN NoContext ELSE ctx2]
          /\ textureCache' = [textureCache EXCEPT ![g] =
                                IF st = "ok" THEN [ctx |-> ctx2, fmt |-> pf2] ELSE NoCache]
          /\ faults' = faults \cup (IF pf1 # "nil" /\ ctx1 = NoContext /\ sh = "nil"
                                      THEN {"cgl_null_context"} ELSE {})
  /\ UNCHANGED current

\* HasContext: context_ != nil.
HasContext(g) == context[g] # NoContext

(***************************************************************************)
(* SetCurrentContextBinding on thread t with ThisContextBinding() (makes   *)
(* context_ current) or an empty binding (clearCurrentContext).  Only a    *)
(* context that Create returned is bound.                                  *)
(***************************************************************************)
SetCurrentContextBinding(t) ==
  /\ \E b \in {"nil"} \cup {g \in Contexts : status[g] = "ok"} :
       current' = [current EXCEPT ![t] = b]
  /\ UNCHANGED <<share, pixelFormat, context, textureCache, status, faults>>

\* IsCurrent of GlContext g, asked on thread t.
IsCurrent(g, t) == HasContext(g) /\ current[t] = g

Init ==
  /\ share = [g \in Contexts |-> "nil"]
  /\ pixelFormat = [g \in Contexts |-> "nil"]
  /\ context = [g \in Contexts |-> NoContext]
  /\ textureCache = [g \in Contexts |-> NoCache]
  /\ status = [g \in Contexts |-> "none"]
  /\ current = [t \in Threads |-> "nil"]
  /\ faults = {}

Next == (\E g \in Contexts : CreateContext(g)) \/ \E t \in Threads : SetCurrentContextBinding(t)

Spec == Init /\ [][Next]_vars

====
