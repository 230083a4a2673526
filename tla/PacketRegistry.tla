---------------------------- MODULE PacketRegistry ----------------------------
(***************************************************************************)
(* The packet handle registry of the JNI graph wrapper (graph.cc).  A      *)
(* handle is the address of a heap PacketWithContext, owned by the         *)
(* wrapper's all_packets_ map; the allocator may hand a freed address out  *)
(* again.  Java threads wrap packets (PacketCreator, AddSurfaceOutput),    *)
(* copy or move them into the graph and release them; graph threads wrap   *)
(* the packet (and header) of each callback, call Java, and remove them.   *)
(* RemovePacket reads the handle's context before it takes that context's  *)
(* lock, so it is two steps.  ~Graph destroys all_packets_.  A read of a   *)
(* freed PacketWithContext or Graph is recorded in faults.                 *)
(***************************************************************************)
EXTENDS Naturals, FiniteSets

CONSTANTS
  Addrs,           \* addresses a PacketWithContext can be allocated at
  JavaThreads,     \* Java threads calling the native methods
  CallbackThreads, \* graph threads running CallbackHandler callbacks
  SyncCallbacks,   \* callback threads of a RunGraphUntilClose graph
  MaxOps,          \* bound on the number of operations
  StaleReleases    \* the Java side may release a handle it no longer owns

ASSUME SyncCallbacks \subseteq CallbackThreads

VARIABLES
  allPackets,  \* the keys of all_packets_ (= the live PacketWithContext)
  content,     \* content[a]: "packet", "moved" (moved-from), "none" (freed)
  graphAlive,  \* the Graph (and its all_packets_mutex_) is not destroyed
  held,        \* held[t]: the handles Java thread t holds
  stale,       \* stale[t]: handles t no longer owns (StaleReleases only)
  jpc,         \* jpc[t]: "idle" or "removing" (between the two steps)
  jarg,        \* jarg[t]: the handle t is removing
  chandles,    \* chandles[c]: handles of the callback c is delivering
  ops,         \* operations started
  faults       \* undefined behaviour and wrong erasures that occurred

vars == <<allPackets, content, graphAlive, held, stale, jpc, jarg, chandles,
          ops, faults>>

Holders == JavaThreads \cup CallbackThreads

\* The handles p holds: for a Java thread, also the one it is removing.
HeldBy(p) ==
  IF p \in CallbackThreads THEN chandles[p]
  ELSE held[p] \cup (IF jpc[p] = "removing" THEN {jarg[p]} ELSE {})

\* Reading through handle a touches live memory.
Deref(a) == a \in allPackets

(***************************************************************************)
(* WrapPacketIntoContext, under all_packets_mutex_: new returns an address *)
(* no live object has, and all_packets_ takes ownership.                   *)
(***************************************************************************)
WrapPacketIntoContext(S) ==
  /\ S \cap allPackets = {}
  /\ allPackets' = allPackets \cup S
  /\ content' = [a \in Addrs |-> IF a \in S THEN "packet" ELSE content[a]]

\* all_packets_.erase of the addresses S, and the objects freed.
Erase(S) ==
  /\ allPackets' = allPackets \ S
  /\ content' = [a \in Addrs |-> IF a \in S THEN "none" ELSE content[a]]

\* A Java thread wraps a new packet and holds its handle.
JavaWrap(t) ==
  /\ graphAlive /\ jpc[t] = "idle" /\ ops < MaxOps
  /\ \E a \in Addrs : WrapPacketIntoContext({a})
                      /\ held' = [held EXCEPT ![t] = @ \cup {a}]
  /\ ops' = ops + 1
  /\ UNCHANGED <<graphAlive, stale, jpc, jarg, chandles, faults>>

\* nativeAddPacketToInputStream / nativeUpdatePacketReference:
\* GetPacketFromHandle copies the packet out through the handle.
GetPacketFromHandle(t) ==
  /\ jpc[t] = "idle" /\ ops < MaxOps
  /\ \E a \in held[t] :
       faults' = faults \cup (IF Deref(a) THEN {} ELSE {"get_freed"})
  /\ ops' = ops + 1
  /\ UNCHANGED <<allPackets, content, graphAlive, held, stale, jpc, jarg,
                 chandles>>

(***************************************************************************)
(* SetTimestampAndMovePacketToInputStream: the packet in the handle is     *)
(* re-stamped in place, then std::move'd into AddPacketToInputStream.  If  *)
(* running_graph_ is null the rvalue is not taken and the packet stays.    *)
(***************************************************************************)
SetTimestampAndMovePacketToInputStream(t) ==
  /\ jpc[t] = "idle" /\ ops < MaxOps
  /\ \E a \in held[t], taken \in BOOLEAN :
       IF Deref(a)
         THEN /\ content' = IF taken THEN [content EXCEPT ![a] = "moved"]
                                     ELSE content
              /\ UNCHANGED faults
         ELSE /\ faults' = faults \cup {"move_freed"}
              /\ UNCHANGED content
  /\ ops' = ops + 1
  /\ UNCHANGED <<allPackets, graphAlive, held, stale, jpc, jarg, chandles>>

(***************************************************************************)
(* RemovePacket (nativeReleasePacket), first step: the handle is cast and  *)
(* packet_with_context->GetContext() read, before any lock.               *)
(***************************************************************************)
RemovePacketGetContext(t) ==
  /\ jpc[t] = "idle" /\ ops < MaxOps
  /\ \E a \in held[t] \cup stale[t] :
       /\ jarg' = [jarg EXCEPT ![t] = a]
       /\ held' = [held EXCEPT ![t] = @ \ {a}]
       /\ stale' = [stale EXCEPT ![t] = IF StaleReleases THEN @ \cup {a} ELSE {}]
       /\ faults' = faults \cup (CASE Deref(a)   -> {}
                                   [] graphAlive -> {"remove_freed"}
                                   [] OTHER      -> {"remove_after_teardown"})
  /\ jpc' = [jpc EXCEPT ![t] = "removing"]
  /\ ops' = ops + 1
  /\ UNCHANGED <<allPackets, content, graphAlive, chandles>>

(***************************************************************************)
(* Second step: lock the context's all_packets_mutex_ and erase.  The     *)
(* erase frees whatever lives at the address now, which is another         *)
(* holder's packet if the address was freed and handed out again.          *)
(***************************************************************************)
RemovePacketErase(t) ==
  LET a == jarg[t] IN
  /\ jpc[t] = "removing"
  /\ Erase({a} \cap allPackets)
  /\ faults' = faults
               \cup (IF graphAlive THEN {} ELSE {"lock_freed_context"})
               \cup (IF \E p \in Holders \ {t} : a \in HeldBy(p)
                       THEN {"remove_foreign"} ELSE {})
  /\ jpc' = [jpc EXCEPT ![t] = "idle"]
  /\ UNCHANGED <<graphAlive, held, stale, jarg, chandles, ops>>

(***************************************************************************)
(* CallbackToJava, entry: the packet (and for a header callback the header *)
(* packet) wrapped into handles, the Java callback called with them.       *)
(***************************************************************************)
CallbackWrap(c) ==
  /\ graphAlive /\ chandles[c] = {} /\ ops < MaxOps
  /\ \E S \in SUBSET Addrs :
       /\ Cardinality(S) \in {1, 2}
       /\ WrapPacketIntoContext(S)
       /\ chandles' = [chandles EXCEPT ![c] = S]
  /\ ops' = ops + 1
  /\ UNCHANGED <<graphAlive, held, stale, jpc, jarg, faults>>

\* CallbackToJava with the RemovePacket of the header handle left out.
CallbackRemoveFirstOnly(c) ==
  LET first == {CHOOSE a \in chandles[c] : TRUE} IN
  /\ chandles[c] # {}
  /\ Erase(first)
  /\ faults' = faults \cup (IF first \subseteq allPackets THEN {}
                            ELSE {"remove_freed"})
  /\ chandles' = [chandles EXCEPT ![c] = {}]
  /\ UNCHANGED <<graphAlive, held, stale, jpc, jarg, ops>>

\* CallbackToJava after the Java callback returned: RemovePacket of each.
\* A Java callback that kept its Packet objects leaves their handles with
\* the Java side (StaleReleases).
CallbackRemove(c) ==
  /\ chandles[c] # {}
  /\ Erase(chandles[c])
  /\ faults' = faults \cup (IF chandles[c] \subseteq allPackets THEN {}
                            ELSE {"remove_freed"})
  /\ chandles' = [chandles EXCEPT ![c] = {}]
  /\ stale' = IF StaleReleases
                THEN [t \in JavaThreads |-> stale[t] \cup chandles[c]]
                ELSE stale
  /\ UNCHANGED <<graphAlive, held, jpc, jarg, ops>>

(***************************************************************************)
(* ~Graph (nativeReleaseGraph): Cancel and WaitUntilDone of running_graph_ *)
(* first, so none of its callbacks is in flight; a graph RunGraphUntilClose *)
(* runs on another Java thread is not waited for, and nothing waits for    *)
(* the Java side to release its handles.  Then the members, all_packets_   *)
(* with every PacketWithContext, are destroyed.                            *)
(***************************************************************************)
GraphDestroy ==
  /\ graphAlive
  /\ \A c \in CallbackThreads \ SyncCallbacks : chandles[c] = {}
  /\ graphAlive' = FALSE
  /\ Erase(allPackets)
  /\ UNCHANGED <<held, stale, jpc, jarg, chandles, ops, faults>>

Init ==
  /\ allPackets = {}
  /\ content = [a \in Addrs |-> "none"]
  /\ graphAlive = TRUE
  /\ held = [t \in JavaThreads |-> {}]
  /\ stale = [t \in JavaThreads |-> {}]
  /\ jpc = [t \in JavaThreads |-> "idle"]
  /\ jarg = [t \in JavaThreads |-> CHOOSE a \in Addrs : TRUE]
  /\ chandles = [c \in CallbackThreads |-> {}]
  /\ ops = 0
  /\ faults = {}

Next ==
  \/ \E t \in JavaThreads :
       \/ JavaWrap(t)
       \/ GetPacketFromHandle(t)
       \/ SetTimestampAndMovePacketToInputStream(t)
       \/ RemovePacketGetContext(t)
       \/ RemovePacketErase(t)
  \/ \E c \in CallbackThreads : CallbackWrap(c) \/ CallbackRemove(c)
  \/ GraphDestroy

Spec == Init /\ [][Next]_vars

-----------------------------------------------------------------------------

(* A packet is destroyed only when its last holder releases it (spec.md   *)
(* 4.1): every handle a Java thread or a callback still holds names a live *)
(* PacketWithContext, so a later get, move or RemovePacket through it, or  *)
(* the lock of its context, reads live memory.                             *)
PacketsOutliveHolders == \A p \in Holders : HeldBy(p) \subseteq allPackets

(* RemovePacket returns whether erase found the handle, as if a handle     *)
(* that is no longer registered were reported by false: such a release     *)
(* must neither read freed memory nor erase a packet someone else holds.   *)
RemoveReportsUnregistered == faults \cap {"remove_freed", "remove_foreign"} = {}

\* The registry as the atomic store of PacketStore sees it.
AbsHolder ==
  [a \in Addrs |-> IF a \in allPackets /\ \E p \in Holders : a \in HeldBy(p)
                     THEN CHOOSE p \in Holders : a \in HeldBy(p)
                     ELSE "nobody"]

AbsState == [a \in Addrs |-> IF a \in allPackets THEN content[a] ELSE "none"]

Abs == INSTANCE PacketStore
         WITH Handles <- Addrs, NoHolder <- "nobody",
              holder <- AbsHolder, state <- AbsState

(* The registry implements PacketStore: every step of the threads, the     *)
(* two steps of RemovePacket and CallbackToJava's wrap and remove among    *)
(* them, is a step of the atomic store or leaves it unchanged; no handle   *)
(* leaks out of its holder's hands while still registered.                 *)
ImplementsPacketStore == Abs!Spec

====
