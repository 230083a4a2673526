----------------------------- MODULE PacketStore -----------------------------
(***************************************************************************)
(* What the packet handle registry of the JNI graph wrapper promises its   *)
(* users, with every operation atomic: a handle names one packet, held by  *)
(* one holder (a Java thread, or a graph thread delivering a callback);    *)
(* only the holder moves the packet out or releases the handle; a released *)
(* handle names nothing until it is handed out again.  Destroying the      *)
(* store leaves every handle naming nothing.                               *)
(***************************************************************************)
CONSTANTS
  Handles,   \* the handle values that can be handed out
  Holders,   \* who can hold a handle
  NoHolder   \* the holder of a handle that names nothing

VARIABLES
  holder,    \* holder[h]: who holds handle h, or NoHolder
  state      \* state[h]: "none", "packet", or "moved" (the packet was moved out)

vars == <<holder, state>>

States == {"none", "packet", "moved"}

TypeOK ==
  /\ holder \in [Handles -> Holders \cup {NoHolder}]
  /\ state \in [Handles -> States]

Init ==
  /\ holder = [h \in Handles |-> NoHolder]
  /\ state = [h \in Handles |-> "none"]

\* p is handed the non-empty set S of handles that named nothing.
Create(p, S) ==
  /\ S # {}
  /\ \A h \in S : holder[h] = NoHolder /\ state[h] = "none"
  /\ holder' = [h \in Handles |-> IF h \in S THEN p ELSE holder[h]]
  /\ state' = [h \in Handles |-> IF h \in S THEN "packet" ELSE state[h]]

\* The holder of h moves its packet out; the handle stays valid.
Move(p, h) ==
  /\ holder[h] = p
  /\ state[h] = "packet"
  /\ state' = [state EXCEPT ![h] = "moved"]
  /\ UNCHANGED holder

\* p releases the non-empty set S of handles it holds.
Release(p, S) ==
  /\ S # {}
  /\ \A h \in S : holder[h] = p
  /\ holder' = [h \in Handles |-> IF h \in S THEN NoHolder ELSE holder[h]]
  /\ state' = [h \in Handles |-> IF h \in S THEN "none" ELSE state[h]]

\* The store is destroyed: every handle names nothing, whoever held it.
Teardown ==
  /\ holder' = [h \in Handles |-> NoHolder]
  /\ state' = [h \in Handles |-> "none"]

Next ==
  \/ Teardown
  \/ \E p \in Holders, S \in SUBSET Handles :
       \/ Create(p, S)
       \/ Release(p, S)
       \/ \E h \in S : Move(p, h)

Spec == Init /\ [][Next]_vars

====
