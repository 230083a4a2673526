-------------------------- MODULE MC_PacketRegistry --------------------------
(* The registry with three addresses, so a freed one is handed out again   *)
(* while others are live, two Java threads and two callback threads.        *)
EXTENDS PacketRegistry

====
