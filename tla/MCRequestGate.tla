--------------------------- MODULE MCRequestGate ---------------------------
(***************************************************************************)
(* Instances of RequestGate for TLC: a process job with two chats, one of  *)
(* them tried twice, and a story job that calls without retries.           *)
(***************************************************************************)
EXTENDS RequestGate, TLC

CONSTANTS agent1, agent2, story

TwoProcesses == {{agent1, agent2}, {story}}
Short == [c \in Chats |-> 1]
AgentRetries == [c \in Chats |-> IF c = agent1 THEN 1 ELSE 0]
=============================================================================
