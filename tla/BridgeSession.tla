---------------------------- MODULE BridgeSession ----------------------------
(***************************************************************************)
(* One bridge session, as the agent that asks for it may rely on it: it    *)
(* connects or fails, its end is final, and the agent is notified of it    *)
(* after it, at most twice, and at most once if it never connected.        *)
(*                                                                         *)
(* BridgeLink implements this for every key, and the agents are modelled   *)
(* on sessions that behave so.                                             *)
(***************************************************************************)
EXTENDS Naturals

VARIABLES state,  \* what has become of the session
          due     \* notifications of its end the agent may still receive

session == <<state, due>>

Init == state = "none" /\ due = 0

Ask == state = "none" /\ state' = "asked" /\ due' = due

\* The bridge never hears of it.
Refuse == state = "asked" /\ state' = "shut" /\ due' = due

Connect == state = "asked" /\ state' = "open" /\ due' = due

\* The dial fails, or the relay ends, or the agent closes the connection.  The data
\* WebSocket, if there was one, and DurableSocket each tell of it.
End ==
  /\ state \in {"asked", "open"}
  /\ state' = "shut"
  /\ due' = due + (IF state = "open" THEN 2 ELSE 1)

Hear == due > 0 /\ due' = due - 1 /\ state' = state

Next == Ask \/ Refuse \/ Connect \/ End \/ Hear

Spec == Init /\ [][Next]_session
=============================================================================
