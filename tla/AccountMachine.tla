---------------------------- MODULE AccountMachine ----------------------------
(***************************************************************************)
(* The session reducer of a Telegram account, as the agent that drives it  *)
(* may rely on it: a machine value, the key exchange it belongs to and the *)
(* messages made in it.                                                    *)
(*                                                                         *)
(* TelegramSession implements this whatever the network does, and          *)
(* TelegramAgent takes from it what a frame may make of a snapshot.        *)
(***************************************************************************)
EXTENDS Naturals

CONSTANT Prompts     \* the values in which a login awaits its user

VARIABLES value,     \* of the machine, one of Value
          exchange,  \* the number of the key exchange
          made       \* messages made in it

machine == <<value, exchange, made>>

Value == {"handshake", "authorizing", "ready", "error"} \cup Prompts

\* Past the key exchange the reducer goes by the class of what arrives, whatever
\* it waits for.
Past == {"authorizing", "ready"} \cup Prompts

\* The values that an input leaves the machine in without a message of its own, with
\* one, and with several, as when one frame carries several updates.
Stays == {value} \cup {v \in {"ready"} \cup Prompts : value \in Past}
Answers == {v \in {"handshake", "authorizing"} :
              \/ value = "handshake"
              \/ value \in Past \ {"ready"} /\ v = "authorizing"}
Bursts == {v \in {"authorizing", "error"} : value \in Past \ {"ready"}}

\* A frame may move the account to another data centre.
Migrates == value \in Past
-----------------------------------------------------------------------------
Init == value = "handshake" /\ exchange = 1 /\ made = 1

\* A frame arrives, and may end the session besides, or the user answers a prompt.
Step == /\ \/ value' \in Stays \cup {"error"} /\ made' = made
           \/ value' \in Answers /\ made' = made + 1
           \/ value' \in Bursts /\ made' \in Nat /\ made' > made
        /\ exchange' = exchange

Migrate == /\ Migrates
           /\ value' = "handshake" /\ exchange' = exchange + 1 /\ made' = 1

Call == /\ value = "ready"
        /\ made' = made + 1 /\ UNCHANGED <<value, exchange>>

Next == Step \/ Migrate \/ Call

Spec == Init /\ [][Next]_machine
=============================================================================
