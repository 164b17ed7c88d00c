-------------------------- MODULE MCOutboxDispatch --------------------------
(* Instance of OutboxDispatch for TLC.                                     *)
EXTENDS OutboxDispatch, TLC

\* 1 is on WhatsApp without a phone but has a chat on Telegram; 2 is on Telegram,
\* connected, or not yet but with a phone.
MCPeople ==
  {1 :> [channel |-> "whatsapp", addresses |-> {"telegram"}, active |-> TRUE] @@
   2 :> [channel |-> "telegram", addresses |-> {address}, active |-> TRUE] :
     address \in Channel}

MCAudience == 1 :> {1} @@ 2 :> {2}
=============================================================================
