------------------------- MODULE MCManagedServices -------------------------
(* Instances of ManagedServices for TLC. *)
EXTENDS ManagedServices

Both == {"handle", "front"}

\* Delivery and the websocket gateway, kept across restarts; the same with Discord; and a
\* configured cron with the policy of the configuration next to a Discord without token.
SomeConfs ==
  {[front |-> "websocket", ready |-> Both, runtime |-> Both, enabled |-> Both],
   [front |-> "discord", ready |-> Both, runtime |-> Both, enabled |-> Both],
   [front |-> "discord", ready |-> {"handle"}, runtime |-> {"front"}, enabled |-> {"front"}]}
=============================================================================
