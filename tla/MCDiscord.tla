----------------------------- MODULE MCDiscord -----------------------------
(* Model values of Discord for TLC. *)
EXTENDS Discord

Binding(agent, tier, key, value, on, priority) ==
  [agent |-> agent, tier |-> tier, key |-> key, value |-> value, on |-> on,
   priority |-> priority, set |-> 0]

MCInFile == {Binding("a1", 2, "guild_id", "g", "", 0)}

MCAdmin ==
  {Binding("a2", 2, "guild_id", "g", "", 0), Binding("a2", 1, "peer_id", "u", "discord", 0)}

MCGuildOf == [c \in {"dm", "hall"} |-> IF c = "dm" THEN "" ELSE "g"]
=============================================================================
