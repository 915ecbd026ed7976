------------------------------- MODULE Routing -------------------------------
(***************************************************************************)
(* The binding table of routing/router.rs and the session key built from   *)
(* what it resolves.  Pure operators; Specific is the reference that the    *)
(* tables left by bindings.set and bindings.remove are checked against.    *)
(***************************************************************************)
EXTENDS Integers, Sequences, FiniteSets

CONSTANTS
  DefaultAgent    \* BindingRouter::default_agent_id

\* The pairs of tier and key that resolve_msg knows; any other never matches.
Tiers == {<<1, "peer_id">>, <<2, "guild_id">>, <<3, "account_id">>, <<4, "channel">>,
          <<5, "default">>}

\* b.on is the channel of a "channel:peer" value, "" when the value names a peer only.
Matches(b, m) ==
  /\ <<b.tier, b.key>> \in Tiers
  /\ b.key = "peer_id" => b.value = m.peer /\ b.on \in {"", m.channel}
  /\ b.key = "guild_id" => b.value = m.guild
  /\ b.key = "account_id" => b.value = m.account
  /\ b.key = "channel" => b.value = m.channel

Before(b, c) == b.tier < c.tier \/ (b.tier = c.tier /\ b.priority > c.priority)

\* The table with b at the place n.
Inserted(table, b, n) ==
  [i \in 1..(Len(table) + 1) |->
     IF i < n THEN table[i] ELSE IF i = n THEN b ELSE table[i - 1]]

\* Mutant: the sort is not stable, a later binding of equal rank goes first.
AddNewestFirst(table, b) ==
  Inserted(table, b, CHOOSE n \in 1..(Len(table) + 1) :
                       \A i \in DOMAIN table : i < n <=> Before(table[i], b))

\* The push and the stable sort of a table that is already sorted: b goes after all that
\* are not to stand behind it.
Add(table, b) ==
  Inserted(table, b, CHOOSE n \in 1..(Len(table) + 1) :
                       \A i \in DOMAIN table : i < n <=> ~Before(b, table[i]))

Same(b, c) == b.agent = c.agent /\ b.key = c.key /\ b.value = c.value /\ b.on = c.on

\* retain: the bindings that stay, in their order.
Kept(table, b) == {i \in DOMAIN table : ~Same(table[i], b)}
UpTo(S, i) == {j \in S : j <= i}
Nth(S, n) == CHOOSE i \in S : Cardinality(UpTo(S, i)) = n
Remove(table, b) ==
  [n \in 1..Cardinality(Kept(table, b)) |-> table[Nth(Kept(table, b), n)]]

\* The bindings of a table that match a message, and the first of them.
Hits(table, m) == {i \in DOMAIN table : Matches(table[i], m)}
Least(S) == CHOOSE i \in S : \A j \in S : i <= j

Resolve(table, m) ==
  IF Hits(table, m) = {} THEN DefaultAgent ELSE table[Least(Hits(table, m))].agent

\* build_session_key: what of the message is part of the key under each DmScope.
SessionKey(agent, m, scope) ==
  [agent   |-> agent,
   peer    |-> IF scope = "main" THEN "" ELSE m.peer,
   channel |-> IF m.peer # "" /\ scope \in {"per-channel-peer", "per-account-channel-peer"}
               THEN m.channel ELSE "",
   account |-> IF m.peer # "" /\ scope = "per-account-channel-peer"
               THEN m.account ELSE ""]

----------------------------------------------------------------------------
\* A message goes to the agent of the most specific binding that matches it, of the
\* highest priority within the tier, the first to have been set of equals, and to the
\* default agent when none matches.  A binding of the table says when it was set.
Specific(table, m) ==
  IF Hits(table, m) = {} THEN Resolve(table, m) = DefaultAgent
  ELSE \E i \in Hits(table, m) :
         /\ Resolve(table, m) = table[i].agent
         /\ \A j \in Hits(table, m) \ {i} :
              \/ Before(table[i], table[j])
              \/ ~Before(table[j], table[i]) /\ table[i].set < table[j].set
=============================================================================
