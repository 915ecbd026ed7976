------------------------------- MODULE Discord -------------------------------
(***************************************************************************)
(* The Discord gateway of frontend/discord.rs: the loop of start_gateway   *)
(* with its socket, resume state and heartbeat task, the events it handles *)
(* one at a time, and the sessions those events reach: a message becomes a *)
(* turn, a "!" command is sent to the session and its reply awaited, and a *)
(* turn may ask a y/n question that the next message of the channel        *)
(* answers.  Routing gives the session of a message.                       *)
(***************************************************************************)
EXTENDS Routing

CONSTANTS
  Chats,        \* Discord channels: DMs and channels of a guild
  GuildOf,      \* the guild of a chat, "" for a DM
  Users,
  Agents,       \* registered agents, with the default dm_scope per-peer
  InFile,       \* the choices for the one binding of bindings.json
  Admin,        \* the bindings set while the gateway runs
  QueueCap,     \* capacity of a session's channel
  MaxMsgs,      \* bound: messages users post
  MaxFaults,    \* bound: failures of the network or of Discord, and panics of turns
  MaxSets       \* bound: calls of bindings.set and bindings.remove

ASSUME DiscordAssumption ==
  /\ QueueCap \in Nat \ {0} /\ MaxMsgs \in Nat /\ MaxFaults \in Nat /\ MaxSets \in Nat
  /\ GuildOf \in [Chats -> STRING] /\ DefaultAgent \in Agents
  /\ InFile \cup Admin \subseteq [agent : Agents, tier : Nat, key : STRING, value : STRING,
                                on : STRING, priority : Int, set : {0}]

VARIABLES
  log,       \* what users posted: the events of the Discord server
  sent,      \* server: the last event forwarded on the socket
  serving,   \* server: the socket is identified and gets events
  valid,     \* server: the session to resume is still known
  sock,      \* the socket and its peer (Socks)
  inbox,     \* frames on their way to the loop
  owed,      \* server: a heartbeat waits for its ACK
  loop,      \* the gateway loop: where it is, the event in hand, the session it awaits
  resume,    \* GatewayRuntime::resume is set
  seq,       \* GatewayRuntime::seq
  ack,       \* HeartbeatLoop::ack
  beating,   \* the heartbeat task runs
  pending,   \* pending_confirms: the session whose question a chat will answer
  sess,      \* the session tasks
  table,     \* the binding table
  handled,   \* history: the events handled, in order
  fresh,     \* history: where in the log each new Discord session began
  answers,   \* history: the turns and the events that answered them
  faults, sets

server == <<log, sent, serving, valid>>
link == <<sock, inbox, owed, ack, beating>>
memory == <<resume, seq>>
past == <<handled, fresh, answers>>
vars == <<server, link, loop, memory, pending, sess, table, past, faults, sets>>

Keys == Agents \X Users
NoKey == <<"", "">>
Nobody == [pc |-> "start", ev |-> 0, key |-> NoKey]
Where == {"start", "hello", "init", "ready", "live", "send", "ctrl", "sleep", "ended",
          "failed"}
Connected == {"hello", "init", "ready", "live", "send", "ctrl"}

\* "mute": Discord answers nothing but a close; "dead": nobody answers; "closing": the
\* close frame was sent, and the reading half waits for the peer's.
Socks == {"none", "open", "mute", "dead", "closing", "closed"}

\* Frames by opcode: an event, a request to reconnect, an invalid session that may or
\* may not be resumed, hello and ACK; ready is the event READY, with its sequence.
Frame(op, n) == [op |-> op, n |-> n]
Event(n) == Frame("event", n)
Hello == Frame("hello", 0)
Reconnect == Frame("reconnect", 0)
Invalid(resumable) == Frame("invalid", IF resumable THEN 1 ELSE 0)
Ack == Frame("ack", 0)

TypeOK ==
  /\ log \in Seq([user : Users, chat : Chats, kind : {"text", "ctrl"}])
  /\ sent \in 0..Len(log) /\ serving \in BOOLEAN /\ valid \in BOOLEAN
  /\ sock \in Socks
  /\ owed \in BOOLEAN /\ ack \in BOOLEAN /\ beating \in BOOLEAN
  /\ loop \in [pc : Where, ev : 0..MaxMsgs, key : Keys \cup {NoKey}]
  /\ resume \in BOOLEAN /\ seq \in 0..Len(log)
  /\ pending \in [Chats -> Keys \cup {NoKey}]
  /\ sess \in [Keys -> [pc : {"none", "idle", "turn", "posted", "wait"},
                        q : Seq(0..MaxMsgs), cur : 0..MaxMsgs, asked : BOOLEAN]]
  /\ \A k \in Keys : Len(sess[k].q) <= QueueCap
  /\ faults \in 0..MaxFaults /\ sets \in 0..MaxSets

Init ==
  /\ log = <<>> /\ sent = 0 /\ serving = FALSE /\ valid = FALSE
  /\ sock = "none" /\ inbox = <<>> /\ owed = FALSE /\ ack = FALSE /\ beating = FALSE
  /\ loop = Nobody /\ resume = FALSE /\ seq = 0
  /\ pending = [c \in Chats |-> NoKey]
  /\ sess = [k \in Keys |-> [pc |-> "none", q |-> <<>>, cur |-> 0, asked |-> FALSE]]
  /\ handled = <<>> /\ fresh = {} /\ answers = {}
  /\ table \in {Add(<<>>, b) : b \in InFile}
  /\ faults = 0 /\ sets = 0

Message(e, guild) ==
  [channel |-> "discord", account |-> "bot", guild |-> guild, peer |-> e.user]

KeyOf(m) ==
  LET key == SessionKey(Resolve(table, m), m, "per-peer") IN <<key.agent, key.peer>>

\* The session a message of a chat goes to.
TurnKey(e) == KeyOf(Message(e, GuildOf[e.chat]))

\* handle_control_command resolves a message without its guild.
ControlKey(e) == KeyOf(Message(e, ""))

----------------------------------------------------------------------------
(* The Discord server and the network (external).                          *)

\* The gateway service still runs: what happens to Discord later does not reach it.
Up == loop.pc \notin {"ended", "failed"}

Post(e) ==
  /\ Up /\ Len(log) < MaxMsgs
  /\ log' = Append(log, e)
  /\ UNCHANGED <<sent, serving, valid, link, loop, memory, pending, sess, table, past,
                 faults, sets>>

Forward ==
  /\ sock = "open" /\ serving /\ sent < Len(log)
  /\ sent' = sent + 1 /\ inbox' = Append(inbox, Event(sent + 1))
  /\ UNCHANGED <<log, serving, valid, sock, owed, ack, beating, loop, memory, pending,
                 sess, table, past, faults, sets>>

Acknowledge ==
  /\ sock = "open" /\ owed
  /\ owed' = FALSE /\ inbox' = Append(inbox, Ack)
  /\ UNCHANGED <<server, sock, ack, beating, loop, memory, pending, sess, table, past,
                 faults, sets>>

\* Discord asks to reconnect, ends the session or goes mute, the connection breaks or
\* is closed, or its peer is gone; frames on their way may be lost with it.
Fault ==
  /\ faults < MaxFaults /\ faults' = faults + 1
  /\ \/ /\ sock = "open" /\ serving' = FALSE /\ inbox' = Append(inbox, Reconnect)
        /\ UNCHANGED <<valid, sock>>
     \/ \E r \in BOOLEAN :
          /\ sock = "open" /\ serving /\ serving' = FALSE /\ valid' = (valid /\ r)
          /\ inbox' = Append(inbox, Invalid(r))
          /\ UNCHANGED sock
     \/ /\ sock \in {"open", "closing"} /\ sock' = "closed" /\ inbox' \in {inbox, <<>>}
        /\ valid' \in {valid, FALSE} /\ UNCHANGED serving
     \/ /\ sock = "open" /\ sock' \in {"mute", "dead"} /\ UNCHANGED <<valid, serving, inbox>>
     \/ /\ sock = "closing" /\ sock' = "dead" /\ UNCHANGED <<valid, serving, inbox>>
  /\ owed' = FALSE
  /\ UNCHANGED <<log, sent, ack, beating, loop, memory, pending, sess, table, past, sets>>

Breaks(from) ==
  /\ sock = from /\ sock' = "closed"
  /\ UNCHANGED <<server, inbox, owed, ack, beating, loop, memory, pending, sess, table, past,
                 faults, sets>>

\* The peer answers the close frame, after all it had sent before.
AnswersClose == Breaks("closing")

\* The system gives up on a peer that is gone: in minutes, hours, or never.
GivesUp == Breaks("dead")

----------------------------------------------------------------------------
(* start_gateway and run_gateway_session.                                  *)

Go(pc) == loop' = [pc |-> pc, ev |-> 0, key |-> NoKey]

\* Back to the top of start_gateway: the socket is dropped and the heartbeat aborted.
Leave(pc) ==
  /\ Go(pc)
  /\ sock' = "none" /\ inbox' = <<>> /\ owed' = FALSE /\ beating' = FALSE
  /\ UNCHANGED ack

Clear == resume' = FALSE /\ seq' = 0

Connect ==
  /\ loop.pc = "start" /\ Go("hello")
  /\ sock' = "open" /\ inbox' = <<Hello>> /\ serving' = FALSE
  /\ UNCHANGED <<log, sent, valid, owed, ack, beating, memory, pending, sess, table, past,
                 faults, sets>>

ConnectFails ==
  /\ loop.pc = "start" /\ faults < MaxFaults /\ faults' = faults + 1 /\ Go("sleep")
  /\ UNCHANGED <<server, link, memory, pending, sess, table, past, sets>>

\* reconnect_delay_secs.
Wake ==
  /\ loop.pc = "sleep" /\ Go("start")
  /\ UNCHANGED <<server, link, memory, pending, sess, table, past, faults, sets>>

\* read_hello_interval: any frame will do, and so does the end of the stream.
ReadHello ==
  /\ loop.pc = "hello" /\ (inbox # <<>> \/ sock = "closed") /\ Go("init")
  /\ inbox' = IF inbox = <<>> THEN <<>> ELSE Tail(inbox)
  /\ UNCHANGED <<server, sock, owed, ack, beating, memory, pending, sess, table, past,
                 faults, sets>>

\* spawn_heartbeat.
Start == beating' = TRUE /\ ack' = TRUE

\* initialize_session with a session to resume: the server replays what came after seq,
\* or declares the session invalid.
Resume ==
  /\ loop.pc = "init" /\ resume /\ Go("live") /\ Start
  /\ CASE sock = "open" /\ valid ->
            /\ serving' = TRUE /\ sent' = seq /\ UNCHANGED inbox
       [] sock = "open" /\ ~valid ->
            /\ inbox' = Append(inbox, Invalid(FALSE)) /\ UNCHANGED <<serving, sent>>
       [] OTHER -> UNCHANGED <<serving, sent, inbox>>
  /\ UNCHANGED <<log, valid, sock, owed, memory, pending, sess, table, past, faults, sets>>

\* The payload cannot be sent: what could have been resumed is forgotten.
InitFails ==
  /\ loop.pc = "init" /\ sock = "closed"
  /\ Leave("sleep") /\ Clear
  /\ UNCHANGED <<server, pending, sess, table, past, faults, sets>>

\* Identify: a new session of the server, whose events begin here, or a refusal.
Identify ==
  /\ loop.pc = "init" /\ ~resume /\ Go("ready")
  /\ \/ /\ sock = "open"
        /\ serving' = TRUE /\ valid' = TRUE /\ sent' = Len(log)
        /\ fresh' = fresh \cup {Len(log)}
        /\ inbox' = Append(inbox, Frame("ready", Len(log)))
        /\ UNCHANGED faults
     \/ /\ sock = "open" /\ faults < MaxFaults /\ faults' = faults + 1
        /\ inbox' = Append(inbox, Invalid(FALSE))
        /\ UNCHANGED <<serving, valid, sent, fresh>>
     \/ sock # "open" /\ UNCHANGED <<serving, valid, sent, fresh, inbox, faults>>
  /\ UNCHANGED <<log, sock, owed, ack, beating, memory, pending, sess, table, handled,
                 answers, sets>>

\* wait_for_ready: other frames are skipped; no heartbeat runs yet.
ReadReady ==
  /\ loop.pc = "ready" /\ inbox # <<>>
  /\ LET f == Head(inbox)
     IN CASE f.op = "invalid" -> Leave("sleep") /\ Clear
          [] f.op = "ready" ->
               /\ Go("live") /\ Start /\ resume' = TRUE /\ seq' = f.n
               /\ inbox' = Tail(inbox) /\ UNCHANGED <<sock, owed>>
          [] OTHER -> inbox' = Tail(inbox)
                      /\ UNCHANGED <<sock, owed, ack, beating, loop, memory>>
  /\ UNCHANGED <<server, pending, sess, table, past, faults, sets>>

EndsUnready ==
  /\ loop.pc = "ready" /\ inbox = <<>> /\ sock = "closed"
  /\ Leave("sleep") /\ Clear
  /\ UNCHANGED <<server, pending, sess, table, past, faults, sets>>

\* The end of the stream, or a close frame; some close codes end the gateway.
Ends ==
  /\ loop.pc = "live" /\ inbox = <<>> /\ sock = "closed"
  /\ Leave("sleep") \/ Leave("failed")
  /\ UNCHANGED <<server, memory, pending, sess, table, past, faults, sets>>

\* Mutant: the heartbeat task ends without a close frame.
TickEnds ==
  /\ beating
  /\ ack' = FALSE
  /\ IF ack /\ sock # "closed"
     THEN owed' = (owed \/ sock = "open") /\ UNCHANGED <<sock, beating>>
     ELSE beating' = FALSE /\ owed' = FALSE /\ UNCHANGED sock
  /\ UNCHANGED <<server, inbox, loop, memory, pending, sess, table, past, faults, sets>>

\* A tick of the heartbeat task, whatever the loop is doing: without the ACK of the last
\* one it sends a close frame and ends, and the loop goes on reading.
Tick ==
  /\ beating
  /\ ack' = FALSE
  /\ IF ack /\ sock # "closed"
     THEN owed' = (owed \/ sock = "open") /\ UNCHANGED <<sock, beating>>
     ELSE /\ sock' = IF sock \in {"open", "mute"} THEN "closing" ELSE sock
          /\ beating' = FALSE /\ owed' = FALSE
  /\ UNCHANGED <<server, inbox, loop, memory, pending, sess, table, past, faults, sets>>

\* Mutant: the sequence of an event is stored only when nothing can be resumed.
StoreSequenceOnce(f) == IF f.op = "event" /\ seq = 0 THEN f.n ELSE seq

StoreSequence(f) == IF f.op = "event" THEN f.n ELSE seq

\* Frames that are not events: handle_gateway_payload.
ReceiveOther ==
  /\ loop.pc = "live" /\ inbox # <<>> /\ Head(inbox).op # "event"
  /\ LET f == Head(inbox)
     IN CASE f.op = "reconnect" -> Leave("sleep") /\ UNCHANGED memory
          [] f = Invalid(TRUE) -> Leave("sleep") /\ UNCHANGED memory
          [] f = Invalid(FALSE) -> Leave("sleep") /\ Clear
          [] f = Ack -> /\ ack' = TRUE /\ inbox' = Tail(inbox)
                        /\ UNCHANGED <<sock, owed, beating, loop, memory>>
  /\ UNCHANGED <<server, pending, sess, table, past, faults, sets>>

\* handle_message_create reads an event of the log; what it does with it follows.
Readable == loop.pc = "live" /\ inbox # <<>> /\ Head(inbox).op = "event"

Receives(e) ==
  /\ Readable
  /\ e = log[Head(inbox).n]
  /\ inbox' = Tail(inbox) /\ seq' = StoreSequence(Head(inbox))
  /\ handled' = Append(handled, Head(inbox).n)
  /\ UNCHANGED <<server, sock, owed, ack, beating, resume, table, fresh, faults, sets>>

\* The chat has a question: the message is its answer, whatever it says.
Answer(e) ==
  LET k == pending[e.chat]
  IN /\ k # NoKey /\ Receives(e)
     /\ pending' = [pending EXCEPT ![e.chat] = NoKey]
     /\ answers' = answers \cup {[turn |-> sess[k].cur, by |-> Head(inbox).n]}
     /\ UNCHANGED <<loop, sess>>

\* A command that awaits no session: an !interrupt, which sets a flag the turn may heed
\* or not, and any command for a session that does not exist.
Replies(e) ==
  /\ pending[e.chat] = NoKey /\ Receives(e) /\ e.kind = "ctrl"
  /\ UNCHANGED <<loop, pending, sess, answers>>

\* A command the session must answer, or a turn: both go through its bounded queue.
Command(e) ==
  /\ pending[e.chat] = NoKey /\ Receives(e)
  /\ e.kind = "ctrl" /\ sess[ControlKey(e)].pc # "none"
  /\ loop' = [pc |-> "send", ev |-> Head(inbox).n, key |-> ControlKey(e)]
  /\ UNCHANGED <<pending, sess, answers>>

\* dispatch, with the session spawned when there is none.
Dispatch(e) ==
  LET k == TurnKey(e)
  IN /\ pending[e.chat] = NoKey /\ Receives(e)
     /\ e.kind = "text"
     /\ sess' = [sess EXCEPT ![k].pc = IF @ = "none" THEN "idle" ELSE @]
     /\ loop' = [pc |-> "send", ev |-> Head(inbox).n, key |-> k]
     /\ UNCHANGED <<pending, answers>>

\* The channel of the session takes the item once it has room.
Send ==
  LET k == loop.key
  IN /\ loop.pc = "send" /\ Len(sess[k].q) < QueueCap
     /\ sess' = [sess EXCEPT ![k].q = Append(@, loop.ev)]
     /\ IF log[loop.ev].kind = "ctrl" THEN loop' = [loop EXCEPT !.pc = "ctrl"]
                                       ELSE Go("live")
     /\ UNCHANGED <<server, link, memory, pending, table, past, faults, sets>>

\* The service is stopped: the loop looks at its shutdown flag where it waits for its
\* socket or a timer.  Where it waits for a session it does not, and stop_task waits for
\* it with no timeout.
Stop ==
  /\ loop.pc \in {"start", "hello", "ready", "live", "sleep"} /\ Leave("ended")
  /\ UNCHANGED <<server, memory, pending, sess, table, past, faults, sets>>

----------------------------------------------------------------------------
(* The sessions the events reach.                                          *)

\* handle_session_message: a command is answered, which lets the loop go on.
Serve(k) ==
  /\ sess[k].pc = "idle" /\ sess[k].q # <<>>
  /\ LET n == Head(sess[k].q)
     IN IF log[n].kind = "ctrl"
        THEN /\ sess' = [sess EXCEPT ![k].q = Tail(@)]
             /\ IF loop.pc = "ctrl" /\ loop.ev = n THEN Go("live") ELSE UNCHANGED loop
        ELSE /\ sess' = [sess EXCEPT ![k].q = Tail(@), ![k].pc = "turn", ![k].cur = n,
                                     ![k].asked = FALSE]
             /\ UNCHANGED loop
  /\ UNCHANGED <<server, link, memory, pending, table, past, faults, sets>>

TurnEnds(k) ==
  /\ sess[k].pc = "turn"
  /\ sess' = [sess EXCEPT ![k].pc = "idle", ![k].cur = 0]
  /\ UNCHANGED <<server, link, loop, memory, pending, table, past, faults, sets>>

\* A turn panics: its task ends, and what waits for the session learns it.
TurnPanics(k) ==
  /\ sess[k].pc = "turn" /\ faults < MaxFaults /\ faults' = faults + 1
  /\ sess' = [sess EXCEPT ![k] = [pc |-> "none", q |-> <<>>, cur |-> 0, asked |-> FALSE]]
  /\ IF loop.pc \in {"send", "ctrl"} /\ loop.key = k THEN Go("live") ELSE UNCHANGED loop
  /\ UNCHANGED <<server, link, memory, pending, table, past, sets>>

\* DiscordReply::confirm posts its question (one for each turn here) ...
Ask(k) ==
  /\ sess[k].pc = "turn" /\ ~sess[k].asked
  /\ sess' = [sess EXCEPT ![k].pc = "posted", ![k].asked = TRUE]
  /\ UNCHANGED <<server, link, loop, memory, pending, table, past, faults, sets>>

\* Mutant: one slot for all chats.
RegisterShared(k) ==
  /\ sess[k].pc = "posted"
  /\ sess' = [sess EXCEPT ![k].pc = "wait"]
  /\ pending' = [c \in Chats |-> k]
  /\ UNCHANGED <<server, link, loop, memory, table, past, faults, sets>>

\* ... and then registers for the answer; a question already there loses its sender.
Register(k) ==
  /\ sess[k].pc = "posted"
  /\ sess' = [sess EXCEPT ![k].pc = "wait"]
  /\ pending' = [pending EXCEPT ![log[sess[k].cur].chat] = k]
  /\ UNCHANGED <<server, link, loop, memory, table, past, faults, sets>>

\* The answer came, or the sender was dropped and the command is denied.
Resumes(k) ==
  /\ sess[k].pc = "wait" /\ pending[log[sess[k].cur].chat] # k
  /\ sess' = [sess EXCEPT ![k].pc = "turn"]
  /\ UNCHANGED <<server, link, loop, memory, pending, table, past, faults, sets>>

----------------------------------------------------------------------------
(* bindings.set and bindings.remove, from another frontend.  Only an event *)
(* that is read looks at the table, so a change is made when one is next.  *)

SetBinding(b) ==
  /\ Readable /\ sets < MaxSets /\ sets' = sets + 1
  /\ table' = Add(table, [b EXCEPT !.set = sets'])
  /\ UNCHANGED <<server, link, loop, memory, pending, sess, past, faults>>

RemoveBinding(b) ==
  /\ Readable /\ sets < MaxSets /\ sets' = sets + 1 /\ table' = Remove(table, b)
  /\ UNCHANGED <<server, link, loop, memory, pending, sess, past, faults>>

LoopStep ==
  \/ Connect \/ Wake \/ ReadHello \/ Resume \/ Identify \/ InitFails \/ ReadReady
  \/ EndsUnready \/ Ends \/ ReceiveOther \/ Send
  \/ \E i \in DOMAIN log :
       Answer(log[i]) \/ Replies(log[i]) \/ Command(log[i]) \/ Dispatch(log[i])

SessionStep(k) == Serve(k) \/ TurnEnds(k) \/ Register(k) \/ Resumes(k)

Next ==
  \/ \E u \in Users, c \in Chats, kind \in {"text", "ctrl"} :
       Post([user |-> u, chat |-> c, kind |-> kind])
  \/ Forward \/ Acknowledge \/ Fault \/ AnswersClose \/ GivesUp \/ ConnectFails
  \/ LoopStep \/ Tick \/ Stop
  \/ \E k \in Keys : SessionStep(k) \/ Ask(k) \/ TurnPanics(k)
  \/ \E b \in Admin : SetBinding(b)
  \/ \E i \in DOMAIN table : RemoveBinding(table[i])

\* The loop, the heartbeat task and the sessions are tasks of the runtime; Discord
\* answers and forwards while the connection stands, and answers a close.
Fairness ==
  /\ WF_vars(LoopStep) /\ WF_vars(Tick) /\ WF_vars(Forward) /\ WF_vars(Acknowledge)
  /\ WF_vars(AnswersClose)
  /\ \A k \in Keys : WF_vars(SessionStep(k))

Spec == Init /\ [][Next]_vars /\ Fairness

----------------------------------------------------------------------------
\* Every event is handled once, in the order of the log, across reconnects and
\* resumes; what is passed over was posted before a new Discord session began.
EventsOnce ==
  \A i \in DOMAIN handled :
    LET before == IF i = 1 THEN 0 ELSE handled[i - 1]
    IN handled[i] > before /\ handled[i] - 1 \in {before} \cup fresh

\* A question is answered only by a message of the chat its turn came from, posted
\* after the one that began the turn.
AnsweredInChat ==
  \A a \in answers : a.by > a.turn /\ log[a.by].chat = log[a.turn].chat

\* A command reaches the session that the messages of its chat go to, unless a binding by
\* guild is the one that decides where either of them goes.
CommandsFollowTurns ==
  \A u \in Users, c \in Chats :
    LET e == [user |-> u, chat |-> c, kind |-> "ctrl"]
        hits == Hits(table, Message(e, GuildOf[c])) \cup Hits(table, Message(e, ""))
        decides == {i \in hits : \A j \in hits : i <= j}
    IN (\A i \in decides : table[i].key # "guild_id") => ControlKey(e) = TurnKey(e)

\* Whatever an administrator set and removed, every message of every chat, of a peer or
\* of none and of any frontend, goes where the most specific binding says.
MostSpecific ==
  \A c \in Chats, peer \in Users \cup {""}, channel \in {"discord", "cli"} :
    Specific(table, [channel |-> channel, account |-> "bot", guild |-> GuildOf[c],
                     peer |-> peer])

\* Both: messages and the commands about them meet in one session.
Routed == MostSpecific /\ CommandsFollowTurns

\* The loop waits for a session whose turn waits for an answer only the loop can read.
WaitsForQuestion ==
  /\ loop.pc \in {"send", "ctrl"}
  /\ sess[loop.key].pc = "wait" /\ pending[log[sess[loop.key].cur].chat] = loop.key

\* Nothing watches a peer that goes silent before the heartbeat is spawned.
SilentStart == loop.pc \in {"hello", "ready"} /\ sock \in {"mute", "dead"}

\* The peer is gone for good: the close frame of a missed ACK is never answered, and the
\* loop reads on until the system gives up.
Gone == sock = "dead"

\* A connection that breaks, is closed, or whose server acknowledges no heartbeat any more
\* is replaced, unless the gateway ends, the peer is gone too, or the loop is caught in
\* one of the two waits above (spawn_heartbeat, handle_gateway_messages).
ReconnectsUnlessStuck ==
  sock \in {"mute", "closing", "closed"}
    ~> (sock \in {"none", "open"} \/ Gone \/ WaitsForQuestion \/ SilentStart)

\* The documentation of start_gateway: a disconnect that is not fatal reconnects.
Reconnects == sock = "closed" ~> sock # "closed"
=============================================================================
