---------------------------- MODULE DiscordProofs ----------------------------
(***************************************************************************)
(* Proofs about Discord and Routing, for any chats, users, agents and      *)
(* bindings, any capacity of a session's queue, and any number of          *)
(* messages, faults and changes of the bindings: every event is handled    *)
(* once and in order, an answer is read in the chat that was asked, and a  *)
(* message goes where the most specific binding says.                      *)
(***************************************************************************)
EXTENDS Discord, FiniteSetTheorems, SequenceTheorems, WellFoundedInduction, TLAPS

Frames ==
  [op : {"event", "ready"}, n : Nat]
    \cup {Hello, Reconnect, Ack, Invalid(TRUE), Invalid(FALSE)}
SessionRows == [pc : {"none", "idle", "turn", "posted", "wait"}, q : Seq(Nat), cur : Nat,
                asked : BOOLEAN]

\* Types; the keys a table resolves to are left open.
Typed ==
  /\ log \in Seq([user : Users, chat : Chats, kind : {"text", "ctrl"}])
  /\ sent \in Nat /\ serving \in BOOLEAN /\ seq \in Nat
  /\ inbox \in Seq(Frames) /\ handled \in Seq(Nat)
  /\ loop \in [pc : Where, ev : Nat, key : {loop.key}]
  /\ pending \in [Chats -> Keys \cup {NoKey}]
  /\ sess \in [Keys -> SessionRows]
  /\ fresh \subseteq Nat

\* The frames that carry a sequence: events, and the READY they follow.
Numbered(f) == f.op \in {"event", "ready"}
None(s) == \A i \in DOMAIN s : ~Numbered(s[i])
First(s, i) ==
  i \in DOMAIN s /\ Numbered(s[i]) /\ \A l \in DOMAIN s : l < i => ~Numbered(s[l])
Final(s, i) ==
  i \in DOMAIN s /\ Numbered(s[i]) /\ \A l \in DOMAIN s : i < l => ~Numbered(s[l])
Adjacent(s, i, j) ==
  /\ i \in DOMAIN s /\ j \in DOMAIN s /\ i < j /\ Numbered(s[i]) /\ Numbered(s[j])
  /\ \A l \in DOMAIN s : i < l /\ l < j => ~Numbered(s[l])

LastSeen == IF handled = <<>> THEN 0 ELSE handled[Len(handled)]
OnLine == loop.pc \in {"live", "send", "ctrl"}

\* A socket is there only between Connect and Leave, and serves once it is initialized.
SocketSound ==
  /\ loop.pc \in {"start", "sleep", "ended", "failed"} => sock = "none" /\ inbox = <<>>
  /\ loop.pc \in {"hello", "init"} => ~serving /\ None(inbox)
  /\ (OnLine => resume) /\ (beating => OnLine)
  /\ \A i \in DOMAIN inbox : inbox[i].op = "hello" => loop.pc = "hello" /\ i = 1

\* The numbered frames under way are consecutive; in a resumed or running session the
\* first of them follows seq, in a new one it is READY; the last is the server's last.
InboxInOrder ==
  /\ \A i, j \in DOMAIN inbox :
       Adjacent(inbox, i, j) => inbox[j].op = "event" /\ inbox[j].n = inbox[i].n + 1
  /\ \A i \in DOMAIN inbox :
       First(inbox, i) => IF loop.pc = "ready" THEN inbox[i].op = "ready"
                          ELSE inbox[i].op = "event" /\ inbox[i].n = seq + 1
  /\ sock = "open" /\ serving =>
       /\ None(inbox) => OnLine /\ sent = seq
       /\ \A i \in DOMAIN inbox : Final(inbox, i) => inbox[i].n = sent

\* No number is beyond the log, and none that a session starts from is behind what was
\* handled: it is the last event handled, or the beginning of a new Discord session.
UnderWaySound ==
  /\ \A i \in DOMAIN inbox : Numbered(inbox[i]) => inbox[i].n <= Len(log)
  /\ \A i \in DOMAIN inbox :
       First(inbox, i) /\ inbox[i].op = "ready" => inbox[i].n \in fresh /\ LastSeen <= inbox[i].n

SeqSound ==
  /\ sent <= Len(log) /\ seq <= Len(log) /\ LastSeen <= Len(log)
  /\ resume => LastSeen <= seq /\ seq \in {LastSeen} \cup fresh

\* What sessions hold was handled; a question is asked by a turn of the chat that waits.
QuestionsSound ==
  /\ loop.pc \in {"send", "ctrl"} => loop.ev \in 1..LastSeen
  /\ \A k \in Keys : \A i \in DOMAIN sess[k].q : sess[k].q[i] \in 1..LastSeen
  /\ \A k \in Keys : sess[k].pc \in {"turn", "posted", "wait"} => sess[k].cur \in 1..LastSeen
  /\ \A c \in Chats : pending[c] # NoKey =>
       sess[pending[c]].pc = "wait" /\ log[sess[pending[c]].cur].chat = c
  /\ \A a \in answers : a.by \in 1..LastSeen /\ a.turn \in 1..LastSeen

GatewayInv ==
  /\ Typed /\ SocketSound /\ InboxInOrder /\ UnderWaySound /\ SeqSound
  /\ QuestionsSound /\ EventsOnce /\ AnsweredInChat

-----------------------------------------------------------------------------
(* The inbox.                                                              *)

LEMMA AppendPlain ==
  ASSUME NEW s \in Seq(Frames), NEW f \in Frames, ~Numbered(f)
  PROVE  LET t == Append(s, f) IN
         /\ t \in Seq(Frames) /\ \A i \in DOMAIN s : i \in DOMAIN t /\ t[i] = s[i]
         /\ \A i \in DOMAIN t : Numbered(t[i]) => i \in DOMAIN s
         /\ None(t) => None(s)
         /\ \A i \in DOMAIN t : First(t, i) => First(s, i)
         /\ \A i \in DOMAIN t : Final(t, i) => Final(s, i)
         /\ \A i, j \in DOMAIN t : Adjacent(t, i, j) => Adjacent(s, i, j)
<1> DEFINE t == Append(s, f)
<1>1. t \in Seq(Frames) /\ Len(t) = Len(s) + 1 /\ DOMAIN t = 1..(Len(s) + 1)
      /\ DOMAIN s = 1..Len(s) /\ Len(s) \in Nat
  BY AppendProperties, LenProperties
<1>2. \A i \in DOMAIN s : i \in DOMAIN t /\ t[i] = s[i]
  BY <1>1, AppendProperties
<1>3. \A i \in DOMAIN t : i \in DOMAIN s \/ t[i] = f
  BY <1>1, AppendProperties
<1> HIDE DEF t
<1>4. \A i \in DOMAIN t : Numbered(t[i]) => i \in DOMAIN s
  BY <1>3
<1>5. None(t) => None(s)
  BY <1>2 DEF None
<1>6. \A i \in DOMAIN t : First(t, i) => First(s, i)
  BY <1>2, <1>4 DEF First
<1>7. \A i \in DOMAIN t : Final(t, i) => Final(s, i)
  BY <1>2, <1>4 DEF Final
<1>8. \A i, j \in DOMAIN t : Adjacent(t, i, j) => Adjacent(s, i, j)
  BY <1>2, <1>4 DEF Adjacent
<1> QED
  BY <1>1, <1>2, <1>4, <1>5, <1>6, <1>7, <1>8 DEF t

LEMMA NonePlain ==
  ASSUME NEW s \in Seq(Frames), NEW f \in Frames, ~Numbered(f), None(s)
  PROVE  None(Append(s, f))
  BY AppendPlain DEF None

LEMMA AppendNumbered ==
  ASSUME NEW s \in Seq(Frames), NEW f \in Frames, Numbered(f)
  PROVE  LET t == Append(s, f)
             n == Len(s) + 1 IN
         /\ t \in Seq(Frames) /\ n \in DOMAIN t /\ t[n] = f
         /\ \A i \in DOMAIN s : i \in DOMAIN t /\ t[i] = s[i]
         /\ \A i \in DOMAIN t : i \in DOMAIN s \/ i = n
         /\ ~None(t)
         /\ \A i \in DOMAIN t : First(t, i) => First(s, i) \/ (i = n /\ None(s))
         /\ \A i \in DOMAIN t : Final(t, i) => i = n
         /\ \A i, j \in DOMAIN t :
              Adjacent(t, i, j) => Adjacent(s, i, j) \/ (j = n /\ Final(s, i))
<1> DEFINE t == Append(s, f)
           n == Len(s) + 1
<1>1. t \in Seq(Frames) /\ Len(t) = Len(s) + 1 /\ DOMAIN t = 1..(Len(s) + 1)
      /\ DOMAIN s = 1..Len(s) /\ Len(s) \in Nat
  BY AppendProperties, LenProperties
<1>2. n \in DOMAIN t /\ t[n] = f /\ \A i \in DOMAIN s : i \in DOMAIN t /\ t[i] = s[i]
  BY <1>1, AppendProperties
<1>3. \A i \in DOMAIN t : i \in DOMAIN s \/ i = n
  BY <1>1
<1>4. \A i \in DOMAIN s : i \in Nat /\ i < n
  BY <1>1
<1>5. n \in Nat /\ n \notin DOMAIN s
  BY <1>1
<1> HIDE DEF t, n
<1>6. ~None(t)
  BY <1>2 DEF None
<1>7. \A i \in DOMAIN t : First(t, i) => First(s, i) \/ (i = n /\ None(s))
  BY <1>2, <1>3, <1>4 DEF First, None
<1>8. \A i \in DOMAIN t : Final(t, i) => i = n
  BY <1>2, <1>3, <1>4 DEF Final
<1>9. ASSUME NEW i \in DOMAIN t, NEW j \in DOMAIN t, Adjacent(t, i, j)
      PROVE  Adjacent(s, i, j) \/ (j = n /\ Final(s, i))
  <2>1. i \in DOMAIN s
    BY <1>2, <1>3, <1>4, <1>5, <1>9 DEF Adjacent
  <2>2. CASE j \in DOMAIN s
    BY <1>2, <1>9, <2>1, <2>2 DEF Adjacent
  <2>3. CASE j = n
    BY <1>2, <1>4, <1>9, <2>1, <2>3 DEF Adjacent, Final
  <2> QED
    BY <1>3, <2>2, <2>3
<1> QED
  BY <1>1, <1>2, <1>3, <1>6, <1>7, <1>8, <1>9 DEF t, n

LEMMA TailFrames ==
  ASSUME NEW s \in Seq(Frames), s # <<>>
  PROVE  LET t == Tail(s) IN
         /\ t \in Seq(Frames) /\ Head(s) = s[1] /\ 1 \in DOMAIN s /\ Head(s) \in Frames
         /\ \A i \in DOMAIN t : i \in Nat /\ i + 1 \in DOMAIN s /\ t[i] = s[i + 1]
         /\ None(t) => None(s) \/ Final(s, 1)
         /\ \A i \in DOMAIN t :
              First(t, i) => IF Numbered(s[1]) THEN Adjacent(s, 1, i + 1) ELSE First(s, i + 1)
         /\ \A i \in DOMAIN t : Final(t, i) => Final(s, i + 1)
         /\ \A i, j \in DOMAIN t : Adjacent(t, i, j) => Adjacent(s, i + 1, j + 1)
<1> DEFINE t == Tail(s)
<1>1. t \in Seq(Frames) /\ Len(t) = Len(s) - 1 /\ Head(s) = s[1] /\ Head(s) \in Frames
      /\ DOMAIN t = 1..Len(t) /\ DOMAIN s = 1..Len(s) /\ Len(s) \in Nat /\ Len(s) # 0
  BY HeadTailProperties, LenProperties, EmptySeq
<1>2. \A i \in DOMAIN t : i \in Nat /\ i >= 1 /\ i + 1 \in DOMAIN s /\ t[i] = s[i + 1]
  BY <1>1, HeadTailProperties
<1>3. 1 \in DOMAIN s /\ \A i \in DOMAIN s : i \in Nat /\ (i = 1 \/ (i - 1 \in DOMAIN t /\ i > 1))
  BY <1>1
<1>4. \A i \in DOMAIN s : i # 1 => t[i - 1] = s[i]
  BY <1>2, <1>3
<1> HIDE DEF t
<1>5. None(t) => None(s) \/ Final(s, 1)
  BY <1>3, <1>4 DEF None, Final
<1>6. ASSUME NEW i \in DOMAIN t, First(t, i)
      PROVE  IF Numbered(s[1]) THEN Adjacent(s, 1, i + 1) ELSE First(s, i + 1)
  <2>1. i + 1 \in DOMAIN s /\ Numbered(s[i + 1]) /\ i + 1 > 1 /\ i \in Nat
    BY <1>2, <1>6 DEF First
  <2>2. ASSUME NEW l \in DOMAIN s, l # 1, l < i + 1
        PROVE  ~Numbered(s[l])
    <3>1. l - 1 \in DOMAIN t /\ l - 1 < i /\ t[l - 1] = s[l]
      BY <1>3, <1>4, <2>1, <2>2
    <3> QED
      BY <1>6, <3>1 DEF First
  <2> QED
    BY <1>3, <2>1, <2>2 DEF First, Adjacent
<1>7. ASSUME NEW i \in DOMAIN t, Final(t, i)
      PROVE  Final(s, i + 1)
  <2>1. i + 1 \in DOMAIN s /\ Numbered(s[i + 1]) /\ i >= 1 /\ i \in Nat
    BY <1>2, <1>7 DEF Final
  <2>2. ASSUME NEW l \in DOMAIN s, i + 1 < l
        PROVE  ~Numbered(s[l])
    <3>1. l - 1 \in DOMAIN t /\ i < l - 1 /\ t[l - 1] = s[l]
      BY <1>3, <1>4, <2>1, <2>2
    <3> QED
      BY <1>7, <3>1 DEF Final
  <2> QED
    BY <2>1, <2>2 DEF Final
<1>8. ASSUME NEW i \in DOMAIN t, NEW j \in DOMAIN t, Adjacent(t, i, j)
      PROVE  Adjacent(s, i + 1, j + 1)
  <2>1. /\ i + 1 \in DOMAIN s /\ j + 1 \in DOMAIN s /\ i \in Nat /\ j \in Nat /\ i < j /\ i >= 1
        /\ Numbered(s[i + 1]) /\ Numbered(s[j + 1])
    BY <1>2, <1>8 DEF Adjacent
  <2>2. ASSUME NEW l \in DOMAIN s, i + 1 < l, l < j + 1
        PROVE  ~Numbered(s[l])
    <3>1. l - 1 \in DOMAIN t /\ i < l - 1 /\ l - 1 < j /\ t[l - 1] = s[l]
      BY <1>3, <1>4, <2>1, <2>2
    <3> QED
      BY <1>8, <3>1 DEF Adjacent
  <2> QED
    BY <2>1, <2>2 DEF Adjacent
<1> QED
  BY <1>1, <1>2, <1>3, <1>5, <1>6, <1>7, <1>8 DEF t

-----------------------------------------------------------------------------
(* Types.                                                                  *)

\* What the loop does with an event it reads.
Handles(e) == Answer(e) \/ Replies(e) \/ Command(e) \/ Dispatch(e)

\* Steps that leave the socket, the resume state and the history alone.
Elsewhere ==
  \/ \E k \in Keys : TurnEnds(k) \/ Ask(k) \/ Register(k) \/ Resumes(k) \/ TurnPanics(k)
  \/ \E b \in Admin : SetBinding(b)
  \/ \E i \in DOMAIN table : RemoveBinding(table[i])

\* What becomes of a connection whose heartbeat was not answered.
Silence == Tick \/ AnswersClose \/ GivesUp

LEMMA NextSteps ==
  ASSUME [Next]_vars
  PROVE  \/ \E u \in Users, c \in Chats, kind \in {"text", "ctrl"} :
              Post([user |-> u, chat |-> c, kind |-> kind])
         \/ Forward \/ Acknowledge \/ Fault \/ ConnectFails \/ Connect \/ Wake \/ ReadHello
         \/ Resume \/ Identify \/ InitFails \/ ReadReady \/ EndsUnready \/ Ends
         \/ ReceiveOther \/ Send \/ (\E i \in DOMAIN log : Handles(log[i])) \/ Silence \/ Stop
         \/ (\E k \in Keys : Serve(k)) \/ Elsewhere \/ UNCHANGED vars
  BY DEF Next, LoopStep, SessionStep, Handles, Elsewhere, Silence

LEMMA FramesTyped ==
  /\ <<>> \in Seq(Frames) /\ <<Hello>> \in Seq(Frames)
  /\ Hello \in Frames /\ Reconnect \in Frames /\ Ack \in Frames
  /\ \A r \in BOOLEAN : Invalid(r) \in Frames /\ ~Numbered(Invalid(r))
  /\ \A n \in Nat : Event(n) \in Frames /\ Frame("ready", n) \in Frames
  /\ ~Numbered(Hello) /\ ~Numbered(Reconnect) /\ ~Numbered(Ack)
  /\ \A n \in Nat : Numbered(Event(n)) /\ Numbered(Frame("ready", n))
  BY DEF Hello, Reconnect, Ack, Invalid, Event, Frame, Frames, Numbered

LEMMA FrameKinds ==
  ASSUME NEW f \in Frames
  PROVE  /\ f.n \in Nat /\ (Numbered(f) => f.op \in {"event", "ready"})
         /\ \/ f.op \in {"event", "ready", "reconnect", "hello"}
            \/ f \in {Invalid(TRUE), Invalid(FALSE)} /\ f.op = "invalid"
            \/ f = Ack /\ f.op = "ack"
  BY DEF Frames, Hello, Reconnect, Ack, Invalid, Frame, Numbered

LEMMA KindsDiffer ==
  /\ Invalid(TRUE) # Invalid(FALSE) /\ Ack # Invalid(TRUE) /\ Ack # Invalid(FALSE)
  /\ Ack.op = "ack" /\ Invalid(TRUE).op = "invalid" /\ Invalid(FALSE).op = "invalid"
  BY DEF Ack, Invalid, Frame

LEMMA OtherKinds ==
  ASSUME Typed, SocketSound, InboxInOrder, ReceiveOther
  PROVE  \/ Head(inbox).op = "reconnect" \/ Head(inbox) \in {Invalid(TRUE), Invalid(FALSE)}
         \/ Head(inbox) = Ack
<1>1. 1 \in DOMAIN inbox /\ Head(inbox) = inbox[1] /\ Head(inbox) \in Frames
  BY TailFrames DEF Typed, ReceiveOther
<1>2. Head(inbox).op # "hello" /\ Head(inbox).op # "event" /\ loop.pc = "live"
  BY <1>1 DEF SocketSound, ReceiveOther
<1>3. DOMAIN inbox = 1..Len(inbox)
  BY LenProperties DEF Typed
<1>4. Head(inbox).op # "ready"
  BY <1>1, <1>2, <1>3 DEF InboxInOrder, First, Numbered
<1> QED
  BY <1>1, <1>2, <1>4, FrameKinds

LEMMA RowsStep ==
  ASSUME sess \in [Keys -> SessionRows], loop.ev \in Nat
  PROVE  /\ \A k \in Keys : \/ TurnEnds(k) \/ Ask(k) \/ Register(k) \/ Resumes(k) \/ Serve(k)
                            \/ TurnPanics(k)
              => sess' \in [Keys -> SessionRows]
         /\ \A e : Handles(e) => sess' \in [Keys -> SessionRows]
         /\ Send => sess' \in [Keys -> SessionRows]
<1>1. ASSUME NEW k \in Keys, TurnEnds(k) PROVE sess' \in [Keys -> SessionRows]
  BY <1>1, ZenonT(60) DEF TurnEnds, SessionRows
<1>2. ASSUME NEW k \in Keys, Ask(k) PROVE sess' \in [Keys -> SessionRows]
  BY <1>2, ZenonT(60) DEF Ask, SessionRows
<1>3. ASSUME NEW k \in Keys, Register(k) PROVE sess' \in [Keys -> SessionRows]
  BY <1>3 DEF Register, SessionRows
<1>4. ASSUME NEW k \in Keys, Resumes(k) PROVE sess' \in [Keys -> SessionRows]
  BY <1>4 DEF Resumes, SessionRows
<1>5. ASSUME NEW k \in Keys, Serve(k) PROVE sess' \in [Keys -> SessionRows]
  <2>1. sess[k].q \in Seq(Nat) /\ sess[k].q # <<>>
    BY <1>5 DEF Serve, SessionRows
  <2>2. Head(sess[k].q) \in Nat /\ Tail(sess[k].q) \in Seq(Nat)
    BY <2>1, HeadTailProperties
  <2>3. CASE log[Head(sess[k].q)].kind = "ctrl"
    BY <1>5, <2>2, <2>3 DEF Serve, SessionRows
  <2>4. CASE log[Head(sess[k].q)].kind # "ctrl"
    <3> DEFINE r == [pc |-> "turn", q |-> Tail(sess[k].q), cur |-> Head(sess[k].q),
                     asked |-> FALSE]
    <3>1. sess' = [sess EXCEPT ![k] = r]
      BY <1>5, <2>4 DEF Serve, SessionRows
    <3>2. r \in SessionRows
      BY <2>2 DEF SessionRows
    <3> HIDE DEF r
    <3> QED
      BY <3>1, <3>2
  <2> QED
    BY <2>3, <2>4
<1>6. ASSUME NEW e, Handles(e) PROVE sess' \in [Keys -> SessionRows]
  <2>1. CASE Dispatch(e)
    BY <2>1, ZenonT(60) DEF Dispatch, SessionRows
  <2>2. CASE UNCHANGED sess
    BY <2>2
  <2> QED
    BY <1>6, <2>1, <2>2, Zenon DEF Handles, Answer, Replies, Command
<1>7. ASSUME Send PROVE sess' \in [Keys -> SessionRows]
  <2>1. CASE loop.key \in Keys
    <3>1. Append(sess[loop.key].q, loop.ev) \in Seq(Nat)
      BY <2>1, AppendProperties DEF SessionRows
    <3> QED
      BY <1>7, <3>1 DEF Send, SessionRows
  <2>2. CASE loop.key \notin Keys
    BY <1>7, <2>2 DEF Send
  <2> QED
    BY <2>1, <2>2
<1>8. ASSUME NEW k \in Keys, TurnPanics(k) PROVE sess' \in [Keys -> SessionRows]
  <2> DEFINE r == [pc |-> "none", q |-> <<>>, cur |-> 0, asked |-> FALSE]
  <2>1. sess' = [sess EXCEPT ![k] = r]
    BY <1>8 DEF TurnPanics
  <2>2. r \in SessionRows
    BY EmptySeq DEF SessionRows
  <2> HIDE DEF r
  <2> QED
    BY <2>1, <2>2
<1> QED
  BY <1>1, <1>2, <1>3, <1>4, <1>5, <1>6, <1>7, <1>8

LEMMA TypedStep ==
  ASSUME Typed, SocketSound, InboxInOrder, [Next]_vars
  PROVE  Typed'
<1> USE DEF Typed, Where, Go, Leave, Clear, Start, server, link, memory, past
<1>0. \A t \in Seq(Frames) : \A f \in Frames : Append(t, f) \in Seq(Frames)
  BY AppendProperties
<1>1. ASSUME NEW u \in Users, NEW c \in Chats, NEW kind \in {"text", "ctrl"},
             Post([user |-> u, chat |-> c, kind |-> kind])
      PROVE  Typed'
  BY <1>1, AppendProperties DEF Post
<1>2. CASE Forward
  BY <1>0, <1>2, FramesTyped DEF Forward
<1>3. CASE Acknowledge
  BY <1>0, <1>3, FramesTyped DEF Acknowledge
<1>4. CASE Fault
  <2>1. /\ Append(inbox, Reconnect) \in Seq(Frames)
        /\ \A r \in BOOLEAN : Append(inbox, Invalid(r)) \in Seq(Frames)
    BY <1>0, FramesTyped
  <2>2. \/ inbox' \in {inbox, <<>>} \/ inbox' = Append(inbox, Reconnect)
        \/ \E r \in BOOLEAN : inbox' = Append(inbox, Invalid(r))
    BY <1>4, Zenon DEF Fault
  <2>3. inbox' \in Seq(Frames)
    BY <2>1, <2>2, FramesTyped
  <2>4. serving' \in BOOLEAN
    BY <1>4 DEF Fault
  <2> QED
    BY <1>4, <2>3, <2>4 DEF Fault
<1>5. CASE ConnectFails
  BY <1>5 DEF ConnectFails
<1>6. CASE Connect
  BY <1>6, FramesTyped DEF Connect
<1>7. CASE Wake
  BY <1>7 DEF Wake
<1>8. CASE ReadHello
  <2>1. inbox' \in Seq(Frames)
    BY <1>8, TailFrames, FramesTyped DEF ReadHello
  <2> QED
    BY <1>8, <2>1 DEF ReadHello
<1>9. CASE Resume
  <2>1. inbox' \in Seq(Frames)
    BY <1>0, <1>9, FramesTyped DEF Resume
  <2>2. serving' \in BOOLEAN /\ sent' \in Nat
    BY <1>9 DEF Resume
  <2> QED
    BY <1>9, <2>1, <2>2 DEF Resume
<1>10. CASE Identify
  <2>1. Len(log) \in Nat
    BY LenProperties
  <2>2. inbox' \in Seq(Frames)
    <3>1. Append(inbox, Invalid(FALSE)) \in Seq(Frames)
      BY <1>0, FramesTyped
    <3>2. Append(inbox, Frame("ready", Len(log))) \in Seq(Frames)
      BY <1>0, <2>1, FramesTyped
    <3> QED
      BY <1>10, <3>1, <3>2 DEF Identify
  <2>3. serving' \in BOOLEAN /\ sent' \in Nat /\ fresh' \subseteq Nat
    BY <1>10, <2>1 DEF Identify
  <2> QED
    BY <1>10, <2>2, <2>3 DEF Identify
<1>11. ASSUME NEW pc \in Where, Leave(pc), Clear \/ UNCHANGED seq,
              UNCHANGED <<log, sent, serving, pending, sess, handled, fresh>>
       PROVE  Typed'
  BY <1>11, FramesTyped
<1>12. CASE InitFails \/ EndsUnready \/ Ends \/ Stop
  BY <1>11, <1>12 DEF InitFails, EndsUnready, Ends, Stop
<1>13. CASE ReadReady
  <2>1. CASE Head(inbox).op = "invalid"
    BY <1>11, <1>13, <2>1 DEF ReadReady
  <2>2. CASE Head(inbox).op # "invalid"
    <3>1. inbox' \in Seq(Frames)
      BY <1>13, <2>2, TailFrames DEF ReadReady
    <3>2. Head(inbox).n \in Nat
      BY <1>13, TailFrames, FrameKinds DEF ReadReady
    <3>3. seq' \in Nat /\ loop' \in [pc : Where, ev : Nat, key : {loop'.key}]
      BY <1>13, <2>2, <3>2 DEF ReadReady
    <3> QED
      BY <1>13, <3>1, <3>3 DEF ReadReady
  <2> QED
    BY <2>1, <2>2
<1>14. CASE ReceiveOther
  <2>1. CASE Head(inbox).op = "reconnect" \/ Head(inbox) \in {Invalid(TRUE), Invalid(FALSE)}
    <3>1. Leave("sleep") /\ (Clear \/ UNCHANGED memory)
      BY <1>14, <2>1, KindsDiffer DEF ReceiveOther
    <3> QED
      BY <1>11, <1>14, <3>1 DEF ReceiveOther
  <2>2. CASE Head(inbox) = Ack
    <3>1. Head(inbox).op = "ack"
      BY <2>2 DEF Ack, Frame
    <3>2. inbox' = Tail(inbox) /\ UNCHANGED <<loop, memory>>
      BY <1>14, <2>2, <3>1, KindsDiffer DEF ReceiveOther
    <3>3. inbox' \in Seq(Frames)
      BY <1>14, <3>2, TailFrames DEF ReceiveOther
    <3> QED
      BY <1>14, <3>2, <3>3 DEF ReceiveOther
  <2> QED
    BY <1>14, <2>1, <2>2, OtherKinds
<1>15. CASE Send
  <2>1. sess' \in [Keys -> SessionRows]
    BY <1>15, RowsStep
  <2> QED
    BY <1>15, <2>1 DEF Send
<1>16. ASSUME NEW j \in DOMAIN log, Handles(log[j])
       PROVE  Typed'
  <2>1. Receives(log[j])
    BY <1>16 DEF Handles, Answer, Replies, Command, Dispatch
  <2>2. Head(inbox) \in Frames /\ Tail(inbox) \in Seq(Frames) /\ Head(inbox).n \in Nat
    BY <2>1, TailFrames, FrameKinds DEF Receives, Readable
  <2>3. /\ inbox' \in Seq(Frames) /\ seq' \in Nat /\ handled' \in Seq(Nat)
        /\ UNCHANGED <<log, sent, serving, fresh>>
    BY <2>1, <2>2, AppendProperties DEF Receives, StoreSequence
  <2>4. loop' \in [pc : Where, ev : Nat, key : {loop'.key}]
    BY <1>16, <2>2 DEF Handles, Answer, Replies, Command, Dispatch
  <2>5. pending' \in [Chats -> Keys \cup {NoKey}]
    BY <1>16 DEF Handles, Answer, Replies, Command, Dispatch
  <2>0. sess' \in [Keys -> SessionRows]
    BY <1>16, RowsStep
  <2> QED
    BY <2>3, <2>4, <2>5, <2>0
<1>17. CASE Silence
  BY <1>17 DEF Silence, Tick, AnswersClose, GivesUp, Breaks
<1>18. ASSUME NEW k \in Keys, Serve(k)
       PROVE  Typed'
  <2>2. sess' \in [Keys -> SessionRows]
    BY <1>18, RowsStep
  <2> QED
    BY <1>18, <2>2 DEF Serve
<1>19. CASE Elsewhere
  <2>2. sess' \in [Keys -> SessionRows]
    BY <1>19, RowsStep DEF Elsewhere, SetBinding, RemoveBinding
  <2>3. pending' \in [Chats -> Keys \cup {NoKey}]
    BY <1>19 DEF Elsewhere, TurnEnds, Ask, Register, Resumes, TurnPanics, SetBinding,
                 RemoveBinding
  <2>4. loop' = loop \/ Go("live")
    BY <1>19 DEF Elsewhere, TurnEnds, Ask, Register, Resumes, TurnPanics, SetBinding,
                 RemoveBinding
  <2>5. loop' \in [pc : Where, ev : Nat, key : {loop'.key}]
    BY <2>4
  <2> QED
    BY <1>19, <2>2, <2>3, <2>5
       DEF Elsewhere, TurnEnds, Ask, Register, Resumes, TurnPanics, SetBinding, RemoveBinding
<1>20. CASE UNCHANGED vars
  BY <1>20 DEF vars
<1> QED
  BY <1>1, <1>2, <1>3, <1>4, <1>5, <1>6, <1>7, <1>8, <1>9, <1>10, <1>11, <1>12, <1>13, <1>14,
     <1>15, <1>16, <1>17, <1>18, <1>19, <1>20, NextSteps

-----------------------------------------------------------------------------
(* The socket and the inbox.                                               *)

\* What Leave leaves: no socket and nothing under way.
LEMMA LeaveSound ==
  ASSUME NEW pc \in {"start", "sleep", "ended", "failed"}, Leave(pc)
  PROVE  SocketSound' /\ InboxInOrder'
<1>1. DOMAIN inbox' = {} /\ sock' = "none" /\ loop'.pc = pc /\ inbox' = <<>> /\ ~beating'
  BY DEF Leave, Go
<1>2. None(inbox)' /\ ~OnLine'
  BY <1>1 DEF None, OnLine
<1>3. SocketSound'
  BY <1>1, <1>2 DEF SocketSound
<1>4. InboxInOrder'
  BY <1>1 DEF InboxInOrder
<1> QED
  BY <1>3, <1>4

\* The kinds of steps of the loop that begin or end a phase do not matter to the inbox.
SamePhase ==
  /\ sock' = "open" /\ serving' => sock = "open" /\ serving /\ sent' = sent /\ (OnLine => OnLine')
  /\ seq' = seq /\ (loop'.pc = "ready" <=> loop.pc = "ready")

LEMMA KeptInbox ==
  ASSUME InboxInOrder, SamePhase, inbox' = inbox
  PROVE  InboxInOrder'
  BY DEF InboxInOrder, SamePhase

LEMMA LostInbox ==
  ASSUME SamePhase, inbox' = <<>>, sock' # "open"
  PROVE  InboxInOrder'
<1>1. DOMAIN inbox' = {}
  OBVIOUS
<1> QED
  BY <1>1 DEF InboxInOrder

LEMMA PlainInbox ==
  ASSUME Typed, InboxInOrder, SamePhase, NEW f \in Frames, ~Numbered(f),
         inbox' = Append(inbox, f)
  PROVE  InboxInOrder'
<1> DEFINE t == Append(inbox, f)
<1> USE DEF SamePhase
<1>1. /\ \A i \in DOMAIN inbox : i \in DOMAIN t /\ t[i] = inbox[i]
      /\ None(t) => None(inbox)
      /\ \A i \in DOMAIN t : First(t, i) => First(inbox, i)
      /\ \A i \in DOMAIN t : Final(t, i) => Final(inbox, i)
      /\ \A i, j \in DOMAIN t : Adjacent(t, i, j) => Adjacent(inbox, i, j)
  BY AppendPlain DEF Typed
<1> HIDE DEF t
<1>2. inbox' = t
  BY DEF t
<1>3. \A i, j \in DOMAIN t : Adjacent(t, i, j) => t[j].op = "event" /\ t[j].n = t[i].n + 1
  BY <1>1 DEF InboxInOrder, Adjacent
<1>4. \A i \in DOMAIN t :
        First(t, i) => IF loop'.pc = "ready" THEN t[i].op = "ready"
                       ELSE t[i].op = "event" /\ t[i].n = seq' + 1
  BY <1>1 DEF InboxInOrder, First
<1>5. sock' = "open" /\ serving' => /\ None(t) => OnLine' /\ sent' = seq'
                                    /\ \A i \in DOMAIN t : Final(t, i) => t[i].n = sent'
  BY <1>1 DEF InboxInOrder, Final
<1> QED
  BY <1>2, <1>3, <1>4, <1>5 DEF InboxInOrder

\* A numbered frame that follows the last one, or the first of a new session.
LEMMA NumberedInbox ==
  ASSUME Typed, InboxInOrder, NEW f \in Frames, Numbered(f), inbox' = Append(inbox, f),
         sent' = f.n, seq' = seq,
         \A i \in DOMAIN inbox : Final(inbox, i) => f.op = "event" /\ f.n = inbox[i].n + 1,
         loop'.pc = "ready" <=> loop.pc = "ready" \/ f.op = "ready",
         IF f.op = "ready" THEN None(inbox)
         ELSE None(inbox) => loop'.pc # "ready" /\ f.op = "event" /\ f.n = seq + 1
  PROVE  InboxInOrder'
<1> DEFINE t == Append(inbox, f)
           n == Len(inbox) + 1
<1>1. /\ n \in DOMAIN t /\ t[n] = f
      /\ \A i \in DOMAIN inbox : i \in DOMAIN t /\ t[i] = inbox[i]
      /\ ~None(t)
      /\ \A i \in DOMAIN t : First(t, i) => First(inbox, i) \/ (i = n /\ None(inbox))
      /\ \A i \in DOMAIN t : Final(t, i) => i = n
      /\ \A i, j \in DOMAIN t :
           Adjacent(t, i, j) => Adjacent(inbox, i, j) \/ (j = n /\ Final(inbox, i))
  BY AppendNumbered DEF Typed
<1> HIDE DEF t, n
<1>2. inbox' = t
  BY DEF t
<1>3. \A i, j \in DOMAIN t : Adjacent(t, i, j) => t[j].op = "event" /\ t[j].n = t[i].n + 1
  BY <1>1 DEF InboxInOrder, Adjacent, Final
<1>4. ASSUME NEW i \in DOMAIN t, First(t, i)
      PROVE  IF loop'.pc = "ready" THEN t[i].op = "ready"
             ELSE t[i].op = "event" /\ t[i].n = seq' + 1
  <2>1. CASE First(inbox, i)
    <3>1. ~None(inbox) /\ i \in DOMAIN inbox /\ t[i] = inbox[i]
      BY <1>1, <2>1 DEF First, None
    <3>2. f.op # "ready"
      BY <3>1
    <3> QED
      BY <2>1, <3>1, <3>2 DEF InboxInOrder
  <2>2. CASE i = n /\ None(inbox)
    BY <1>1, <2>2
  <2> QED
    BY <1>1, <1>4, <2>1, <2>2
<1>5. \A i \in DOMAIN t : Final(t, i) => t[i].n = sent'
  BY <1>1
<1> QED
  BY <1>1, <1>2, <1>3, <1>4, <1>5 DEF InboxInOrder

\* The first frame is taken out: a numbered one becomes seq, any other changes nothing.
LEMMA PoppedInbox ==
  ASSUME Typed, InboxInOrder, inbox # <<>>, inbox' = Tail(inbox),
         UNCHANGED <<sock, serving, sent>>,
         IF Numbered(Head(inbox)) THEN seq' = Head(inbox).n /\ OnLine' ELSE SamePhase
  PROVE  InboxInOrder'
<1> DEFINE t == Tail(inbox)
<1>1. /\ Head(inbox) = inbox[1] /\ 1 \in DOMAIN inbox
      /\ \A i \in DOMAIN t : i \in Nat /\ i + 1 \in DOMAIN inbox /\ t[i] = inbox[i + 1]
      /\ None(t) => None(inbox) \/ Final(inbox, 1)
      /\ \A i \in DOMAIN t :
           First(t, i) => IF Numbered(inbox[1]) THEN Adjacent(inbox, 1, i + 1)
                          ELSE First(inbox, i + 1)
      /\ \A i \in DOMAIN t : Final(t, i) => Final(inbox, i + 1)
      /\ \A i, j \in DOMAIN t : Adjacent(t, i, j) => Adjacent(inbox, i + 1, j + 1)
  BY TailFrames DEF Typed
<1> HIDE DEF t
<1>2. inbox' = t
  BY DEF t
<1>3. \A i, j \in DOMAIN t : Adjacent(t, i, j) => t[j].op = "event" /\ t[j].n = t[i].n + 1
  BY <1>1 DEF InboxInOrder
<1>4. CASE Numbered(Head(inbox))
  <2>1. loop'.pc # "ready"
    BY <1>4 DEF OnLine
  <2>2. \A i \in DOMAIN t : First(t, i) => t[i].op = "event" /\ t[i].n = seq' + 1
    BY <1>1, <1>4 DEF InboxInOrder
  <2>3. sock' = "open" /\ serving' =>
          /\ None(t) => sent' = seq'
          /\ \A i \in DOMAIN t : Final(t, i) => t[i].n = sent'
    BY <1>1, <1>4 DEF InboxInOrder, None
  <2> QED
    BY <1>2, <1>3, <1>4, <2>1, <2>2, <2>3, ZenonT(60) DEF InboxInOrder
<1>5. CASE ~Numbered(Head(inbox))
  <2>1. ~Numbered(inbox[1]) /\ SamePhase
    BY <1>1, <1>5
  <2>2. \A i \in DOMAIN t :
          First(t, i) => IF loop'.pc = "ready" THEN t[i].op = "ready"
                         ELSE t[i].op = "event" /\ t[i].n = seq' + 1
    BY <1>1, <2>1 DEF InboxInOrder, SamePhase
  <2>3. sock' = "open" /\ serving' =>
          /\ None(t) => OnLine' /\ sent' = seq'
          /\ \A i \in DOMAIN t : Final(t, i) => t[i].n = sent'
    BY <1>1, <2>1 DEF InboxInOrder, SamePhase, Final
  <2> QED
    BY <1>2, <1>3, <2>2, <2>3, ZenonT(60) DEF InboxInOrder
<1> QED
  BY <1>4, <1>5

LEMMA HeadFrame ==
  ASSUME Typed, InboxInOrder, inbox # <<>>, Numbered(Head(inbox))
  PROVE  IF loop.pc = "ready" THEN Head(inbox).op = "ready"
         ELSE Head(inbox).op = "event" /\ Head(inbox).n = seq + 1
<1>1. 1 \in DOMAIN inbox /\ Head(inbox) = inbox[1] /\ DOMAIN inbox = 1..Len(inbox)
  BY TailFrames, LenProperties DEF Typed
<1>2. First(inbox, 1)
  BY <1>1 DEF First
<1> QED
  BY <1>1, <1>2 DEF InboxInOrder

LEMMA LeavingSteps ==
  ASSUME Typed, SocketSound, InboxInOrder,
         InitFails \/ EndsUnready \/ Ends \/ Stop \/ (ReadReady /\ Head(inbox).op = "invalid")
         \/ (ReceiveOther /\ Head(inbox) # Ack)
  PROVE  /\ \E pc \in {"start", "sleep", "ended", "failed"} : Leave(pc)
         /\ Clear \/ UNCHANGED memory
         /\ UNCHANGED <<server, past, sess, pending>>
<1>1. CASE InitFails \/ EndsUnready \/ Ends \/ Stop
  BY <1>1 DEF InitFails, EndsUnready, Ends, Stop, past, memory
<1>2. CASE ReadReady /\ Head(inbox).op = "invalid"
  BY <1>2 DEF ReadReady, past
<1>3. CASE ReceiveOther /\ Head(inbox) # Ack
  <2>1. Head(inbox).op = "reconnect" \/ Head(inbox) \in {Invalid(TRUE), Invalid(FALSE)}
    BY <1>3, OtherKinds
  <2> QED
    BY <1>3, <2>1, KindsDiffer DEF ReceiveOther, past
<1> QED
  BY <1>1, <1>2, <1>3

LEMMA AckStep ==
  ASSUME ReceiveOther, Head(inbox) = Ack
  PROVE  /\ loop.pc = "live" /\ inbox # <<>> /\ inbox' = Tail(inbox) /\ ~Numbered(Head(inbox))
         /\ UNCHANGED <<sock, loop, memory, server, past, sess, pending, beating>>
<1>1. Head(inbox).op = "ack"
  BY KindsDiffer
<1> QED
  BY <1>1, KindsDiffer DEF ReceiveOther, Numbered, past, memory, server

LEMMA ReadyStep ==
  ASSUME Typed, InboxInOrder, ReadReady, Head(inbox).op # "invalid"
  PROVE  /\ loop.pc = "ready" /\ inbox # <<>> /\ inbox' = Tail(inbox)
         /\ UNCHANGED <<sock, server, past, sess, pending>>
         /\ IF Numbered(Head(inbox))
            THEN /\ Head(inbox).op = "ready" /\ loop'.pc = "live" /\ seq' = Head(inbox).n
                 /\ resume' = TRUE
            ELSE UNCHANGED <<loop, memory, beating>>
<1>1. Numbered(Head(inbox)) => Head(inbox).op = "ready"
  BY HeadFrame DEF ReadReady
<1> QED
  BY <1>1 DEF ReadReady, Numbered, Go, past, memory, server

LEMMA EventStep ==
  ASSUME Typed, InboxInOrder, NEW e, Handles(e)
  PROVE  /\ loop.pc = "live" /\ inbox # <<>> /\ inbox' = Tail(inbox) /\ e = log[Head(inbox).n]
         /\ Head(inbox).op = "event" /\ Numbered(Head(inbox)) /\ Head(inbox).n = seq + 1
         /\ seq' = Head(inbox).n /\ handled' = Append(handled, Head(inbox).n)
         /\ loop'.pc \in {"live", "send"} /\ (loop'.pc = "send" => loop'.ev = Head(inbox).n)
         /\ UNCHANGED <<sock, server, fresh, resume, beating>>
<1>1. Receives(e) /\ Readable
  BY DEF Handles, Answer, Replies, Command, Dispatch, Receives
<1>2. Head(inbox).op = "event" /\ Numbered(Head(inbox)) /\ loop.pc = "live" /\ inbox # <<>>
  BY <1>1 DEF Readable, Numbered
<1>3. Head(inbox).n = seq + 1
  BY <1>2, HeadFrame
<1>4. loop'.pc \in {"live", "send"} /\ (loop'.pc = "send" => loop'.ev = Head(inbox).n)
  BY <1>2 DEF Handles, Answer, Replies, Command, Dispatch
<1> QED
  BY <1>1, <1>2, <1>3, <1>4 DEF Receives, StoreSequence, server

\* Steps of users and sessions change nothing of the socket, the resume state or what was
\* handled; a command that is answered lets the loop go on.
LEMMA SideSteps ==
  ASSUME Typed,
         \/ \E u \in Users, c \in Chats, kind \in {"text", "ctrl"} :
              Post([user |-> u, chat |-> c, kind |-> kind])
         \/ Send \/ (\E k \in Keys : Serve(k)) \/ Elsewhere \/ UNCHANGED vars
  PROVE  /\ UNCHANGED <<sock, inbox, serving, sent, memory, handled, fresh, beating>>
         /\ loop'.pc = loop.pc \/ (OnLine /\ loop'.pc \in {"live", "ctrl"})
<1>1. ASSUME NEW u \in Users, NEW c \in Chats, NEW kind \in {"text", "ctrl"},
             Post([user |-> u, chat |-> c, kind |-> kind])
      PROVE  UNCHANGED <<sock, inbox, serving, sent, memory, handled, fresh, beating, loop>>
  BY <1>1 DEF Post, link, past, memory
<1>2. CASE Send
  BY <1>2, SMTT(60) DEF Send, Go, link, past, server, memory, OnLine, Typed
<1>3. CASE \E k \in Keys : Serve(k)
  <2>1. PICK k \in Keys : Serve(k)
    BY <1>3, ZenonT(60)
  <2>2. loop' = loop \/ (loop.pc = "ctrl" /\ Go("live"))
    BY <2>1 DEF Serve
  <2>3. loop'.pc = loop.pc \/ (OnLine /\ loop'.pc = "live")
    BY <2>2, SMTT(60) DEF Go, OnLine
  <2> QED
    BY <2>1, <2>3 DEF Serve, link, past, server, memory
<1>4. CASE Elsewhere
  <2>1. UNCHANGED <<sock, inbox, serving, sent, memory, handled, fresh, beating>>
    BY <1>4, ZenonT(60) DEF Elsewhere, TurnEnds, Ask, Register, Resumes, TurnPanics, SetBinding,
                RemoveBinding, link, past, server, memory
  <2>2. loop' = loop \/ (loop.pc \in {"send", "ctrl"} /\ Go("live"))
    BY <1>4 DEF Elsewhere, TurnEnds, Ask, Register, Resumes, TurnPanics, SetBinding,
                RemoveBinding
  <2>3. loop'.pc = loop.pc \/ (OnLine /\ loop'.pc = "live")
    BY <2>2, SMTT(60) DEF Go, OnLine
  <2> QED
    BY <2>1, <2>3, SMTT(60)
<1>5. CASE UNCHANGED vars
  BY <1>5 DEF vars, link, past, server, memory
<1> QED
  BY <1>1, <1>2, <1>3, <1>4, <1>5, ZenonT(60)

LEMMA SocketStep ==
  ASSUME Typed, SocketSound, InboxInOrder, [Next]_vars
  PROVE  SocketSound'
<1> USE DEF Typed
<1>1. CASE \/ \E u \in Users, c \in Chats, kind \in {"text", "ctrl"} :
                Post([user |-> u, chat |-> c, kind |-> kind])
           \/ Send \/ (\E k \in Keys : Serve(k)) \/ Elsewhere \/ UNCHANGED vars
  BY <1>1, SideSteps DEF SocketSound, OnLine, memory
<1>2. ASSUME NEW f \in Frames, f.op # "hello", inbox' = Append(inbox, f),
             loop'.pc = loop.pc \/ loop.pc # "hello"
      PROVE  /\ \A i \in DOMAIN inbox' : inbox'[i].op = "hello" => loop'.pc = "hello" /\ i = 1
             /\ ~Numbered(f) /\ None(inbox) => None(inbox')
  <2>1. \A i \in DOMAIN inbox' : inbox'[i] = f \/ (i \in DOMAIN inbox /\ inbox'[i] = inbox[i])
    BY <1>2, AppendPlain, AppendNumbered
  <2> QED
    BY <1>2, <2>1 DEF SocketSound, None
<1>3. ASSUME inbox # <<>>, inbox' = Tail(inbox)
      PROVE  /\ \A i \in DOMAIN inbox' : inbox'[i].op # "hello"
             /\ None(inbox) => None(inbox')
  <2>1. \A i \in DOMAIN inbox' :
          i \in Nat /\ i >= 1 /\ i + 1 \in DOMAIN inbox /\ inbox'[i] = inbox[i + 1]
    <3>1. inbox' \in Seq(Frames)
      BY <1>3, TailFrames
    <3>2. DOMAIN inbox' = 1..Len(inbox')
      BY <3>1, LenProperties
    <3> QED
      BY <1>3, <3>2, TailFrames
  <2>2. \A i \in DOMAIN inbox' : i + 1 # 1
    BY <2>1
  <2> QED
    BY <2>1, <2>2 DEF SocketSound, None
<1>4. inbox' = <<>> => None(inbox') /\ \A i \in DOMAIN inbox' : inbox'[i].op # "hello"
  <2>1. DOMAIN <<>> = {}
    OBVIOUS
  <2> QED
    BY <2>1 DEF None
<1>5. CASE Forward
  <2>1. Event(sent + 1) \in Frames /\ Event(sent + 1).op = "event"
    <3>1. sent + 1 \in Nat
      OBVIOUS
    <3>2. Event(sent + 1).op = "event"
      BY DEF Event, Frame
    <3> QED
      BY <3>1, <3>2, FramesTyped
  <2> QED
    BY <1>2, <1>5, <2>1 DEF Forward, SocketSound, OnLine, memory, server
<1>6. CASE Acknowledge
  <2>1. ~Numbered(Ack) /\ Ack \in Frames /\ Ack.op = "ack"
    BY FramesTyped, KindsDiffer
  <2> QED
    BY <1>2, <1>6, <2>1 DEF Acknowledge, SocketSound, OnLine, memory, server
<1>7. CASE Fault
  <2>1. UNCHANGED <<loop, resume, beating>> /\ sock # "none" /\ (serving' => serving)
    <3>1. UNCHANGED <<loop, resume, beating>> /\ sock # "none"
      BY <1>7 DEF Fault, memory
    <3>2. serving' => serving
      BY <1>7 DEF Fault
    <3> QED
      BY <3>1, <3>2
  <2>2. \/ inbox' = inbox \/ inbox' = <<>> \/ inbox' = Append(inbox, Reconnect)
        \/ \E r \in BOOLEAN : inbox' = Append(inbox, Invalid(r))
    BY <1>7 DEF Fault
  <2>3. /\ None(inbox) => None(inbox')
        /\ \A i \in DOMAIN inbox' : inbox'[i].op = "hello" => loop'.pc = "hello" /\ i = 1
    <3>1. CASE inbox' = inbox
      BY <2>1, <3>1 DEF SocketSound
    <3>2. CASE inbox' = Append(inbox, Reconnect)
      BY <1>2, <2>1, <3>2, FramesTyped DEF Reconnect, Frame
    <3>3. CASE \E r \in BOOLEAN : inbox' = Append(inbox, Invalid(r))
      BY <1>2, <2>1, <3>3, FramesTyped DEF Invalid, Frame
    <3> QED
      BY <1>4, <2>2, <3>1, <3>2, <3>3
  <2> QED
    BY <2>1, <2>3 DEF SocketSound, OnLine
<1>8. CASE ConnectFails \/ Wake
  BY <1>8 DEF ConnectFails, Wake, Go, SocketSound, OnLine, link, server, memory
<1>9. CASE Connect
  <2>1. \A i \in DOMAIN inbox' : i = 1 /\ inbox'[i] = Hello
    BY <1>9 DEF Connect
  <2>2. None(inbox')
    BY <2>1, FramesTyped DEF None
  <2> QED
    BY <1>9, <2>1, <2>2 DEF Connect, Go, SocketSound, OnLine, memory
<1>10. CASE ReadHello
  <2>1. None(inbox') /\ \A i \in DOMAIN inbox' : inbox'[i].op # "hello"
    BY <1>3, <1>4, <1>10 DEF ReadHello, SocketSound
  <2> QED
    BY <1>10, <2>1 DEF ReadHello, Go, SocketSound, OnLine, memory, server
<1>11. CASE Resume
  <2>1. inbox' = inbox \/ inbox' = Append(inbox, Invalid(FALSE))
    BY <1>11 DEF Resume
  <2>2. \A i \in DOMAIN inbox' : inbox'[i].op # "hello"
    BY <1>2, <1>11, <2>1, FramesTyped, KindsDiffer DEF Resume, Go, SocketSound
  <2> QED
    BY <1>11, <2>2 DEF Resume, Go, SocketSound, OnLine, memory, server
<1>12. CASE Identify
  <2>1. inbox' = inbox \/ \E f \in Frames : f.op # "hello" /\ inbox' = Append(inbox, f)
    <3>1. Frame("ready", Len(log)) \in Frames /\ Frame("ready", Len(log)).op = "ready"
      BY FramesTyped, LenProperties DEF Frame
    <3> QED
      BY <1>12, <3>1, FramesTyped, KindsDiffer DEF Identify
  <2>2. \A i \in DOMAIN inbox' : inbox'[i].op # "hello"
    BY <1>2, <1>12, <2>1 DEF Identify, Go, SocketSound
  <2> QED
    BY <1>12, <2>2 DEF Identify, Go, SocketSound, OnLine, memory, server
<1>13. CASE InitFails \/ EndsUnready \/ Ends \/ Stop
  BY <1>13, LeavingSteps, LeaveSound
<1>14. CASE ReadReady
  <2>1. CASE Head(inbox).op = "invalid"
    BY <1>14, <2>1, LeavingSteps, LeaveSound
  <2>2. CASE Head(inbox).op # "invalid"
    <3>1. \A i \in DOMAIN inbox' : inbox'[i].op # "hello"
      BY <1>3, <1>14, <2>2, ReadyStep
    <3> QED
      BY <1>14, <2>2, <3>1, ReadyStep DEF SocketSound, OnLine, server, memory
  <2> QED
    BY <2>1, <2>2
<1>15. CASE ReceiveOther
  <2>1. CASE Head(inbox) # Ack
    BY <1>15, <2>1, LeavingSteps, LeaveSound
  <2>2. CASE Head(inbox) = Ack
    BY <1>3, <1>15, <2>2, AckStep DEF SocketSound, OnLine, server, memory
  <2> QED
    BY <2>1, <2>2
<1>16. ASSUME NEW j \in DOMAIN log, Handles(log[j])
       PROVE  SocketSound'
  BY <1>3, <1>16, EventStep DEF SocketSound, OnLine, server
<1>17. CASE Silence
  BY <1>17 DEF Silence, Tick, AnswersClose, GivesUp, Breaks, SocketSound, OnLine, server, memory
<1> QED
  BY <1>1, <1>5, <1>6, <1>7, <1>8, <1>9, <1>10, <1>11, <1>12, <1>13, <1>14, <1>15, <1>16,
     <1>17, NextSteps

LEMMA InboxStep ==
  ASSUME Typed, SocketSound, InboxInOrder, [Next]_vars
  PROVE  InboxInOrder'
<1>1. CASE \/ \E u \in Users, c \in Chats, kind \in {"text", "ctrl"} :
                Post([user |-> u, chat |-> c, kind |-> kind])
           \/ Send \/ (\E k \in Keys : Serve(k)) \/ Elsewhere \/ UNCHANGED vars
  BY <1>1, SideSteps, KeptInbox DEF SamePhase, OnLine, memory
<1>2. CASE Forward
  <2>1. /\ Event(sent + 1) \in Frames /\ Event(sent + 1).op = "event"
        /\ Event(sent + 1).n = sent + 1 /\ Numbered(Event(sent + 1))
    <3>1. sent + 1 \in Nat
      BY DEF Typed
    <3>2. Event(sent + 1).op = "event" /\ Event(sent + 1).n = sent + 1
      BY DEF Event, Frame
    <3> QED
      BY <3>1, <3>2, FramesTyped
  <2>2. /\ inbox' = Append(inbox, Event(sent + 1)) /\ sent' = sent + 1 /\ seq' = seq
        /\ loop' = loop /\ sock = "open" /\ serving
    BY <1>2 DEF Forward, memory
  <2>3. \A i \in DOMAIN inbox : Final(inbox, i) => sent = inbox[i].n
    BY <2>2 DEF InboxInOrder
  <2>4. None(inbox) => OnLine /\ sent = seq
    BY <2>2 DEF InboxInOrder
  <2> HIDE DEF Event
  <2> QED
    BY <2>1, <2>2, <2>3, <2>4, NumberedInbox DEF OnLine
<1>3. CASE Acknowledge
  BY <1>3, FramesTyped, PlainInbox DEF Acknowledge, SamePhase, OnLine, memory, server
<1>4. CASE Fault
  <2>1. /\ loop' = loop /\ seq' = seq /\ sent' = sent
        /\ sock' = "open" /\ serving' => sock = "open" /\ serving
    BY <1>4 DEF Fault, memory
  <2>2. SamePhase
    BY <2>1 DEF SamePhase, OnLine
  <2>3. \/ inbox' = inbox \/ (inbox' = <<>> /\ sock' # "open")
        \/ \E f \in Frames : ~Numbered(f) /\ inbox' = Append(inbox, f)
    BY <1>4, FramesTyped DEF Fault
  <2> QED
    BY <2>2, <2>3, KeptInbox, LostInbox, PlainInbox
<1>5. CASE ConnectFails \/ Wake
  BY <1>5, KeptInbox DEF ConnectFails, Wake, Go, SamePhase, SocketSound, OnLine, link, server,
                         memory
<1>6. ASSUME None(inbox'), ~serving'
      PROVE  InboxInOrder'
  BY <1>6 DEF InboxInOrder, None, First, Adjacent
<1>7. CASE Connect
  <2>1. \A i \in DOMAIN inbox' : inbox'[i] = Hello
    BY <1>7 DEF Connect
  <2>2. None(inbox')
    BY <2>1, FramesTyped DEF None
  <2> QED
    BY <1>6, <1>7, <2>2 DEF Connect
<1>8. CASE ReadHello
  <2>1. None(inbox') /\ ~serving'
    BY <1>8, SocketStep DEF ReadHello, Go, SocketSound
  <2> QED
    BY <1>6, <2>1
<1>9. CASE Resume
  <2>1. None(inbox) /\ ~serving /\ loop.pc = "init" /\ loop'.pc = "live" /\ OnLine'
    BY <1>9 DEF Resume, Go, SocketSound, OnLine
  <2>2. inbox' = inbox \/ inbox' = Append(inbox, Invalid(FALSE))
    BY <1>9 DEF Resume
  <2>0. Invalid(FALSE) \in Frames /\ ~Numbered(Invalid(FALSE))
    BY FramesTyped
  <2>3. \A i \in DOMAIN inbox' : ~Numbered(inbox'[i])
    <3>1. CASE inbox' = inbox
      BY <2>1, <3>1 DEF None
    <3>2. CASE inbox' = Append(inbox, Invalid(FALSE))
      BY <2>1, <3>2, <2>0, NonePlain DEF None, Typed
    <3> QED
      BY <2>2, <3>1, <3>2
  <2>4. sock' = "open" /\ serving' => sent' = seq'
    BY <1>9, <2>1 DEF Resume, memory
  <2> QED
    BY <2>1, <2>3, <2>4 DEF InboxInOrder, None, First, Final, Adjacent
<1>10. CASE Identify
  <2>1. None(inbox) /\ ~serving /\ loop.pc = "init" /\ loop'.pc = "ready"
    BY <1>10 DEF Identify, Go, SocketSound
  <2>2. CASE inbox' = Append(inbox, Frame("ready", Len(log))) /\ sent' = Len(log)
    <3> DEFINE f == Frame("ready", Len(log))
    <3>1. f \in Frames /\ Numbered(f) /\ f.op = "ready" /\ f.n = Len(log)
      BY FramesTyped, LenProperties DEF Frame, Typed
    <3> HIDE DEF f
    <3>2. inbox' = Append(inbox, f) /\ sent' = f.n /\ seq' = seq
      BY <1>10, <2>2, <3>1 DEF f, Identify, memory
    <3>3. \A i \in DOMAIN inbox : ~Final(inbox, i)
      BY <2>1 DEF None, Final
    <3> QED
      BY <2>1, <3>1, <3>2, <3>3, NumberedInbox
  <2>0. Invalid(FALSE) \in Frames /\ ~Numbered(Invalid(FALSE))
    BY FramesTyped
  <2>3. CASE (inbox' = inbox \/ inbox' = Append(inbox, Invalid(FALSE))) /\ ~serving'
    <3>1. CASE inbox' = inbox
      BY <1>6, <2>1, <2>3, <3>1 DEF None
    <3>2. CASE inbox' = Append(inbox, Invalid(FALSE))
      <4>1. None(inbox')
        BY <2>1, <2>0, <3>2, NonePlain DEF Typed
      <4> QED
        BY <1>6, <2>3, <4>1
    <3> QED
      BY <2>3, <3>1, <3>2
  <2>4. ~serving' \/ (inbox' = Append(inbox, Frame("ready", Len(log))) /\ sent' = Len(log))
    BY <1>10, <2>1 DEF Identify
  <2>5. \/ inbox' = Append(inbox, Frame("ready", Len(log))) /\ sent' = Len(log)
        \/ inbox' = inbox \/ inbox' = Append(inbox, Invalid(FALSE))
    BY <1>10 DEF Identify
  <2> QED
    BY <2>2, <2>3, <2>4, <2>5
<1>11. CASE InitFails \/ EndsUnready \/ Ends \/ Stop
  BY <1>11, LeavingSteps, LeaveSound
<1>12. CASE ReadReady
  <2>1. CASE Head(inbox).op = "invalid"
    BY <1>12, <2>1, LeavingSteps, LeaveSound
  <2>2. CASE Head(inbox).op # "invalid"
    <3>1. inbox # <<>> /\ inbox' = Tail(inbox) /\ UNCHANGED <<sock, serving, sent>>
      BY <1>12, <2>2, ReadyStep DEF server
    <3>2. IF Numbered(Head(inbox)) THEN seq' = Head(inbox).n /\ OnLine' ELSE SamePhase
      BY <1>12, <2>2, <3>1, ReadyStep DEF SamePhase, OnLine, memory
    <3> QED
      BY <3>1, <3>2, PoppedInbox
  <2> QED
    BY <2>1, <2>2
<1>13. CASE ReceiveOther
  <2>1. CASE Head(inbox) # Ack
    BY <1>13, <2>1, LeavingSteps, LeaveSound
  <2>2. CASE Head(inbox) = Ack
    BY <1>13, <2>2, AckStep, PoppedInbox DEF SamePhase, OnLine, server, memory
  <2> QED
    BY <2>1, <2>2
<1>14. ASSUME NEW j \in DOMAIN log, Handles(log[j])
       PROVE  InboxInOrder'
  BY <1>14, EventStep, PoppedInbox DEF OnLine, server
<1>15. CASE Silence
  <2>1. SamePhase /\ inbox' = inbox
    BY <1>15 DEF Silence, Tick, AnswersClose, GivesUp, Breaks, SamePhase, OnLine, server, memory
  <2> QED
    BY <2>1, KeptInbox
<1> QED
  BY <1>1, <1>2, <1>3, <1>4, <1>5, <1>7, <1>8, <1>9, <1>10, <1>11, <1>12, <1>13, <1>14,
     <1>15, NextSteps

-----------------------------------------------------------------------------
(* The numbers of the events.                                              *)

\* Only an event that is handled changes what was handled.
LEMMA QuietSteps ==
  ASSUME Typed, [Next]_vars, ~(\E i \in DOMAIN log : Handles(log[i]))
  PROVE  handled' = handled /\ LastSeen' = LastSeen /\ answers' = answers /\ fresh \subseteq fresh'
<1>1. handled' = handled /\ answers' = answers
  BY NextSteps, ZenonT(60)
     DEF Post, Forward, Acknowledge, Fault, ConnectFails, Connect, Wake, ReadHello,
       Resume, Identify, InitFails, ReadReady, EndsUnready, Ends, ReceiveOther, Send, Silence,
       Tick, AnswersClose, GivesUp, Breaks, Stop, Serve, Elsewhere, TurnEnds, Ask, Register,
       Resumes, TurnPanics, SetBinding, RemoveBinding, vars, past
<1>2. fresh \subseteq fresh'
  BY NextSteps, ZenonT(60)
     DEF Post, Forward, Acknowledge, Fault, ConnectFails, Connect, Wake, ReadHello,
       Resume, Identify, InitFails, ReadReady, EndsUnready, Ends, ReceiveOther, Send, Silence,
       Tick, AnswersClose, GivesUp, Breaks, Stop, Serve, Elsewhere, TurnEnds, Ask, Register,
       Resumes, TurnPanics, SetBinding, RemoveBinding, vars, past
<1> QED
  BY <1>1, <1>2 DEF LastSeen

LEMMA LogStep ==
  ASSUME Typed, [Next]_vars
  PROVE  /\ Len(log) \in Nat /\ Len(log') \in Nat /\ Len(log) <= Len(log')
         /\ \A i \in 1..Len(log) : log'[i] = log[i]
<1>1. log' = log \/ \E e \in [user : Users, chat : Chats, kind : {"text", "ctrl"}] :
                       log' = Append(log, e)
  <2>1. ASSUME NEW u \in Users, NEW c \in Chats, NEW kind \in {"text", "ctrl"},
               Post([user |-> u, chat |-> c, kind |-> kind])
        PROVE  \E e \in [user : Users, chat : Chats, kind : {"text", "ctrl"}] :
                 log' = Append(log, e)
    BY <2>1 DEF Post
  <2>2. CASE \E i \in DOMAIN log : Handles(log[i])
    BY <2>2 DEF Handles, Answer, Replies, Command, Dispatch, Receives, server
  <2> QED
    BY <2>1, <2>2, NextSteps DEF Forward, Acknowledge, Fault, ConnectFails, Connect, Wake,
       ReadHello, Resume, Identify, InitFails, ReadReady, EndsUnready, Ends, ReceiveOther, Send,
       Silence, Tick, AnswersClose, GivesUp, Breaks, Stop, Serve, Elsewhere, TurnEnds, Ask,
       Register, Resumes, TurnPanics, SetBinding, RemoveBinding, vars, server
<1> QED
  BY <1>1, AppendProperties, LenProperties, SMTT(60) DEF Typed

\* A handled event is the one after seq, and seq is the last handled or the beginning
\* of a session.
LEMMA EventNumber ==
  ASSUME Typed, SocketSound, InboxInOrder, UnderWaySound, SeqSound, NEW e, Handles(e)
  PROVE  LET n == Head(inbox).n IN
         /\ n \in 1..Len(log) /\ LastSeen \in 0..(n - 1) /\ n - 1 \in {LastSeen} \cup fresh
         /\ n - 1 = seq /\ seq' = n /\ resume' /\ resume
         /\ handled' = Append(handled, n) /\ LastSeen' = n
<1>1. 1 \in DOMAIN inbox /\ Head(inbox) = inbox[1]
  BY EventStep, TailFrames DEF Typed
<1>2. /\ Head(inbox).n = seq + 1 /\ seq' = seq + 1 /\ resume' = resume /\ resume
      /\ handled' = Append(handled, seq + 1) /\ seq + 1 <= Len(log)
  BY <1>1, EventStep DEF SocketSound, OnLine, UnderWaySound
<1>3. LastSeen \in Nat /\ Len(log) \in Nat /\ seq \in Nat
  BY LenProperties, ElementOfSeq, EmptySeq DEF LastSeen, Typed
<1>4. Append(handled, seq + 1) # <<>> /\ LastSeen' = seq + 1
  BY <1>2, <1>3, AppendProperties, EmptySeq DEF LastSeen, Typed
<1> QED
  BY <1>2, <1>3, <1>4 DEF SeqSound

LEMMA EventsStep ==
  ASSUME Typed, SocketSound, InboxInOrder, UnderWaySound, SeqSound, EventsOnce, [Next]_vars
  PROVE  EventsOnce'
<1>1. CASE ~(\E i \in DOMAIN log : Handles(log[i]))
  BY <1>1, QuietSteps DEF EventsOnce
<1>2. CASE \E i \in DOMAIN log : Handles(log[i])
  <2> DEFINE n == Head(inbox).n
  <2>1. /\ n \in Nat /\ n > LastSeen /\ n - 1 \in {LastSeen} \cup fresh
        /\ handled' = Append(handled, n) /\ fresh' = fresh /\ LastSeen \in Nat
    BY <1>2, EventNumber, EventStep
  <2> HIDE DEF n
  <2>2. /\ handled' \in Seq(Nat) /\ DOMAIN handled' = 1..(Len(handled) + 1) /\ Len(handled) \in Nat
        /\ DOMAIN handled = 1..Len(handled) /\ handled'[Len(handled) + 1] = n
        /\ \A i \in DOMAIN handled : handled'[i] = handled[i]
    BY <2>1, AppendProperties, LenProperties DEF Typed
  <2>3. LastSeen = IF Len(handled) = 0 THEN 0 ELSE handled[Len(handled)]
    BY EmptySeq DEF LastSeen, Typed
  <2>4. ASSUME NEW i \in DOMAIN handled'
        PROVE  LET before == IF i = 1 THEN 0 ELSE handled'[i - 1]
               IN handled'[i] > before /\ handled'[i] - 1 \in {before} \cup fresh'
    <3>1. CASE i \in DOMAIN handled
      BY <2>1, <2>2, <3>1 DEF EventsOnce
    <3>2. CASE i = Len(handled) + 1
      <4>1. CASE Len(handled) = 0
        BY <2>1, <2>2, <2>3, <3>2, <4>1
      <4>2. CASE Len(handled) # 0
        <5>1. i # 1 /\ i - 1 = Len(handled) /\ Len(handled) \in DOMAIN handled
          BY <2>2, <3>2, <4>2
        <5>2. handled'[i - 1] = LastSeen /\ handled'[i] = n
          BY <2>2, <2>3, <3>2, <4>2, <5>1
        <5> QED
          BY <2>1, <5>1, <5>2
      <4> QED
        BY <4>1, <4>2
    <3> QED
      BY <2>2, <3>1, <3>2
  <2> QED
    BY <2>4 DEF EventsOnce
<1> QED
  BY <1>1, <1>2

\* What becomes of the inbox in the steps that do not leave the session.
LEMMA InboxSteps ==
  ASSUME Typed, SocketSound, InboxInOrder, [Next]_vars
  PROVE  \/ inbox' \in {inbox, <<>>, <<Hello>>}
         \/ \E f \in Frames : ~Numbered(f) /\ inbox' = Append(inbox, f)
         \/ Forward /\ inbox' = Append(inbox, Event(sent + 1))
         \/ /\ Identify /\ inbox' = Append(inbox, Frame("ready", Len(log)))
            /\ fresh' = fresh \cup {Len(log)} /\ sent' = Len(log)
         \/ inbox # <<>> /\ inbox' = Tail(inbox)
<1>1. CASE \/ \E u \in Users, c \in Chats, kind \in {"text", "ctrl"} :
                Post([user |-> u, chat |-> c, kind |-> kind])
           \/ Send \/ (\E k \in Keys : Serve(k)) \/ Elsewhere \/ UNCHANGED vars
  BY <1>1, SideSteps
<1>2. CASE InitFails \/ EndsUnready \/ Ends \/ Stop \/ (ReadReady /\ Head(inbox).op = "invalid")
           \/ (ReceiveOther /\ Head(inbox) # Ack)
  BY <1>2, LeavingSteps DEF Leave
<1>3. CASE ReadReady /\ Head(inbox).op # "invalid"
  BY <1>3, ReadyStep
<1>4. CASE ReceiveOther /\ Head(inbox) = Ack
  BY <1>4, AckStep
<1>5. CASE \E i \in DOMAIN log : Handles(log[i])
  BY <1>5, EventStep
<1>6. CASE Fault
  BY <1>6, FramesTyped DEF Fault
<1>7. CASE Acknowledge \/ Resume
  BY <1>7, FramesTyped DEF Acknowledge, Resume
<1>8. CASE Identify
  BY <1>8, FramesTyped DEF Identify
<1>9. CASE Forward \/ Connect \/ ReadHello \/ ConnectFails \/ Wake \/ Silence
  BY <1>9 DEF Forward, Connect, ReadHello, ConnectFails, Wake, Silence, Tick, AnswersClose,
              GivesUp, Breaks, link
<1> QED
  BY <1>1, <1>2, <1>3, <1>4, <1>5, <1>6, <1>7, <1>8, <1>9, NextSteps

LEMMA UnderWayStep ==
  ASSUME Typed, SocketSound, InboxInOrder, UnderWaySound, SeqSound, [Next]_vars
  PROVE  UnderWaySound'
<1>1. Len(log) \in Nat /\ Len(log') \in Nat /\ Len(log) <= Len(log')
  BY LogStep
<1>2. \A i \in DOMAIN inbox : inbox[i].n \in Nat
  <2>1. \A i \in DOMAIN inbox : inbox[i] \in Frames
    BY ElementOfSeq, LenProperties DEF Typed
  <2> QED
    BY <2>1, FrameKinds
<1>3. CASE inbox' = Tail(inbox) /\ inbox # <<>>
  <2>1. /\ \A i \in DOMAIN inbox' : i + 1 \in DOMAIN inbox /\ inbox'[i] = inbox[i + 1]
        /\ \A i \in DOMAIN inbox' :
             First(inbox', i) => IF Numbered(inbox[1]) THEN Adjacent(inbox, 1, i + 1)
                                 ELSE First(inbox, i + 1)
        /\ 1 \in DOMAIN inbox /\ Head(inbox) = inbox[1]
    BY <1>3, TailFrames DEF Typed
  <2>2. \A i \in DOMAIN inbox' : Numbered(inbox'[i]) => inbox'[i].n <= Len(log')
    BY <1>1, <1>2, <2>1 DEF UnderWaySound
  <2>3. ASSUME NEW i \in DOMAIN inbox', First(inbox', i), inbox'[i].op = "ready"
        PROVE  First(inbox, i + 1) /\ ~Numbered(Head(inbox))
    BY <2>1, <2>3 DEF InboxInOrder
  <2>4. CASE \E i \in DOMAIN log : Handles(log[i])
    BY <2>2, <2>3, <2>4, EventStep DEF UnderWaySound
  <2>5. CASE ~(\E i \in DOMAIN log : Handles(log[i]))
    BY <2>1, <2>2, <2>3, <2>5, QuietSteps DEF UnderWaySound
  <2> QED
    BY <2>4, <2>5
<1>4. CASE ~(inbox' = Tail(inbox) /\ inbox # <<>>)
  <2>1. ~(\E i \in DOMAIN log : Handles(log[i]))
    BY <1>4, EventStep
  <2>2. LastSeen' = LastSeen /\ fresh \subseteq fresh'
    BY <2>1, QuietSteps
  <2>3. CASE inbox' = inbox
    BY <1>1, <1>2, <2>2, <2>3 DEF UnderWaySound
  <2>4. CASE inbox' = <<>>
    <3>1. DOMAIN inbox' = {}
      BY <2>4
    <3> QED
      BY <3>1 DEF UnderWaySound
  <2>5. CASE inbox' = <<Hello>>
    <3>1. \A i \in DOMAIN inbox' : inbox'[i] = Hello
      BY <2>5
    <3> QED
      BY <3>1, FramesTyped DEF UnderWaySound, First
  <2>6. CASE \E f \in Frames : ~Numbered(f) /\ inbox' = Append(inbox, f)
    <3>1. /\ \A i \in DOMAIN inbox' :
               Numbered(inbox'[i]) => i \in DOMAIN inbox /\ inbox'[i] = inbox[i]
          /\ \A i \in DOMAIN inbox' : First(inbox', i) => First(inbox, i)
      BY <2>6, AppendPlain DEF Typed
    <3> QED
      BY <1>1, <1>2, <2>2, <3>1 DEF UnderWaySound, First
  <2>7. ASSUME NEW f \in Frames, Numbered(f), inbox' = Append(inbox, f), f.n <= Len(log'),
               f.op = "ready" => f.n \in fresh' /\ LastSeen <= f.n
        PROVE  UnderWaySound'
    <3> DEFINE n == Len(inbox) + 1
    <3>1. /\ n \in DOMAIN inbox' /\ inbox'[n] = f
          /\ \A i \in DOMAIN inbox' : i = n \/ (i \in DOMAIN inbox /\ inbox'[i] = inbox[i])
          /\ \A i \in DOMAIN inbox' : First(inbox', i) => First(inbox, i) \/ i = n
      BY <2>7, AppendNumbered DEF Typed
    <3> HIDE DEF n
    <3>2. \A i \in DOMAIN inbox' : Numbered(inbox'[i]) => inbox'[i].n <= Len(log')
      BY <1>1, <1>2, <2>7, <3>1 DEF UnderWaySound
    <3>3. ASSUME NEW i \in DOMAIN inbox', First(inbox', i), inbox'[i].op = "ready"
          PROVE  inbox'[i].n \in fresh' /\ LastSeen' <= inbox'[i].n
      <4>1. CASE i = n
        BY <2>2, <2>7, <3>1, <3>3, <4>1
      <4>2. CASE First(inbox, i) /\ i # n
        BY <2>2, <3>1, <3>3, <4>2 DEF UnderWaySound
      <4> QED
        BY <3>1, <3>3, <4>1, <4>2
    <3> QED
      BY <3>2, <3>3 DEF UnderWaySound
  <2>8. CASE Forward /\ inbox' = Append(inbox, Event(sent + 1))
    <3>1. sent + 1 \in Nat /\ sent + 1 <= Len(log')
      BY <1>1, <2>8 DEF Forward, Typed
    <3>2. Event(sent + 1).op = "event" /\ Event(sent + 1).n = sent + 1
      BY DEF Event, Frame
    <3>3. Event(sent + 1) \in Frames /\ Numbered(Event(sent + 1))
      BY <3>1, FramesTyped
    <3> HIDE DEF Event
    <3> QED
      BY <2>7, <2>8, <3>1, <3>2, <3>3
  <2>9. CASE /\ inbox' = Append(inbox, Frame("ready", Len(log)))
             /\ fresh' = fresh \cup {Len(log)}
    <3> DEFINE f == Frame("ready", Len(log))
    <3>1. f \in Frames /\ Numbered(f) /\ f.n = Len(log)
      BY <1>1, FramesTyped DEF Frame
    <3> HIDE DEF f
    <3>2. inbox' = Append(inbox, f) /\ Len(log) \in fresh'
      BY <2>9 DEF f
    <3> QED
      BY <1>1, <2>7, <3>1, <3>2 DEF SeqSound
  <2> QED
    BY <1>4, <2>3, <2>4, <2>5, <2>6, <2>8, <2>9, InboxSteps
<1> QED
  BY <1>3, <1>4

LEMMA SeqStep ==
  ASSUME Typed, SocketSound, InboxInOrder, UnderWaySound, SeqSound, [Next]_vars
  PROVE  SeqSound'
<1>1. Len(log) \in Nat /\ Len(log') \in Nat /\ Len(log) <= Len(log') /\ LastSeen \in Nat
      /\ sent \in Nat /\ seq \in Nat
  BY LogStep, LenProperties, ElementOfSeq, EmptySeq DEF LastSeen, Typed
<1>2. CASE \E i \in DOMAIN log : Handles(log[i])
  <2>1. UNCHANGED <<sent, log, fresh>>
    BY <1>2, EventStep DEF server
  <2>2. LastSeen' = seq' /\ seq' <= Len(log) /\ seq' \in Nat
    BY <1>1, <1>2, EventNumber
  <2> QED
    BY <1>1, <2>1, <2>2 DEF SeqSound
<1>3. CASE ~(\E i \in DOMAIN log : Handles(log[i]))
  <2>1. LastSeen' = LastSeen /\ fresh \subseteq fresh'
    BY <1>3, QuietSteps
  <2>2. sent' <= Len(log')
    <3>1. CASE UNCHANGED sent
      BY <1>1, <3>1 DEF SeqSound
    <3>2. CASE Forward \/ Resume \/ Identify
      <4>1. sent' \in {sent, seq, Len(log)} \/ (sent < Len(log) /\ sent' = sent + 1)
        BY <3>2 DEF Forward, Resume, Identify
      <4> QED
        BY <1>1, <4>1 DEF SeqSound
    <3>3. CASE ReceiveOther \/ ReadReady
      BY <3>1, <3>3 DEF ReceiveOther, ReadReady, server
    <3>4. CASE ~(Forward \/ Resume \/ Identify \/ ReceiveOther \/ ReadReady)
      BY <1>3, <3>1, <3>4, NextSteps DEF Post, Acknowledge, Fault, ConnectFails, Connect, Wake,
         ReadHello, InitFails, EndsUnready, Ends, Send, Silence, Tick, AnswersClose, GivesUp,
         Breaks, Stop, Serve, Elsewhere, TurnEnds, Ask, Register, Resumes, TurnPanics,
         SetBinding, RemoveBinding, vars, server
    <3> QED
      BY <3>2, <3>3, <3>4
  <2>3. CASE resume' = FALSE /\ seq' = 0
    BY <1>1, <2>1, <2>2, <2>3 DEF SeqSound
  <2>4. CASE UNCHANGED memory
    BY <1>1, <2>1, <2>2, <2>4 DEF SeqSound, memory
  <2>5. CASE ReadReady /\ Head(inbox).op = "ready"
    <3>1. First(inbox, 1) /\ Head(inbox) = inbox[1] /\ 1 \in DOMAIN inbox
      <4>1. 1 \in DOMAIN inbox /\ Head(inbox) = inbox[1] /\ DOMAIN inbox = 1..Len(inbox)
        BY <2>5, TailFrames, LenProperties DEF Typed, ReadReady
      <4> QED
        BY <2>5, <4>1 DEF First, Numbered
    <3>2. Head(inbox).n \in fresh /\ LastSeen <= Head(inbox).n /\ Head(inbox).n <= Len(log)
      BY <2>5, <3>1 DEF UnderWaySound, Numbered
    <3>3. seq' = Head(inbox).n /\ Head(inbox).n \in Nat
      BY <2>5, <3>1, ReadyStep, FrameKinds, TailFrames DEF Numbered, Typed, ReadReady
    <3> QED
      BY <1>1, <2>1, <2>2, <3>2, <3>3 DEF SeqSound
  <2>6. CASE (ReadReady \/ ReceiveOther) /\ ~(ReadReady /\ Head(inbox).op = "ready")
    <3>1. CASE ReceiveOther /\ Head(inbox) = Ack
      BY <2>4, <3>1, AckStep
    <3>2. CASE (ReceiveOther /\ Head(inbox) # Ack) \/ (ReadReady /\ Head(inbox).op = "invalid")
      BY <2>3, <2>4, <3>2, LeavingSteps DEF Clear
    <3>3. CASE ReadReady /\ Head(inbox).op \notin {"invalid", "ready"}
      BY <2>4, <2>6, <3>3, ReadyStep
    <3> QED
      BY <2>6, <3>1, <3>2, <3>3
  <2>7. CASE ~(ReadReady \/ ReceiveOther)
    <3>1. (resume' = FALSE /\ seq' = 0) \/ UNCHANGED memory
      BY <1>3, <2>7, NextSteps DEF Post, Acknowledge, Forward, Fault, ConnectFails, Connect,
         Wake, ReadHello, Resume, Identify, InitFails, EndsUnready, Ends, Send, Silence, Tick,
         AnswersClose, GivesUp, Breaks, Stop, Serve, Elsewhere, TurnEnds, Ask, Register,
         Resumes, TurnPanics, SetBinding, RemoveBinding, vars,
         Clear, memory
    <3> QED
      BY <2>3, <2>4, <3>1
  <2> QED
    BY <2>5, <2>6, <2>7
<1> QED
  BY <1>2, <1>3

-----------------------------------------------------------------------------
(* The sessions and their questions.                                       *)

\* The steps that change neither a session, nor a question, nor a wait for a session.
LEMMA LinkSteps ==
  ASSUME Typed, SocketSound, InboxInOrder, [Next]_vars
  PROVE  \/ \E i \in DOMAIN log : Handles(log[i])
         \/ Send
         \/ \E k \in Keys : \/ Serve(k) \/ TurnEnds(k) \/ Ask(k) \/ Register(k) \/ Resumes(k)
                            \/ TurnPanics(k)
         \/ UNCHANGED <<sess, pending>> /\ (loop' = loop \/ loop'.pc \notin {"send", "ctrl"})
<1>1. CASE InitFails \/ EndsUnready \/ Ends \/ Stop \/ (ReadReady /\ Head(inbox).op = "invalid")
           \/ (ReceiveOther /\ Head(inbox) # Ack)
  <2>1. PICK pc \in {"start", "sleep", "ended", "failed"} : Leave(pc)
    BY <1>1, LeavingSteps
  <2>2. loop'.pc = pc
    BY <2>1 DEF Leave, Go
  <2> QED
    BY <1>1, <2>2, LeavingSteps
<1>2. CASE ReadReady /\ Head(inbox).op # "invalid"
  BY <1>2, ReadyStep
<1>3. CASE ReceiveOther /\ Head(inbox) = Ack
  BY <1>3, AckStep
<1>4. CASE \/ \E u \in Users, c \in Chats, kind \in {"text", "ctrl"} :
                Post([user |-> u, chat |-> c, kind |-> kind])
           \/ Forward \/ Acknowledge \/ Fault \/ Silence \/ UNCHANGED vars
           \/ (\E b \in Admin : SetBinding(b)) \/ \E i \in DOMAIN table : RemoveBinding(table[i])
  BY <1>4 DEF Post, Forward, Acknowledge, Fault, Silence, Tick, AnswersClose, GivesUp, Breaks,
              SetBinding, RemoveBinding, vars
<1>5. CASE ConnectFails \/ Connect \/ Wake \/ ReadHello \/ Resume \/ Identify
  <2>1. UNCHANGED <<sess, pending>>
    BY <1>5 DEF ConnectFails, Connect, Wake, ReadHello, Resume, Identify
  <2>2. \E pc \in {"hello", "sleep", "start", "init", "live", "ready"} : Go(pc)
    BY <1>5 DEF ConnectFails, Connect, Wake, ReadHello, Resume, Identify
  <2>3. loop'.pc \notin {"send", "ctrl"}
    BY <2>2 DEF Go
  <2> QED
    BY <2>1, <2>3
<1> QED
  BY <1>1, <1>2, <1>3, <1>4, <1>5, NextSteps DEF Elsewhere

LEMMA SeenGrows ==
  ASSUME Typed, SocketSound, InboxInOrder, UnderWaySound, SeqSound, [Next]_vars
  PROVE  /\ LastSeen \in Nat /\ LastSeen' \in Nat /\ LastSeen <= LastSeen'
         /\ 1..LastSeen \subseteq 1..LastSeen' /\ 1..LastSeen \subseteq 1..Len(log)
         /\ \A i \in 1..LastSeen : log'[i] = log[i]
<1>1. LastSeen \in Nat /\ Len(log) \in Nat /\ LastSeen <= Len(log)
  BY LenProperties, ElementOfSeq, EmptySeq DEF LastSeen, Typed, SeqSound
<1>2. LastSeen' \in Nat /\ LastSeen <= LastSeen'
  <2>1. CASE \E i \in DOMAIN log : Handles(log[i])
    BY <1>1, <2>1, EventNumber
  <2>2. CASE ~(\E i \in DOMAIN log : Handles(log[i]))
    BY <1>1, <2>2, QuietSteps
  <2> QED
    BY <2>1, <2>2
<1>3. \A i \in 1..LastSeen : i \in 1..LastSeen' /\ i \in 1..Len(log)
  BY <1>1, <1>2
<1> QED
  BY <1>1, <1>2, <1>3, LogStep

\* What the steps make of the sessions' fields.
LEMMA HandledRows ==
  ASSUME sess \in [Keys -> SessionRows], NEW e, Handles(e), NEW h \in Keys
  PROVE  /\ sess'[h].q = sess[h].q /\ sess'[h].cur = sess[h].cur
         /\ sess'[h].pc = sess[h].pc \/ (sess[h].pc = "none" /\ sess'[h].pc = "idle")
<1>1. CASE UNCHANGED sess
  BY <1>1
<1>2. CASE Dispatch(e)
  <2> DEFINE k == TurnKey(e)
             pc == IF sess[k].pc = "none" THEN "idle" ELSE sess[k].pc
  <2>1. sess' = [sess EXCEPT ![k].pc = pc]
    BY <1>2 DEF Dispatch
  <2>2. h = k => sess'[h] = [sess[h] EXCEPT !.pc = pc]
    BY <2>1
  <2>3. h # k => sess'[h] = sess[h]
    BY <2>1
  <2>4. DOMAIN sess[h] = {"pc", "q", "cur", "asked"}
    BY DEF SessionRows
  <2>5. h = k => sess'[h].q = sess[h].q /\ sess'[h].cur = sess[h].cur /\ sess'[h].pc = pc
    BY <2>2, <2>4
  <2> QED
    BY <2>3, <2>5
<1> QED
  BY <1>1, <1>2 DEF Handles, Answer, Replies, Command

LEMMA ServedRows ==
  ASSUME sess \in [Keys -> SessionRows], NEW k \in Keys, Serve(k)
  PROVE  /\ sess[k].q # <<>> /\ sess[k].pc = "idle" /\ sess'[k].q = Tail(sess[k].q)
         /\ \A h \in Keys : h # k => sess'[h] = sess[h]
         /\ \/ sess'[k].pc = "idle" /\ sess'[k].cur = sess[k].cur
            \/ sess'[k].pc = "turn" /\ sess'[k].cur = Head(sess[k].q)
<1>1. sess[k].q # <<>> /\ sess[k].pc = "idle"
  BY DEF Serve
<1>2. DOMAIN sess[k] = {"pc", "q", "cur", "asked"}
  BY DEF SessionRows
<1>3. CASE log[Head(sess[k].q)].kind = "ctrl"
  <2>1. sess' = [sess EXCEPT ![k].q = Tail(sess[k].q)]
    BY <1>3 DEF Serve
  <2> QED
    BY <1>1, <1>2, <2>1
<1>4. CASE log[Head(sess[k].q)].kind # "ctrl"
  <2> DEFINE r == [pc |-> "turn", q |-> Tail(sess[k].q), cur |-> Head(sess[k].q),
                   asked |-> FALSE]
  <2>1. sess' = [sess EXCEPT ![k] = r]
    BY <1>4 DEF Serve, SessionRows
  <2> QED
    BY <1>1, <2>1
<1> QED
  BY <1>3, <1>4

LEMMA TurnRows ==
  ASSUME sess \in [Keys -> SessionRows], NEW k \in Keys,
         TurnEnds(k) \/ Ask(k) \/ Register(k) \/ Resumes(k)
  PROVE  /\ \A h \in Keys : h # k => sess'[h] = sess[h]
         /\ sess'[k].q = sess[k].q /\ sess[k].pc \in {"turn", "posted", "wait"}
         /\ sess'[k].pc = "idle" \/ sess'[k].cur = sess[k].cur
         /\ Register(k) => sess'[k].pc = "wait"
         /\ sess'[k].pc \in {"idle", "turn", "posted", "wait"}
<1>1. DOMAIN sess[k] = {"pc", "q", "cur", "asked"}
  BY DEF SessionRows
<1>2. CASE TurnEnds(k)
  BY <1>1, <1>2 DEF TurnEnds, Register
<1>3. CASE Ask(k)
  BY <1>1, <1>3 DEF Ask, Register
<1>4. CASE Register(k)
  BY <1>1, <1>4 DEF Register
<1>5. CASE Resumes(k)
  BY <1>1, <1>5 DEF Resumes, Register
<1> QED
  BY <1>2, <1>3, <1>4, <1>5

LEMMA PanicRows ==
  ASSUME sess \in [Keys -> SessionRows], NEW k \in Keys, TurnPanics(k)
  PROVE  /\ \A h \in Keys : h # k => sess'[h] = sess[h]
         /\ sess[k].pc = "turn" /\ sess'[k].pc = "none" /\ sess'[k].q = <<>>
         /\ pending' = pending /\ (loop' = loop \/ loop'.pc = "live")
  BY DEF TurnPanics, Go

\* What is queued: what the loop sent, an event it had handled.
LEMMA QueuesStep ==
  ASSUME Typed, SocketSound, InboxInOrder, UnderWaySound, SeqSound, QuestionsSound, [Next]_vars
  PROVE  /\ loop'.pc \in {"send", "ctrl"} => loop'.ev \in 1..LastSeen'
         /\ \A k \in Keys : \A i \in DOMAIN sess'[k].q : sess'[k].q[i] \in 1..LastSeen'
<1>1. 1..LastSeen \subseteq 1..LastSeen'
  BY SeenGrows
<1>2. /\ loop.pc \in {"send", "ctrl"} => loop.ev \in 1..LastSeen'
      /\ \A k \in Keys : \A i \in DOMAIN sess[k].q : sess[k].q[i] \in 1..LastSeen'
  BY <1>1 DEF QuestionsSound
<1>3. \A k \in Keys : sess[k].q \in Seq(Nat) /\ DOMAIN sess[k] = {"pc", "q", "cur", "asked"}
  BY DEF Typed, SessionRows
<1>4. CASE UNCHANGED <<sess, pending>> /\ (loop' = loop \/ loop'.pc \notin {"send", "ctrl"})
  BY <1>2, <1>4
<1>5. ASSUME NEW j \in DOMAIN log, Handles(log[j])
      PROVE  /\ loop'.pc \in {"send", "ctrl"} => loop'.ev \in 1..LastSeen'
             /\ \A k \in Keys : sess'[k].q = sess[k].q
  <2>1. LastSeen' = Head(inbox).n /\ Head(inbox).n \in 1..Len(log)
    BY <1>5, EventNumber
  <2>2. LastSeen' \in 1..LastSeen'
    BY <2>1, SeenGrows
  <2>3. loop'.pc \in {"live", "send"} /\ (loop'.pc = "send" => loop'.ev = Head(inbox).n)
    BY <1>5, EventStep
  <2>4. \A k \in Keys : sess'[k].q = sess[k].q
    BY <1>5, HandledRows DEF Typed
  <2> QED
    BY <2>1, <2>2, <2>3, <2>4
<1>6. CASE Send
  <2>1. loop.pc = "send" /\ (loop'.ev = loop.ev \/ loop'.pc = "live")
    BY <1>6 DEF Send, Go, Typed
  <2>2. ASSUME NEW k \in Keys, k = loop.key
        PROVE  \A i \in DOMAIN sess'[k].q : sess'[k].q[i] \in 1..LastSeen'
    <3>1. sess'[k].q = Append(sess[k].q, loop.ev)
      BY <1>3, <1>6, <2>2 DEF Send, Typed
    <3>2. \A i \in DOMAIN sess'[k].q : sess'[k].q[i] = loop.ev
             \/ (i \in DOMAIN sess[k].q /\ sess'[k].q[i] = sess[k].q[i])
      BY <1>3, <3>1, AppendProperties, LenProperties DEF Typed
    <3> QED
      BY <1>2, <2>1, <3>2
  <2>3. \A k \in Keys : k # loop.key => sess'[k].q = sess[k].q
    BY <1>6 DEF Send, Typed
  <2> QED
    BY <1>2, <2>1, <2>2, <2>3
<1>7. ASSUME NEW k \in Keys, Serve(k)
      PROVE  /\ loop'.pc \in {"send", "ctrl"} => loop' = loop
             /\ \A h \in Keys : \A i \in DOMAIN sess'[h].q : sess'[h].q[i] \in 1..LastSeen'
  <2>1. loop' = loop \/ loop'.pc = "live"
    BY <1>7 DEF Serve, Go
  <2>2. sess'[k].q = Tail(sess[k].q) /\ sess[k].q # <<>>
    BY <1>7, ServedRows DEF Typed
  <2>3. \A i \in DOMAIN sess'[k].q : \E j \in DOMAIN sess[k].q : sess'[k].q[i] = sess[k].q[j]
    <3>1. /\ Tail(sess[k].q) \in Seq(Nat) /\ Len(Tail(sess[k].q)) = Len(sess[k].q) - 1
          /\ \A i \in 1..Len(Tail(sess[k].q)) : Tail(sess[k].q)[i] = sess[k].q[i + 1]
      BY <1>3, <2>2, HeadTailProperties
    <3>2. /\ DOMAIN sess[k].q = 1..Len(sess[k].q) /\ Len(sess[k].q) \in Nat
          /\ DOMAIN Tail(sess[k].q) = 1..Len(Tail(sess[k].q))
      BY <1>3, <3>1, LenProperties
    <3>3. \A i \in DOMAIN Tail(sess[k].q) : i + 1 \in DOMAIN sess[k].q
      BY <3>1, <3>2
    <3> QED
      BY <2>2, <3>1, <3>2, <3>3
  <2>4. \A h \in Keys : h # k => sess'[h] = sess[h]
    BY <1>7 DEF Serve, Typed
  <2> QED
    BY <1>2, <2>1, <2>3, <2>4
<1>8. ASSUME NEW k \in Keys, TurnEnds(k) \/ Ask(k) \/ Register(k) \/ Resumes(k)
      PROVE  loop' = loop /\ \A h \in Keys : sess'[h].q = sess[h].q
  <2>1. loop' = loop
    BY <1>8 DEF TurnEnds, Ask, Register, Resumes
  <2>2. \A h \in Keys : sess'[h].q = sess[h].q
    BY <1>8, TurnRows DEF Typed
  <2> QED
    BY <2>1, <2>2
<1>9. ASSUME NEW k \in Keys, TurnPanics(k)
      PROVE  /\ loop'.pc \in {"send", "ctrl"} => loop' = loop
             /\ \A h \in Keys : \A i \in DOMAIN sess'[h].q : sess'[h].q[i] \in 1..LastSeen'
  <2>1. /\ sess'[k].q = <<>> /\ (loop' = loop \/ loop'.pc = "live")
        /\ \A h \in Keys : h # k => sess'[h] = sess[h]
    BY <1>9, PanicRows DEF Typed
  <2>2. DOMAIN sess'[k].q = {}
    BY <2>1
  <2> QED
    BY <1>2, <2>1, <2>2
<1> QED
  BY <1>2, <1>4, <1>5, <1>6, <1>7, <1>8, <1>9, LinkSteps

\* What a turn works on.
LEMMA TurnsStep ==
  ASSUME Typed, SocketSound, InboxInOrder, UnderWaySound, SeqSound, QuestionsSound, [Next]_vars,
         NEW h \in Keys, sess'[h].pc \in {"turn", "posted", "wait"}
  PROVE  sess'[h].cur \in 1..LastSeen'
<1>1. 1..LastSeen \subseteq 1..LastSeen'
  BY SeenGrows
<1>2. CASE sess'[h].cur = sess[h].cur /\ sess[h].pc \in {"turn", "posted", "wait"}
  BY <1>1, <1>2 DEF QuestionsSound
<1>3. CASE UNCHANGED sess
  BY <1>2, <1>3
<1>4. CASE \E i \in DOMAIN log : Handles(log[i])
  BY <1>2, <1>4, HandledRows DEF Typed
<1>5. CASE Send
  <2>1. DOMAIN sess[h] = {"pc", "q", "cur", "asked"}
    BY DEF Typed, SessionRows
  <2>2. sess'[h].cur = sess[h].cur /\ sess'[h].pc = sess[h].pc
    BY <1>5, <2>1 DEF Send, Typed
  <2> QED
    BY <1>2, <2>2
<1>6. ASSUME NEW k \in Keys, Serve(k)
      PROVE  sess'[h].cur \in 1..LastSeen'
  <2>1. CASE h # k
    BY <1>2, <1>6, <2>1, ServedRows DEF Typed
  <2>2. CASE h = k
    <3>1. sess'[k].cur = Head(sess[k].q) /\ sess[k].q # <<>>
      BY <1>6, <2>2, ServedRows DEF Typed
    <3>2. sess[k].q \in Seq(Nat)
      BY DEF Typed, SessionRows
    <3>3. 1 \in DOMAIN sess[k].q /\ Head(sess[k].q) = sess[k].q[1]
      BY <3>1, <3>2, EmptySeq, LenProperties
    <3> QED
      BY <1>1, <2>2, <3>1, <3>3 DEF QuestionsSound
  <2> QED
    BY <2>1, <2>2
<1>7. ASSUME NEW k \in Keys, TurnEnds(k) \/ Ask(k) \/ Register(k) \/ Resumes(k)
      PROVE  sess'[h].cur \in 1..LastSeen'
  <2>1. CASE h # k
    BY <1>2, <1>7, <2>1, TurnRows DEF Typed
  <2>2. CASE h = k
    BY <1>2, <1>7, <2>2, TurnRows DEF Typed
  <2> QED
    BY <2>1, <2>2
<1>8. ASSUME NEW k \in Keys, TurnPanics(k)
      PROVE  sess'[h].cur \in 1..LastSeen'
  <2>1. h # k /\ sess'[h] = sess[h]
    BY <1>8, PanicRows DEF Typed
  <2> QED
    BY <1>2, <2>1
<1> QED
  BY <1>3, <1>4, <1>5, <1>6, <1>7, <1>8, LinkSteps

\* A question of a chat belongs to a turn of that chat that waits.
LEMMA PendingStep ==
  ASSUME Typed, SocketSound, InboxInOrder, UnderWaySound, SeqSound, QuestionsSound, [Next]_vars,
         NEW c \in Chats, pending'[c] # NoKey
  PROVE  sess'[pending'[c]].pc = "wait" /\ log'[sess'[pending'[c]].cur].chat = c
<1> DEFINE k == pending[c]
<1>1. \A i \in 1..LastSeen : log'[i] = log[i]
  BY SeenGrows
<1>2. k # NoKey => k \in Keys /\ sess[k].pc = "wait" /\ sess[k].cur \in 1..LastSeen
                   /\ log[sess[k].cur].chat = c /\ log'[sess[k].cur].chat = c
  BY <1>1 DEF Typed, QuestionsSound
<1>3. CASE k = pending'[c] /\ sess'[k].pc = "wait" /\ sess'[k].cur = sess[k].cur
  BY <1>2, <1>3
<1>4. CASE UNCHANGED <<sess, pending>>
  BY <1>2, <1>3, <1>4
<1>5. ASSUME NEW j \in DOMAIN log, Handles(log[j])
      PROVE  sess'[pending'[c]].pc = "wait" /\ log'[sess'[pending'[c]].cur].chat = c
  <2>1. pending'[c] = pending[c]
    BY <1>5 DEF Handles, Answer, Replies, Command, Dispatch, Typed
  <2> QED
    BY <1>2, <1>3, <1>5, <2>1, HandledRows DEF Typed
<1>6. CASE Send
  <2>1. pending' = pending /\ k \in Keys /\ DOMAIN sess[k] = {"pc", "q", "cur", "asked"}
    BY <1>2, <1>6 DEF Send, Typed, SessionRows
  <2>2. sess'[k].cur = sess[k].cur /\ sess'[k].pc = sess[k].pc
    BY <1>6, <2>1 DEF Send, Typed
  <2> QED
    BY <1>2, <1>3, <2>1, <2>2
<1>7. ASSUME NEW h \in Keys, Serve(h)
      PROVE  sess'[pending'[c]].pc = "wait" /\ log'[sess'[pending'[c]].cur].chat = c
  <2>1. pending' = pending
    BY <1>7 DEF Serve
  <2>2. h # k
    BY <1>2, <1>7, <2>1, ServedRows DEF Typed
  <2> QED
    BY <1>2, <1>3, <1>7, <2>1, <2>2, ServedRows DEF Typed
<1>8. ASSUME NEW h \in Keys, TurnEnds(h) \/ Ask(h) \/ Resumes(h)
      PROVE  sess'[pending'[c]].pc = "wait" /\ log'[sess'[pending'[c]].cur].chat = c
  <2>1. pending' = pending /\ k # NoKey
    BY <1>8 DEF TurnEnds, Ask, Resumes
  <2>2. h # k
    BY <1>2, <1>8, <2>1 DEF TurnEnds, Ask, Resumes
  <2> QED
    BY <1>2, <1>3, <1>8, <2>1, <2>2, TurnRows DEF Typed
<1>9. ASSUME NEW h \in Keys, Register(h)
      PROVE  sess'[pending'[c]].pc = "wait" /\ log'[sess'[pending'[c]].cur].chat = c
  <2>1. /\ pending' = [pending EXCEPT ![log[sess[h].cur].chat] = h] /\ sess[h].pc = "posted"
        /\ log' = log
    BY <1>9 DEF Register, server
  <2>2. CASE c = log[sess[h].cur].chat
    <3>1. pending'[c] = h
      BY <2>1, <2>2 DEF Typed
    <3>2. sess'[h].pc = "wait" /\ sess'[h].cur = sess[h].cur
      BY <1>9, TurnRows DEF Typed
    <3> QED
      BY <2>1, <2>2, <3>1, <3>2
  <2>3. CASE c # log[sess[h].cur].chat
    <3>1. pending'[c] = k
      BY <2>1, <2>3 DEF Typed
    <3>2. h # k
      BY <1>2, <2>1, <3>1
    <3> QED
      BY <1>2, <1>3, <1>9, <3>1, <3>2, TurnRows DEF Typed
  <2> QED
    BY <2>2, <2>3
<1>10. ASSUME NEW h \in Keys, TurnPanics(h)
       PROVE  sess'[pending'[c]].pc = "wait" /\ log'[sess'[pending'[c]].cur].chat = c
  <2>1. pending' = pending /\ k # NoKey /\ sess[h].pc = "turn"
    BY <1>10, PanicRows DEF Typed
  <2>2. h # k
    BY <1>2, <2>1
  <2> QED
    BY <1>2, <1>3, <1>10, <2>1, <2>2, PanicRows DEF Typed
<1> QED
  BY <1>4, <1>5, <1>6, <1>7, <1>8, <1>9, <1>10, LinkSteps

LEMMA AnswersStep ==
  ASSUME Typed, SocketSound, InboxInOrder, UnderWaySound, SeqSound, QuestionsSound, AnsweredInChat,
         [Next]_vars, NEW a \in answers'
  PROVE  /\ a.by \in 1..LastSeen' /\ a.turn \in 1..LastSeen' /\ a.by > a.turn
         /\ log'[a.by].chat = log'[a.turn].chat
<1>1. 1..LastSeen \subseteq 1..LastSeen' /\ \A i \in 1..LastSeen : log'[i] = log[i]
  BY SeenGrows
<1>2. CASE a \in answers
  BY <1>1, <1>2 DEF QuestionsSound, AnsweredInChat
<1>3. CASE a \notin answers
  <2>1. PICK i \in DOMAIN log : Handles(log[i])
    BY <1>3, QuietSteps
  <2> DEFINE e == log[i]
             k == pending[e.chat]
             n == Head(inbox).n
  <2>2. Answer(e)
    BY <1>3, <2>1 DEF Handles, Replies, Command, Dispatch
  <2>3. k # NoKey /\ a = [turn |-> sess[k].cur, by |-> n] /\ e = log[n] /\ log' = log
    BY <1>3, <2>1, <2>2, EventStep DEF Answer, server
  <2>4. /\ n \in 1..Len(log) /\ LastSeen' = n /\ LastSeen \in 0..(n - 1)
    BY <2>1, EventNumber
  <2>5. e \in [user : Users, chat : Chats, kind : {"text", "ctrl"}]
    <3> DEFINE R == [user : Users, chat : Chats, kind : {"text", "ctrl"}]
    <3>1. log \in Seq(R)
      BY DEF Typed
    <3> HIDE DEF R
    <3>2. \A m \in 1..Len(log) : log[m] \in R
      BY <3>1, ElementOfSeq
    <3>3. DOMAIN log = 1..Len(log)
      BY <3>1, LenProperties, SMTT(60)
    <3> QED
      BY <3>2, <3>3 DEF R
  <2>6. sess[k].cur \in 1..LastSeen /\ log[sess[k].cur].chat = e.chat
    <3>1. k \in Keys /\ e.chat \in Chats
      BY <2>3, <2>5 DEF Typed
    <3> QED
      BY <2>3, <3>1 DEF QuestionsSound
  <2> HIDE DEF e, k, n
  <2> QED
    BY <1>1, <2>3, <2>4, <2>6
<1> QED
  BY <1>2, <1>3

LEMMA QuestionsStep ==
  ASSUME Typed, SocketSound, InboxInOrder, UnderWaySound, SeqSound, QuestionsSound, AnsweredInChat,
         [Next]_vars
  PROVE  QuestionsSound' /\ AnsweredInChat'
  BY QueuesStep, TurnsStep, PendingStep, AnswersStep DEF QuestionsSound, AnsweredInChat

-----------------------------------------------------------------------------
(* Theorems.                                                               *)

\* Whatever is lost, resumed or begun again, the numbers under way between Discord and
\* the gateway stay consecutive, and sessions hold only what was handled.
THEOREM GatewayInvInvariant == Spec => []GatewayInv
<1>1. Init => GatewayInv
  <2> SUFFICES ASSUME Init PROVE GatewayInv
    OBVIOUS
  <2>1. DOMAIN <<>> = {} /\ Len(<<>>) = 0
    OBVIOUS
  <2>2. Typed
    <3>1. /\ log \in Seq([user : Users, chat : Chats, kind : {"text", "ctrl"}])
          /\ inbox \in Seq(Frames) /\ handled \in Seq(Nat)
      BY DEF Init
    <3>2. loop \in [pc : Where, ev : Nat, key : {loop.key}]
      BY DEF Init, Nobody, Where
    <3>3. sess \in [Keys -> SessionRows]
      BY DEF Init, SessionRows
    <3>4. pending \in [Chats -> Keys \cup {NoKey}]
      BY DEF Init
    <3> QED
      BY <3>1, <3>2, <3>3, <3>4 DEF Init, Typed
  <2>3. SocketSound /\ InboxInOrder
    BY <2>1 DEF Init, SocketSound, InboxInOrder, Nobody, OnLine, None
  <2>4. UnderWaySound /\ SeqSound
    BY <2>1 DEF Init, UnderWaySound, SeqSound, LastSeen
  <2>5. QuestionsSound /\ EventsOnce /\ AnsweredInChat
    BY <2>1 DEF Init, QuestionsSound, EventsOnce, AnsweredInChat, Nobody
  <2> QED
    BY <2>2, <2>3, <2>4, <2>5 DEF GatewayInv
<1>2. GatewayInv /\ [Next]_vars => GatewayInv'
  BY TypedStep, SocketStep, InboxStep, UnderWayStep, SeqStep, EventsStep, QuestionsStep
     DEF GatewayInv
<1> QED
  BY <1>1, <1>2, PTL DEF Spec

\* Every event is handled once and in the order of the log, across faults, resumes and
\* new sessions; what is passed over was posted before a new Discord session began.
THEOREM HandledOnce == Spec => []EventsOnce
<1>1. GatewayInv => EventsOnce
  BY DEF GatewayInv
<1> QED
  BY <1>1, GatewayInvInvariant, PTL

\* The y/n answer a turn gets is a later message of the chat that asked.
THEOREM AskerAnswers == Spec => []AnsweredInChat
<1>1. GatewayInv => AnsweredInChat
  BY DEF GatewayInv
<1> QED
  BY <1>1, GatewayInvInvariant, PTL

-----------------------------------------------------------------------------
(* Routing: the table of bindings.                                         *)

Bindings == [agent : Agents, tier : Nat, key : STRING, value : STRING, on : STRING,
             priority : Int, set : Nat]

\* Of two bindings, the later one does not go before the earlier one, and was set after
\* it when neither goes before the other.
Sorted(t) ==
  \A i, j \in DOMAIN t : i < j =>
    ~Before(t[j], t[i]) /\ (Before(t[i], t[j]) \/ t[i].set < t[j].set)

\* Every binding was set by one of the calls so far.
TableInv ==
  /\ sets \in Nat /\ table \in Seq(Bindings) /\ Sorted(table)
  /\ \A i \in DOMAIN table : table[i].set <= sets

LEMMA LeastFacts ==
  ASSUME NEW S \in SUBSET Nat, S # {}
  PROVE  Least(S) \in S /\ \A j \in S : Least(S) <= j
<1> DEFINE R == OpToRel(<, Nat)
<1>1. IsWellFoundedOn(R, Nat)
  BY NatLessThanWellFounded
<1>2. \A i, k \in Nat : i < k => <<i, k>> \in R
  BY DEF OpToRel
<1> HIDE DEF R
<1>3. PICK k \in S : \A i \in S : <<i, k>> \notin R
  BY <1>1, WFMin
<1>4. ASSUME NEW i \in S PROVE k <= i
  <2>1. i \in Nat /\ k \in Nat
    OBVIOUS
  <2>2. ~(i < k)
    BY <1>2, <1>3, <2>1
  <2> QED  BY <2>1, <2>2
<1> QED  BY <1>3, <1>4 DEF Least

LEMMA BeforeFacts ==
  ASSUME NEW a \in Bindings, NEW b \in Bindings, NEW c \in Bindings
  PROVE  /\ a.set \in Nat /\ (Before(a, b) => ~Before(b, a))
         /\ Before(a, b) /\ ~Before(c, b) => Before(a, c)
<1>1. /\ a.tier \in Nat /\ b.tier \in Nat /\ c.tier \in Nat /\ a.set \in Nat
      /\ a.priority \in Int /\ b.priority \in Int /\ c.priority \in Int
  BY DEF Bindings
<1> QED  BY <1>1 DEF Before

\* In a sorted table the bindings that are not to stand behind b are the first ones.
LEMMA PlaceExists ==
  ASSUME NEW t \in Seq(Bindings), Sorted(t), NEW b \in Bindings
  PROVE  \E n \in 1..(Len(t) + 1) : \A i \in DOMAIN t : i < n <=> ~Before(b, t[i])
<1> DEFINE S == {i \in DOMAIN t : Before(b, t[i])}
<1>1. DOMAIN t = 1..Len(t) /\ Len(t) \in Nat
  OBVIOUS
<1>2. CASE S = {}
  <2>1. \A i \in DOMAIN t : i < Len(t) + 1 <=> ~Before(b, t[i])
    BY <1>1, <1>2
  <2> QED  BY <1>1, <2>1
<1>3. CASE S # {}
  <2>1. S \in SUBSET Nat
    BY <1>1
  <2>2. Least(S) \in S /\ \A j \in S : Least(S) <= j
    <3> HIDE DEF S
    <3> QED  BY <1>3, <2>1, LeastFacts
  <2>3. PICK n \in DOMAIN t : /\ Before(b, t[n])
                              /\ \A j \in DOMAIN t : Before(b, t[j]) => n <= j
    BY <2>2
  <2>4. ASSUME NEW i \in DOMAIN t
        PROVE  i < n <=> ~Before(b, t[i])
    <3>1. n \in Nat /\ i \in Nat /\ t[i] \in Bindings /\ t[n] \in Bindings
      BY <1>1
    <3>2. i < n => ~Before(b, t[i])
      BY <2>3, <3>1
    <3>3. n < i => ~Before(t[i], t[n])
      BY DEF Sorted
    <3>4. n < i => Before(b, t[i])
      BY <2>3, <3>1, <3>3, BeforeFacts
    <3>5. n = i => Before(b, t[i])
      BY <2>3
    <3> QED  BY <3>1, <3>2, <3>4, <3>5
  <2>5. n \in 1..(Len(t) + 1)
    BY <1>1
  <2> QED  BY <2>4, <2>5
<1> QED  BY <1>2, <1>3

\* Adding a binding that is set later than all others keeps the table sorted.
LEMMA AddFacts ==
  ASSUME NEW t \in Seq(Bindings), Sorted(t), NEW b \in Bindings,
         \A i \in DOMAIN t : t[i].set < b.set
  PROVE  /\ Add(t, b) \in Seq(Bindings) /\ Sorted(Add(t, b))
         /\ \A i \in DOMAIN Add(t, b) : Add(t, b)[i].set <= b.set
<1>1. PICK n \in 1..(Len(t) + 1) :
        Add(t, b) = Inserted(t, b, n) /\ \A i \in DOMAIN t : i < n <=> ~Before(b, t[i])
  BY PlaceExists DEF Add
<1> DEFINE u == Inserted(t, b, n)
<1>2. Len(t) \in Nat /\ DOMAIN t = 1..Len(t) /\ n \in Nat
  OBVIOUS
<1>3. /\ DOMAIN u = 1..(Len(t) + 1)
      /\ \A i \in DOMAIN u : u[i] = IF i < n THEN t[i] ELSE IF i = n THEN b ELSE t[i - 1]
  BY <1>2 DEF Inserted
<1> HIDE DEF u
<1>4. \A i \in DOMAIN u :
        \/ i < n /\ i \in DOMAIN t /\ u[i] = t[i]
        \/ i = n /\ u[i] = b
        \/ n < i /\ i - 1 \in DOMAIN t /\ u[i] = t[i - 1]
  BY <1>2, <1>3
<1>5. \A i \in DOMAIN u : u[i] \in Bindings /\ u[i].set <= b.set
  <2>1. \A i \in DOMAIN t : t[i] \in Bindings /\ t[i].set <= b.set
    <3> SUFFICES ASSUME NEW i \in DOMAIN t PROVE t[i] \in Bindings /\ t[i].set <= b.set
      OBVIOUS
    <3>1. t[i] \in Bindings
      BY <1>2
    <3>2. t[i].set \in Nat /\ b.set \in Nat /\ t[i].set < b.set
      BY <3>1, BeforeFacts
    <3> QED  BY <3>1, <3>2
  <2>2. b.set <= b.set
    BY BeforeFacts
  <2> QED  BY <1>4, <2>1, <2>2
<1>6. u \in Seq(Bindings)
  <2>1. u = [i \in 1..(Len(t) + 1) |-> u[i]]
    BY <1>3 DEF u, Inserted
  <2> QED  BY <1>2, <1>3, <1>5, <2>1
<1>7. ASSUME NEW i \in DOMAIN u, NEW j \in DOMAIN u, i < j
      PROVE  ~Before(u[j], u[i]) /\ (Before(u[i], u[j]) \/ u[i].set < u[j].set)
  <2>1. i \in Nat /\ j \in Nat
    BY <1>2, <1>3
  <2>2. CASE i = n
    <3>1. j - 1 \in DOMAIN t /\ u[j] = t[j - 1] /\ u[i] = b /\ ~(j - 1 < n)
      BY <1>2, <1>4, <1>7, <2>1, <2>2
    <3>2. Before(b, t[j - 1])
      BY <1>1, <3>1
    <3>3. t[j - 1] \in Bindings
      BY <3>1
    <3>4. ~Before(t[j - 1], b)
      BY <3>2, <3>3, BeforeFacts
    <3> QED  BY <3>1, <3>2, <3>4
  <2>3. CASE j = n
    <3>1. i \in DOMAIN t /\ u[i] = t[i] /\ u[j] = b /\ i < n
      BY <1>2, <1>4, <1>7, <2>1, <2>3
    <3>2. ~Before(b, t[i])
      BY <1>1, <3>1
    <3> QED  BY <3>1, <3>2
  <2>4. CASE i # n /\ j # n
    <3>1. PICK k, l \in DOMAIN t : k < l /\ u[i] = t[k] /\ u[j] = t[l]
      <4>1. CASE j < n
        BY <1>2, <1>4, <1>7, <2>1, <4>1
      <4>2. CASE i < n /\ n < j
        BY <1>2, <1>4, <1>7, <2>1, <4>2
      <4>3. CASE n < i
        BY <1>2, <1>4, <1>7, <2>1, <4>3
      <4> QED  BY <1>2, <1>7, <2>1, <2>4, <4>1, <4>2, <4>3
    <3> QED  BY <3>1 DEF Sorted
  <2> QED  BY <2>2, <2>3, <2>4
<1>8. Sorted(u)
  BY <1>7 DEF Sorted
<1> QED  BY <1>1, <1>5, <1>6, <1>8 DEF u

\* The indices of a set up to one: there is an n-th for every n up to the set's size.
LEMMA NthFacts ==
  ASSUME NEW m \in Nat, NEW S \in SUBSET (1..m)
  PROVE  /\ Cardinality(S) \in Nat
         /\ \A n \in 1..Cardinality(S) : Nth(S, n) \in S /\ Cardinality(UpTo(S, Nth(S, n))) = n
<1>0. \A j \in S : j \in Int /\ 1 <= j /\ j <= m
  OBVIOUS
<1>1. IsFiniteSet(S) /\ Cardinality(S) \in Nat
  <2>1. IsFiniteSet(1..m)
    BY FS_Interval
  <2> QED  BY <2>1, FS_Subset, FS_CardinalityType
<1>2. \A i : IsFiniteSet(UpTo(S, i)) /\ Cardinality(UpTo(S, i)) \in Nat
  <2>1. \A i : UpTo(S, i) \in SUBSET S
    BY DEF UpTo
  <2> QED  BY <1>1, <2>1, FS_Subset, FS_CardinalityType
<1>3. ASSUME NEW n \in 1..Cardinality(S)
      PROVE  \E i \in S : Cardinality(UpTo(S, i)) = n
  <2> DEFINE T == {i \in 0..m : Cardinality(UpTo(S, i)) >= n}
  <2>1. m \in T
    <3>1. UpTo(S, m) = S
      BY <1>0, Zenon DEF UpTo
    <3> QED  BY <1>1, <3>1
  <2>2. PICK i \in T : \A j \in T : i <= j
    <3>1. T \in SUBSET Nat
      OBVIOUS
    <3> HIDE DEF T
    <3> QED  BY <2>1, <3>1, LeastFacts
  <2>3. i \in 1..m
    <3>1. UpTo(S, 0) = {}
      <4>1. \A j \in S : ~(j <= 0)
        BY <1>0
      <4> QED  BY <4>1, Zenon DEF UpTo
    <3>2. 0 \notin T
      BY <1>1, <3>1, FS_EmptySet
    <3> QED  BY <2>2, <3>2
  <2>4. Cardinality(UpTo(S, i - 1)) < n
    <3>1. i - 1 \in 0..m /\ i - 1 \notin T
      BY <2>2, <2>3
    <3> QED  BY <1>1, <1>2, <3>1
  <2>5. CASE i \in S
    <3>1. UpTo(S, i) = UpTo(S, i - 1) \cup {i} /\ i \notin UpTo(S, i - 1)
      <4>1. i \in Int /\ \A j \in S : j <= i <=> j <= i - 1 \/ j = i
        BY <1>0, <2>3
      <4>2. ~(i <= i - 1)
        BY <4>1
      <4> QED  BY <2>5, <4>1, <4>2, Zenon DEF UpTo
    <3>2. Cardinality(UpTo(S, i)) = Cardinality(UpTo(S, i - 1)) + 1
      BY <1>2, <3>1, FS_AddElement
    <3>3. Cardinality(UpTo(S, i)) >= n
      BY <2>2
    <3>4. Cardinality(UpTo(S, i - 1)) \in Nat /\ n \in Nat
      BY <1>1, <1>2
    <3>5. Cardinality(UpTo(S, i)) = n
      BY <2>4, <3>2, <3>3, <3>4
    <3> QED  BY <2>5, <3>5
  <2>6. CASE i \notin S
    <3>1. UpTo(S, i) = UpTo(S, i - 1)
      <4>1. \A j \in S : j <= i <=> j <= i - 1
        BY <1>0, <2>3, <2>6
      <4> QED  BY <4>1, Zenon DEF UpTo
    <3>2. Cardinality(UpTo(S, i)) >= n /\ n \in Nat
      BY <1>1, <2>2
    <3> QED  BY <1>2, <2>4, <3>1, <3>2
  <2> QED  BY <2>5, <2>6
<1>4. \A n \in 1..Cardinality(S) : Nth(S, n) \in S /\ Cardinality(UpTo(S, Nth(S, n))) = n
  BY <1>3 DEF Nth
<1> QED  BY <1>1, <1>4

\* What is left after a removal stands in the order it had.
LEMMA RemoveFacts ==
  ASSUME NEW t \in Seq(Bindings), Sorted(t), NEW b
  PROVE  /\ Remove(t, b) \in Seq(Bindings) /\ Sorted(Remove(t, b))
         /\ \A i \in DOMAIN Remove(t, b) : \E j \in DOMAIN t : Remove(t, b)[i] = t[j]
<1> DEFINE S == Kept(t, b)
           u == Remove(t, b)
           N(n) == Nth(S, n)
<1>1. Len(t) \in Nat /\ DOMAIN t = 1..Len(t) /\ S \in SUBSET (1..Len(t))
  BY DEF Kept
<1>2. /\ Cardinality(S) \in Nat
      /\ \A n \in 1..Cardinality(S) : N(n) \in S /\ Cardinality(UpTo(S, N(n))) = n
  <2> HIDE DEF S
  <2> QED  BY <1>1, NthFacts
<1>3. DOMAIN u = 1..Cardinality(S) /\ \A n \in DOMAIN u : u[n] = t[N(n)]
  BY DEF Remove
<1> HIDE DEF S
<1>4. u \in Seq(Bindings)
  <2>1. u = [n \in 1..Cardinality(S) |-> u[n]]
    BY <1>3 DEF Remove, S
  <2>2. \A n \in 1..Cardinality(S) : u[n] \in Bindings
    BY <1>1, <1>2, <1>3
  <2> HIDE DEF u
  <2> QED  BY <1>2, <2>1, <2>2
<1> HIDE DEF u
<1>5. ASSUME NEW i \in DOMAIN u, NEW j \in DOMAIN u, i < j
      PROVE  N(i) \in DOMAIN t /\ N(j) \in DOMAIN t /\ N(i) < N(j)
  <2>1. /\ N(i) \in S /\ N(j) \in S /\ N(i) \in Nat /\ N(j) \in Nat
        /\ Cardinality(UpTo(S, N(i))) = i /\ Cardinality(UpTo(S, N(j))) = j
    BY <1>1, <1>2, <1>3
  <2>2. CASE N(j) <= N(i)
    <3>1. \A k \in S : k \in Nat
      BY <1>1
    <3>2. UpTo(S, N(j)) \in SUBSET UpTo(S, N(i))
      <4> HIDE DEF N
      <4> QED  BY <2>1, <2>2, <3>1 DEF UpTo
    <3>3. IsFiniteSet(UpTo(S, N(i)))
      <4>1. IsFiniteSet(1..Len(t)) /\ UpTo(S, N(i)) \in SUBSET (1..Len(t))
        <5>1. IsFiniteSet(1..Len(t))
          BY <1>1, FS_Interval
        <5> QED  BY <1>1, <5>1 DEF UpTo
      <4> QED  BY <4>1, FS_Subset
    <3>4. j <= i
      BY <2>1, <3>2, <3>3, FS_Subset
    <3>5. i \in Nat /\ j \in Nat
      BY <1>2, <1>3
    <3> QED  BY <1>5, <3>4, <3>5
  <2> QED  BY <1>1, <2>1, <2>2
<1>6. Sorted(u)
  <2> HIDE DEF N
  <2> QED  BY <1>3, <1>5 DEF Sorted
<1>7. \A i \in DOMAIN u : \E j \in DOMAIN t : u[i] = t[j]
  BY <1>1, <1>2, <1>3
<1> QED  BY <1>4, <1>6, <1>7 DEF u

\* An administrator's binding is one of the table's once it says when it was set.
LEMMA AdminFacts ==
  ASSUME NEW b \in InFile \cup Admin, NEW n \in Nat
  PROVE  b \in Bindings /\ [b EXCEPT !.set = n] \in Bindings
<1>1. b \in [agent : Agents, tier : Nat, key : STRING, value : STRING, on : STRING,
             priority : Int, set : {0}]
  BY DiscordAssumption
<1> QED  BY <1>1 DEF Bindings

LEMMA TableInvInit == Init => TableInv
<1> SUFFICES ASSUME Init PROVE TableInv
  OBVIOUS
<1>1. PICK b \in InFile : table = Add(<<>>, b)
  BY DEF Init
<1> DEFINE c == [b EXCEPT !.set = 0]
<1>2. c = b /\ b \in Bindings /\ b.set = 0
  <2>1. b \in [agent : Agents, tier : Nat, key : STRING, value : STRING, on : STRING,
               priority : Int, set : {0}]
    BY DiscordAssumption
  <2> QED  BY <2>1 DEF Bindings
<1>3. <<>> \in Seq(Bindings) /\ DOMAIN <<>> = {} /\ Sorted(<<>>)
  BY DEF Sorted
<1>4. /\ Add(<<>>, b) \in Seq(Bindings) /\ Sorted(Add(<<>>, b))
      /\ \A i \in DOMAIN Add(<<>>, b) : Add(<<>>, b)[i].set <= b.set
  BY <1>2, <1>3, AddFacts
<1> QED  BY <1>1, <1>2, <1>4 DEF TableInv, Init

LEMMA TableInvStep == TableInv /\ [Next]_vars => TableInv'
<1> SUFFICES ASSUME TableInv, [Next]_vars PROVE TableInv'
  OBVIOUS
<1>1. CASE UNCHANGED <<table, sets>>
  BY <1>1 DEF TableInv
<1>2. ASSUME NEW b \in Admin, SetBinding(b)
      PROVE  TableInv'
  <2> DEFINE c == [b EXCEPT !.set = sets']
  <2>1. sets' = sets + 1 /\ table' = Add(table, c) /\ sets' \in Nat /\ sets \in Nat
    BY <1>2 DEF SetBinding, TableInv
  <2>2. c \in Bindings /\ c.set = sets'
    BY <2>1, AdminFacts, DiscordAssumption
  <2> HIDE DEF c
  <2>3. \A i \in DOMAIN table : table[i].set < c.set
    <3> SUFFICES ASSUME NEW i \in DOMAIN table PROVE table[i].set < c.set
      OBVIOUS
    <3>1. table[i] \in Bindings /\ table[i].set <= sets
      BY DEF TableInv
    <3>2. table[i].set \in Nat
      BY <3>1, BeforeFacts
    <3> QED  BY <2>1, <2>2, <3>1, <3>2
  <2>4. table \in Seq(Bindings) /\ Sorted(table)
    BY DEF TableInv
  <2>5. /\ table' \in Seq(Bindings) /\ Sorted(table')
        /\ \A i \in DOMAIN table' : table'[i].set <= c.set
    BY <2>1, <2>2, <2>3, <2>4, AddFacts
  <2> QED  BY <2>1, <2>2, <2>5 DEF TableInv
<1>3. ASSUME NEW b, RemoveBinding(b)
      PROVE  TableInv'
  <2>1. sets' = sets + 1 /\ table' = Remove(table, b) /\ sets \in Nat
    BY <1>3 DEF RemoveBinding, TableInv
  <2>2. table \in Seq(Bindings) /\ Sorted(table)
    BY DEF TableInv
  <2>3. /\ table' \in Seq(Bindings) /\ Sorted(table')
        /\ \A i \in DOMAIN table' : \E j \in DOMAIN table : table'[i] = table[j]
    BY <2>1, <2>2, RemoveFacts
  <2>4. ASSUME NEW j \in DOMAIN table
        PROVE  table[j].set <= sets'
    <3>1. table[j] \in Bindings /\ table[j].set <= sets
      BY DEF TableInv
    <3>2. table[j].set \in Nat
      BY <3>1, BeforeFacts, SMTT(60)
    <3> QED  BY <2>1, <3>1, <3>2
  <2> QED  BY <2>1, <2>3, <2>4 DEF TableInv
<1>4. \/ UNCHANGED <<table, sets>> \/ \E b \in Admin : SetBinding(b)
      \/ \E b : RemoveBinding(b)
  BY DEF Next, vars, Post, Forward, Acknowledge, Fault, ConnectFails, Tick, AnswersClose,
         GivesUp, Breaks, Stop, LoopStep, TurnPanics, Connect, Wake, ReadHello, Resume, Identify,
         InitFails, ReadReady, EndsUnready, Ends, ReceiveOther, Send, Answer, Replies, Command,
         Dispatch, Receives, SessionStep, Serve, TurnEnds, Register, Resumes, Ask
<1> QED  BY <1>1, <1>2, <1>3, <1>4

\* The first binding of a sorted table that matches is the most specific one.
LEMMA FirstIsSpecific ==
  ASSUME TableInv, NEW m
  PROVE  Specific(table, m)
<1> DEFINE H == Hits(table, m)
           i == Least(H)
<1>1. CASE H = {}
  BY <1>1 DEF Specific, Resolve
<1>2. CASE H # {}
  <2>1. H \in SUBSET Nat /\ H \subseteq DOMAIN table
    BY DEF TableInv, Hits
  <2>2. i \in H /\ \A j \in H : i <= j
    <3> HIDE DEF H
    <3> QED  BY <1>2, <2>1, LeastFacts
  <2>3. Resolve(table, m) = table[i].agent
    BY <1>2 DEF Resolve
  <2>4. ASSUME NEW j \in H \ {i}
        PROVE  \/ Before(table[i], table[j])
               \/ ~Before(table[j], table[i]) /\ table[i].set < table[j].set
    <3>1. i \in DOMAIN table /\ j \in DOMAIN table /\ i \in Nat /\ j \in Nat
      BY <2>1, <2>2
    <3>2. i < j
      BY <2>2, <3>1
    <3> HIDE DEF i
    <3> QED  BY <3>1, <3>2 DEF TableInv, Sorted
  <2> HIDE DEF H, i
  <2>5. \E k \in H : /\ Resolve(table, m) = table[k].agent
                     /\ \A j \in H \ {k} :
                          \/ Before(table[k], table[j])
                          \/ ~Before(table[j], table[k]) /\ table[k].set < table[j].set
    BY <2>2, <2>3, <2>4
  <2> QED  BY <1>2, <2>5 DEF Specific, H
<1> QED  BY <1>1, <1>2

\* Two messages that differ in their guild are resolved alike, unless a binding by guild
\* is the first that matches either.
LEMMA SameAgent ==
  ASSUME TableInv, NEW e, NEW g, NEW h,
         LET hits == Hits(table, Message(e, g)) \cup Hits(table, Message(e, h))
         IN  \A i \in hits : (\A j \in hits : i <= j) => table[i].key # "guild_id"
  PROVE  Resolve(table, Message(e, g)) = Resolve(table, Message(e, h))
<1> DEFINE G == Hits(table, Message(e, g))
           H == Hits(table, Message(e, h))
           i == Least(G \cup H)
<1>1. CASE G = {} /\ H = {}
  BY <1>1 DEF Resolve
<1>2. CASE G \cup H # {}
  <2>1. G \cup H \in SUBSET Nat
    BY DEF TableInv, Hits
  <2>2. i \in G \cup H /\ \A j \in G \cup H : i <= j
    <3> HIDE DEF G, H
    <3> QED  BY <1>2, <2>1, LeastFacts
  <2>3. table[i].key # "guild_id"
    BY <2>2
  <2>4. i \in G /\ i \in H
    <3> HIDE DEF i
    <3>1. Matches(table[i], Message(e, g)) <=> Matches(table[i], Message(e, h))
      BY <2>3 DEF Matches, Message
    <3> QED  BY <2>2, <3>1 DEF Hits
  <2>5. Least(G) \in G /\ (\A j \in G : Least(G) <= j)
        /\ Least(H) \in H /\ (\A j \in H : Least(H) <= j)
    <3> HIDE DEF G, H
    <3>1. G \in SUBSET Nat /\ H \in SUBSET Nat /\ G # {} /\ H # {}
      BY <2>1, <2>4
    <3> QED  BY <3>1, LeastFacts
  <2>6. Least(G) = i /\ Least(H) = i
    <3> HIDE DEF G, H, i
    <3>1. \A j \in G \cup H : j \in Nat
      BY <2>1
    <3> QED  BY <2>2, <2>4, <2>5, <3>1
  <2> QED  BY <2>4, <2>6 DEF Resolve
<1> QED  BY <1>1, <1>2

\* Whatever bindings are set and removed, a message goes where the most specific binding
\* says, and the commands about a chat follow its messages.
THEOREM MessagesAreRouted == Spec => []Routed
<1>1. TableInv => Routed
  <2> SUFFICES ASSUME TableInv PROVE Routed
    OBVIOUS
  <2>1. MostSpecific
    BY FirstIsSpecific DEF MostSpecific
  <2>2. CommandsFollowTurns
    <3> SUFFICES ASSUME NEW u \in Users, NEW c \in Chats
                 PROVE
      LET e == [user |-> u, chat |-> c, kind |-> "ctrl"]
          hits == Hits(table, Message(e, GuildOf[c])) \cup Hits(table, Message(e, ""))
          decides == {i \in hits : \A j \in hits : i <= j}
      IN (\A i \in decides : table[i].key # "guild_id") => ControlKey(e) = TurnKey(e)
      BY DEF CommandsFollowTurns
    <3> DEFINE e == [user |-> u, chat |-> c, kind |-> "ctrl"]
               hits == Hits(table, Message(e, GuildOf[c])) \cup Hits(table, Message(e, ""))
    <3> SUFFICES ASSUME \A i \in hits : (\A j \in hits : i <= j) => table[i].key # "guild_id"
                 PROVE  ControlKey(e) = TurnKey(e)
      OBVIOUS
    <3>1. e.chat = c
      OBVIOUS
    <3> HIDE DEF e
    <3>2. Resolve(table, Message(e, GuildOf[c])) = Resolve(table, Message(e, ""))
      BY SameAgent
    <3> QED  BY <3>1, <3>2 DEF ControlKey, TurnKey, KeyOf, SessionKey, Message
  <2> QED  BY <2>1, <2>2 DEF Routed
<1> QED  BY <1>1, TableInvInit, TableInvStep, PTL DEF Spec
=============================================================================
