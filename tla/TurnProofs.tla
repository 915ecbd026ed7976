----------------------------- MODULE TurnProofs -----------------------------
(***************************************************************************)
(* Proofs about Turn, for any number of keys, fallback models, background  *)
(* tasks, tool calls, turns and faults: what the loop, the retries and the *)
(* compactions leave of the one history they edit, and that a turn fails   *)
(* only when every key it could use was tried.                             *)
(***************************************************************************)
EXTENDS Turn, FiniteSetTheorems, SequenceTheorems, WellFoundedInduction, TLAPS

\* While tools run: the place in the history of the message that called them.
Asked == Len(history) - (next - 1)

HistoryTypes ==
  /\ history \in Seq(Messages) /\ next \in Nat \ {0}
  /\ notices \subseteq Jobs /\ dropped \subseteq Jobs /\ scarred \in BOOLEAN
  /\ job \in [Jobs -> {"unused", "running", "ended"}]

\* While tools run, the history ends with the message that called them and the results
\* of the calls so far; a subagent works for a call that has no result yet.
Working ==
  /\ pc = "tools" =>
       /\ Asked >= 1
       /\ history[Asked].role = "assistant" /\ next - 1 <= history[Asked].calls
       /\ \A k \in 1..(next - 1) :
            history[Asked + k].role = "tool" /\ history[Asked + k].of = k
  /\ sub # 0 => pc = "tools" /\ next <= history[Asked].calls

\* A result has a call before it.
OwnCall(h, i) == h[i].role = "tool" => i > h[i].of /\ h[i - h[i].of].calls >= h[i].of

\* Nothing is unanswered but the calls being run, unless something was cut off.
Kept ==
  ~scarred =>
    /\ \A i \in DOMAIN history : OwnCall(history, i)
    /\ \A i \in DOMAIN history : Answers(history, i) \/ (pc = "tools" /\ i = Asked)

\* The result of an ended task is in exactly one place, and in one message at most.
ToldOnce ==
  /\ \A j \in Jobs : \A i, k \in DOMAIN history :
       j \in history[i].notes /\ j \in history[k].notes => i = k
  /\ \A j \in Jobs :
       /\ j \in notices => j \notin Told(history) \cup dropped
       /\ j \in dropped => j \notin Told(history)
       /\ job[j] = "ended" <=> j \in Told(history) \cup notices \cup dropped

HistoryInv == HistoryTypes /\ Working /\ Kept /\ ToldOnce

Config == [key : 1..Keys, model : 0..Fallbacks]
RunTypes ==
  /\ llm \in Config /\ before \in Config /\ stage \in 0..Fallbacks
  /\ cooling \subseteq 1..Keys /\ open \subseteq 1..Keys /\ tries \in Nat

\* As long as every attempt that failed cooled its key down, a key is tried once for
\* each model, and those not tried yet are not in cooldown.
Attempt == {"loop", "request", "tools"}
Rotation ==
  pc \in Attempt \cup {"rotate"} /\ ~soft =>
    /\ open \cap cooling = {}
    /\ pc = "rotate" => tries <= Cardinality(cooling)
    /\ pc # "rotate" => tries <= Cardinality(cooling) + 1 /\ llm.key \notin cooling \cup open

TurnInv == HistoryInv /\ RunTypes /\ Rotation
-----------------------------------------------------------------------------
(* Sequences of messages.                                                  *)

LEMMA MessageFacts ==
  /\ \A ns \in SUBSET Jobs : User(ns) \in Messages
  /\ \A n \in 0..MaxCalls : Assistant(n) \in Messages /\ Tool(n) \in Messages
  /\ \A m \in Messages : /\ m.calls \in 0..MaxCalls /\ m.of \in 0..MaxCalls
                         /\ m.notes \subseteq Jobs
  /\ MaxCalls \in Nat
<1>1. MaxCalls \in Nat
  BY AgentLoopAssumption
<1> QED  BY <1>1 DEF Messages, User, Assistant, Tool

LEMMA ToldFacts ==
  ASSUME NEW h, NEW j
  PROVE  j \in Told(h) <=> \E i \in DOMAIN h : j \in h[i].notes
BY DEF Told

\* What a message at the end leaves of the others.
LEMMA PutFacts ==
  ASSUME NEW h \in Seq(Messages), NEW m \in Messages
  PROVE  /\ Append(h, m) \in Seq(Messages) /\ Len(Append(h, m)) = Len(h) + 1
         /\ Len(h) \in Nat /\ DOMAIN h = 1..Len(h) /\ DOMAIN Append(h, m) = 1..(Len(h) + 1)
         /\ \A i \in 1..Len(h) : Append(h, m)[i] = h[i]
         /\ Append(h, m)[Len(h) + 1] = m
         /\ \A i \in DOMAIN h : Answers(h, i) => Answers(Append(h, m), i)
         /\ \A i \in DOMAIN h : OwnCall(h, i) => OwnCall(Append(h, m), i)
<1> DEFINE g == Append(h, m)
<1>1. /\ g \in Seq(Messages) /\ Len(g) = Len(h) + 1 /\ Len(h) \in Nat
      /\ DOMAIN h = 1..Len(h) /\ DOMAIN g = 1..(Len(h) + 1)
      /\ \A i \in 1..Len(h) : g[i] = h[i]
      /\ g[Len(h) + 1] = m
  BY AppendProperties, LenProperties
<1>2. \A i \in DOMAIN h : h[i].calls \in 0..MaxCalls /\ h[i].of \in 0..MaxCalls
  BY <1>1, MessageFacts, ElementOfSeq
<1> HIDE DEF g
<1>3. ASSUME NEW i \in DOMAIN h, Answers(h, i) PROVE Answers(g, i)
  <2>1. /\ g[i] = h[i] /\ i + h[i].calls <= Len(h) /\ h[i].calls \in Nat /\ i \in 1..Len(h)
        /\ \A k \in 1..h[i].calls : h[i + k].role = "tool" /\ h[i + k].of = k
    BY <1>1, <1>2, <1>3, MessageFacts DEF Answers
  <2>2. \A k \in 1..h[i].calls : i + k \in 1..Len(h)
    BY <2>1, <1>1
  <2> QED  BY <2>1, <2>2, <1>1 DEF Answers
<1>4. \A i \in DOMAIN h : OwnCall(h, i) => OwnCall(g, i)
  BY <1>1, <1>2, MessageFacts DEF OwnCall
<1> QED  BY <1>1, <1>3, <1>4 DEF g

\* h is a part of the history g, with messages that carry no results before it.
Part(h, g) ==
  /\ h \in Seq(Messages)
  /\ \E d \in Int : \A i \in DOMAIN h :
       \/ h[i].notes = {}
       \/ i + d \in DOMAIN g /\ h[i].notes = g[i + d].notes

LEMMA PartFacts ==
  ASSUME NEW g \in Seq(Messages), NEW a \in Int, NEW b \in Int, a >= 1, b <= Len(g)
  PROVE  Part(SubSeq(g, a, b), g) /\ Part(Summary \o SubSeq(g, a, b), g) /\ Part(Summary, g)
         /\ Part(<< >>, g) /\ Part(g, g)
<1> DEFINE h == SubSeq(g, a, b)
           k == Summary \o h
<1>1. Len(g) \in Nat /\ DOMAIN g = 1..Len(g) /\ \A i \in DOMAIN g : g[i] \in Messages
  BY LenProperties, ElementOfSeq
<1>2. \A i \in a..b : g[i] \in Messages
  BY <1>1
<1>3. /\ h \in Seq(Messages) /\ Len(h) \in Nat /\ DOMAIN h = 1..Len(h)
      /\ \A i \in DOMAIN h : h[i] = g[i + (a - 1)] /\ i + (a - 1) \in DOMAIN g
  <2>1. /\ h \in Seq(Messages)
        /\ Len(h) = IF a <= b THEN b - a + 1 ELSE 0
        /\ \A i \in 1..(b - a + 1) : h[i] = g[a + i - 1]
    BY <1>2, SubSeqProperties
  <2>2. Len(h) \in Nat /\ DOMAIN h = 1..Len(h)
    BY <2>1, LenProperties
  <2> HIDE DEF h
  <2> QED  BY <2>1, <2>2, <1>1, SMTT(60)
<1>4. /\ Summary \in Seq(Messages) /\ Len(Summary) = 2 /\ DOMAIN Summary = 1..2
      /\ \A i \in 1..2 : Summary[i].notes = {}
  <2>1. User({}) \in Messages /\ Assistant(0) \in Messages
    BY MessageFacts
  <2>2. User({}).notes = {} /\ Assistant(0).notes = {}
    BY DEF User, Assistant
  <2> HIDE DEF h
  <2> QED  BY <2>1, <2>2 DEF Summary
<1>5. Part(h, g)
  <2>1. a - 1 \in Int
    OBVIOUS
  <2> HIDE DEF h
  <2> QED  BY <2>1, <1>3 DEF Part
<1>6. Part(k, g)
  <2>1. /\ k \in Seq(Messages) /\ Len(k) = 2 + Len(h)
        /\ \A i \in 1..(2 + Len(h)) : k[i] = IF i <= 2 THEN Summary[i] ELSE h[i - 2]
    BY <1>3, <1>4, ConcatProperties, SMTT(60)
  <2>2. DOMAIN k = 1..(2 + Len(h))
    BY <2>1, LenProperties
  <2> HIDE DEF h, k
  <2>3. \A i \in DOMAIN k : \/ k[i].notes = {}
                            \/ i + (a - 3) \in DOMAIN g /\ k[i].notes = g[i + (a - 3)].notes
    <3> SUFFICES ASSUME NEW i \in DOMAIN k, i > 2
                 PROVE  i + (a - 3) \in DOMAIN g /\ k[i].notes = g[i + (a - 3)].notes
      BY <2>1, <2>2, <1>3, <1>4
    <3>1. i - 2 \in DOMAIN h /\ k[i] = h[i - 2]
      BY <2>1, <2>2, <1>3
    <3>2. (i - 2) + (a - 1) = i + (a - 3)
      BY <2>2, <1>3
    <3> QED  BY <3>1, <3>2, <1>3
  <2>4. a - 3 \in Int
    OBVIOUS
  <2> QED  BY <2>1, <2>3, <2>4 DEF Part
<1>7. Part(Summary, g)
  BY <1>4 DEF Part
<1>8. Part(<< >>, g)
  <2>1. << >> \in Seq(Messages) /\ DOMAIN << >> = {} /\ 0 \in Int
    BY EmptySeq, LenProperties
  <2> QED  BY <2>1 DEF Part
<1>9. Part(g, g)
  <2>1. \A i \in DOMAIN g : i + 0 \in DOMAIN g /\ g[i].notes = g[i + 0].notes
    BY <1>1
  <2>2. 0 \in Int
    OBVIOUS
  <2> QED  BY <2>1, <2>2, Zenon DEF Part
<1> QED  BY <1>5, <1>6, <1>7, <1>8, <1>9
-----------------------------------------------------------------------------
(* What the steps do to the history.                                       *)

LEMMA HistoryFacts ==
  ASSUME HistoryTypes
  PROVE  /\ Len(history) \in Nat /\ DOMAIN history = 1..Len(history)
         /\ \A i \in DOMAIN history :
              /\ history[i] \in Messages
              /\ history[i].calls \in 0..MaxCalls /\ history[i].of \in 0..MaxCalls
              /\ history[i].notes \subseteq Jobs
<1>1. history \in Seq(Messages)
  BY DEF HistoryTypes
<1>2. Len(history) \in Nat /\ DOMAIN history = 1..Len(history)
  BY <1>1, LenProperties
<1>3. \A i \in DOMAIN history : history[i] \in Messages
  BY <1>1, <1>2, ElementOfSeq
<1> QED  BY <1>2, <1>3, MessageFacts

\* The reply whose calls are run is the last message of the assistant.
LEMMA CallsFacts ==
  ASSUME HistoryTypes, Working, pc = "tools"
  PROVE  Asked \in DOMAIN history /\ Asked + (next - 1) = Len(history)
         /\ Calls = history[Asked].calls /\ Calls \in 0..MaxCalls
<1> DEFINE I == {i \in 1..Len(history) : history[i].role = "assistant"}
<1>1. next \in Nat \ {0} /\ Len(history) \in Nat /\ DOMAIN history = 1..Len(history)
  BY HistoryFacts DEF HistoryTypes
<1>2. Asked \in 1..Len(history) /\ Asked + (next - 1) = Len(history) /\ Asked \in Int
  BY <1>1 DEF Working, Asked
<1>3. Asked \in I
  BY <1>2 DEF Working
<1>4. \A i \in I : Asked >= i
  <2> SUFFICES ASSUME NEW i \in 1..Len(history), i > Asked PROVE history[i].role # "assistant"
    BY <1>2
  <2>1. i - Asked \in 1..(next - 1) /\ Asked + (i - Asked) = i
    BY <1>1, <1>2
  <2>2. history[Asked + (i - Asked)].role = "tool"
    BY <2>1 DEF Working
  <2> QED  BY <2>1, <2>2
<1>5. Max(I) = Asked
  <2>1. \A m \in I : (\A i \in I : m >= i) => m = Asked
    BY <1>1, <1>2, <1>3, <1>4
  <2> HIDE DEF I
  <2> QED  BY <2>1, <1>3, <1>4 DEF Max
<1>6. Calls = history[Asked].calls
  BY <1>3, <1>5 DEF Calls, SelectLastInSeq
<1> QED  BY <1>1, <1>2, <1>6, HistoryFacts

\* Outside of the tools nothing is unanswered, nor when the last call has its result.
LEMMA PairedFacts ==
  ASSUME HistoryInv, ~scarred, pc # "tools" \/ next > Calls
  PROVE  Paired(history)
<1>1. CASE pc # "tools"
  BY <1>1 DEF HistoryInv, Kept, Paired, OwnCall
<1>2. CASE pc = "tools"
  <2>1. /\ Asked \in DOMAIN history /\ Asked + (next - 1) = Len(history)
        /\ Calls = history[Asked].calls /\ Calls \in 0..MaxCalls /\ MaxCalls \in Nat
        /\ next \in Nat \ {0} /\ Len(history) \in Nat /\ DOMAIN history = 1..Len(history)
    BY <1>2, CallsFacts, HistoryFacts, MessageFacts DEF HistoryInv, HistoryTypes
  <2>2. history[Asked].calls = next - 1
    BY <1>2, <2>1 DEF HistoryInv, Working
  <2>3. Answers(history, Asked)
    BY <1>2, <2>1, <2>2 DEF Answers, HistoryInv, Working
  <2> QED  BY <2>3 DEF HistoryInv, Kept, Paired, OwnCall
<1> QED  BY <1>1, <1>2

\* A part of the history takes its place, and the results it loses are remembered.
LEMMA CutStep ==
  ASSUME HistoryInv, NEW h, Part(h, history),
         history' = h, dropped' = dropped \cup (Told(history) \ Told(h)),
         UNCHANGED <<job, notices>>, pc' # "tools", sub' = 0, next' \in Nat \ {0},
         scarred' \in BOOLEAN, ~scarred' => Paired(h)
  PROVE  HistoryInv'
<1>1. /\ \A i \in DOMAIN history : history[i].notes \subseteq Jobs
      /\ h \in Seq(Messages) /\ DOMAIN h = 1..Len(h) /\ Len(h) \in Nat
  BY HistoryFacts, LenProperties DEF Part, HistoryInv
<1>2. HistoryTypes'
  <2>1. Told(history) \subseteq Jobs
    BY <1>1, ToldFacts
  <2> QED  BY <1>1, <2>1 DEF HistoryInv, HistoryTypes
<1>3. Working'
  BY DEF Working
<1>4. Kept'
  BY DEF Kept, Paired, OwnCall
<1>5. PICK d \in Int : \A i \in DOMAIN h :
        \/ h[i].notes = {}
        \/ i + d \in DOMAIN history /\ h[i].notes = history[i + d].notes
  BY DEF Part
<1>6. Told(h) \subseteq Told(history)
  BY <1>5, ToldFacts
<1>7. ASSUME NEW j \in Jobs, NEW i \in DOMAIN h, NEW k \in DOMAIN h,
             j \in h[i].notes, j \in h[k].notes
      PROVE  i = k
  <2>1. i + d \in DOMAIN history /\ k + d \in DOMAIN history
        /\ j \in history[i + d].notes /\ j \in history[k + d].notes
    BY <1>5, <1>7
  <2>2. i + d = k + d
    BY <2>1 DEF HistoryInv, ToldOnce
  <2> QED  BY <2>2, <1>1, <1>5
<1>8. ToldOnce'
  BY <1>6, <1>7 DEF HistoryInv, ToldOnce
<1> QED  BY <1>2, <1>3, <1>4, <1>8 DEF HistoryInv

\* The history stays, and no tools run any more.
LEMMA RestStep ==
  ASSUME HistoryInv, UNCHANGED <<history, dropped, job, notices>>,
         pc' # "tools", sub' = 0, next' \in Nat \ {0},
         scarred' \in BOOLEAN, ~scarred' => Paired(history)
  PROVE  HistoryInv'
<1>1. Part(history, history)
  <2>1. history \in Seq(Messages) /\ Len(history) \in Nat
    BY HistoryFacts DEF HistoryInv, HistoryTypes
  <2> QED  BY <2>1, PartFacts
<1>2. dropped' = dropped \cup (Told(history) \ Told(history)) /\ history' = history
  OBVIOUS
<1> QED  BY <1>1, <1>2, CutStep

\* A message without results is put at the end.
LEMMA PutTold ==
  ASSUME HistoryInv, NEW m \in Messages, m.notes = {}, history' = Append(history, m),
         UNCHANGED <<notices, dropped>>,
         \A j \in Jobs : job'[j] = "ended" <=> job[j] = "ended"
  PROVE  ToldOnce'
<1>1. /\ DOMAIN history = 1..Len(history) /\ DOMAIN history' = 1..(Len(history) + 1)
      /\ \A i \in 1..Len(history) : history'[i] = history[i]
      /\ history'[Len(history) + 1] = m /\ Len(history) \in Nat
  BY PutFacts DEF HistoryInv, HistoryTypes
<1>2. \A j : (\E i \in DOMAIN history' : j \in history'[i].notes)
               <=> \E i \in DOMAIN history : j \in history[i].notes
  BY <1>1
<1>3. \A j : j \in Told(history') <=> j \in Told(history)
  BY <1>2, ToldFacts
<1>4. \A j \in Jobs : \A i, k \in DOMAIN history' :
        j \in history'[i].notes /\ j \in history'[k].notes => i = k
  BY <1>1 DEF HistoryInv, ToldOnce
<1> QED  BY <1>3, <1>4 DEF HistoryInv, ToldOnce

\* A message that neither calls nor answers is put at the end of a paired history.
LEMMA SayStep ==
  ASSUME HistoryInv, NEW m \in Messages, m.notes = {}, m.calls = 0, m.role # "tool",
         history' = Append(history, m), UNCHANGED <<notices, dropped, job, next, sub, scarred>>,
         pc # "tools", pc' # "tools"
  PROVE  HistoryInv'
<1>1. HistoryTypes'
  BY PutFacts DEF HistoryInv, HistoryTypes
<1>2. Working'
  BY DEF HistoryInv, Working
<1>3. Kept'
  <2> SUFFICES ASSUME ~scarred PROVE Kept'
    BY DEF Kept
  <2>1. \A i \in DOMAIN history : Answers(history, i) /\ OwnCall(history, i)
    BY PairedFacts DEF Paired, OwnCall
  <2>2. /\ DOMAIN history = 1..Len(history) /\ DOMAIN history' = 1..(Len(history) + 1)
        /\ Len(history) \in Nat /\ history'[Len(history) + 1] = m
        /\ Len(history') = Len(history) + 1
        /\ \A i \in DOMAIN history : Answers(history, i) => Answers(history', i)
        /\ \A i \in DOMAIN history : OwnCall(history, i) => OwnCall(history', i)
    BY PutFacts DEF HistoryInv, HistoryTypes
  <2>3. Answers(history', Len(history) + 1) /\ OwnCall(history', Len(history) + 1)
    BY <2>2 DEF Answers, OwnCall
  <2>4. \A i \in DOMAIN history' : i \in DOMAIN history \/ i = Len(history) + 1
    BY <2>2
  <2>5. \A i \in DOMAIN history' : Answers(history', i) /\ OwnCall(history', i)
    BY <2>1, <2>2, <2>3, <2>4
  <2> QED  BY <2>5 DEF Kept
<1>4. ToldOnce'
  BY PutTold
<1> QED  BY <1>1, <1>2, <1>3, <1>4 DEF HistoryInv

LEMMA ReplyCallsStep ==
  ASSUME HistoryInv, ReplyCalls
  PROVE  HistoryInv'
<1>1. PICK n \in 1..MaxCalls : history' = Append(history, Assistant(n))
  BY DEF ReplyCalls
<1>2. /\ Assistant(n) \in Messages /\ Assistant(n).notes = {} /\ Assistant(n).calls = n
      /\ Assistant(n).role = "assistant" /\ n \in Nat
  BY MessageFacts DEF Assistant
<1>3. /\ DOMAIN history = 1..Len(history) /\ DOMAIN history' = 1..(Len(history) + 1)
      /\ Len(history) \in Nat /\ history'[Len(history) + 1] = Assistant(n)
      /\ history' \in Seq(Messages) /\ Len(history') = Len(history) + 1
      /\ \A i \in DOMAIN history : Answers(history, i) => Answers(history', i)
      /\ \A i \in DOMAIN history : OwnCall(history, i) => OwnCall(history', i)
  BY <1>1, <1>2, PutFacts DEF HistoryInv, HistoryTypes
<1>4. /\ next' = 1 /\ pc' = "tools" /\ pc = "request" /\ Paired(history)
      /\ UNCHANGED <<sub, job, notices, scarred, dropped>>
  BY DEF ReplyCalls
<1>5. Asked' = Len(history) + 1
  BY <1>3, <1>4 DEF Asked
<1>6. HistoryTypes'
  BY <1>3, <1>4 DEF HistoryInv, HistoryTypes
<1>7. Working'
  BY <1>2, <1>3, <1>4, <1>5 DEF HistoryInv, Working
<1>8. Kept'
  <2>1. OwnCall(history', Len(history) + 1)
    BY <1>2, <1>3 DEF OwnCall
  <2> QED  BY <2>1, <1>3, <1>4, <1>5 DEF Kept, Paired, OwnCall
<1>9. ToldOnce'
  BY <1>1, <1>2, <1>4, PutTold
<1> QED  BY <1>6, <1>7, <1>8, <1>9 DEF HistoryInv

\* A call gets its result.
LEMMA PushStep ==
  ASSUME HistoryInv, pc = "tools", next <= Calls, PushResult,
         sub' = 0, UNCHANGED <<pc, notices, scarred, dropped>>,
         job' \in [Jobs -> {"unused", "running", "ended"}],
         \A j \in Jobs : job'[j] = "ended" <=> job[j] = "ended"
  PROVE  HistoryInv'
<1>1. /\ Asked \in DOMAIN history /\ Asked + (next - 1) = Len(history)
      /\ Calls = history[Asked].calls /\ Calls \in 0..MaxCalls /\ MaxCalls \in Nat
      /\ next \in Nat \ {0} /\ next \in 0..MaxCalls
  BY CallsFacts, MessageFacts DEF HistoryInv, HistoryTypes
<1>2. /\ Tool(next) \in Messages /\ Tool(next).notes = {} /\ Tool(next).calls = 0
      /\ Tool(next).role = "tool" /\ Tool(next).of = next
  BY <1>1, MessageFacts DEF Tool
<1>3. history' = Append(history, Tool(next)) /\ next' = next + 1
  BY DEF PushResult
<1>4. /\ DOMAIN history = 1..Len(history) /\ DOMAIN history' = 1..(Len(history) + 1)
      /\ Len(history) \in Nat /\ history'[Len(history) + 1] = Tool(next)
      /\ history' \in Seq(Messages) /\ Len(history') = Len(history) + 1
      /\ \A i \in 1..Len(history) : history'[i] = history[i]
      /\ \A i \in DOMAIN history : Answers(history, i) => Answers(history', i)
      /\ \A i \in DOMAIN history : OwnCall(history, i) => OwnCall(history', i)
  BY <1>2, <1>3, PutFacts DEF HistoryInv, HistoryTypes
<1>5. Asked' = Asked /\ Asked + next = Len(history) + 1 /\ Asked \in Int
  BY <1>1, <1>3, <1>4 DEF Asked
<1>6. HistoryTypes'
  BY <1>1, <1>3, <1>4 DEF HistoryInv, HistoryTypes
<1>7. Working'
  <2>1. history'[Asked] = history[Asked]
    BY <1>1, <1>4
  <2>2. ASSUME NEW k \in 1..(next' - 1)
        PROVE  history'[Asked + k].role = "tool" /\ history'[Asked + k].of = k
    <3>1. CASE k = next
      BY <3>1, <1>2, <1>4, <1>5
    <3>2. CASE k # next
      <4>1. k \in 1..(next - 1) /\ Asked + k \in 1..Len(history)
        BY <3>2, <1>1, <1>3, <1>4, <1>5
      <4> QED  BY <4>1, <1>4 DEF HistoryInv, Working
    <3> QED  BY <3>1, <3>2
  <2> QED  BY <2>1, <2>2, <1>1, <1>3, <1>5 DEF HistoryInv, Working
<1>8. Kept'
  <2>1. OwnCall(history', Len(history) + 1)
    BY <1>1, <1>2, <1>4, <1>5 DEF OwnCall
  <2>2. Answers(history', Len(history) + 1)
    BY <1>2, <1>4 DEF Answers
  <2> QED  BY <2>1, <2>2, <1>4, <1>5 DEF HistoryInv, Kept
<1>9. ToldOnce'
  BY <1>2, <1>3, PutTold
<1> QED  BY <1>6, <1>7, <1>8, <1>9 DEF HistoryInv

\* The results are put into the history before a request.
LEMMA AskStep ==
  ASSUME HistoryInv, Ask
  PROVE  HistoryInv'
<1>1. /\ pc = "loop" /\ pc' = "request" /\ notices' = {}
      /\ history' = history \o Exchange(notices)
      /\ UNCHANGED <<next, sub, job, scarred, dropped>>
  BY DEF Ask, Inject
<1>2. history \in Seq(Messages) /\ notices \subseteq Jobs /\ next \in Nat \ {0} /\ sub = 0
      /\ scarred \in BOOLEAN
  BY <1>1 DEF HistoryInv, HistoryTypes, Working
<1>3. CASE notices = {}
  <2>1. history' = history
    BY <1>1, <1>2, <1>3, ConcatEmptySeq DEF Exchange
  <2> QED  BY <2>1, <1>1, <1>2, <1>3, RestStep, PairedFacts
<1>4. CASE notices # {}
  <2> DEFINE u == User(notices)
             a == Assistant(0)
             g == Append(history, u)
  <2>1. /\ u \in Messages /\ a \in Messages /\ u.notes = notices /\ a.notes = {}
        /\ u.calls = 0 /\ a.calls = 0 /\ u.role # "tool" /\ a.role # "tool"
    BY <1>2, MessageFacts DEF User, Assistant
  <2> HIDE DEF u, a
  <2>2. /\ g \in Seq(Messages) /\ Len(g) = Len(history) + 1 /\ Len(history) \in Nat
        /\ DOMAIN history = 1..Len(history) /\ DOMAIN g = 1..(Len(history) + 1)
        /\ \A i \in 1..Len(history) : g[i] = history[i]
        /\ g[Len(history) + 1] = u
        /\ \A i \in DOMAIN history : Answers(history, i) => Answers(g, i)
        /\ \A i \in DOMAIN history : OwnCall(history, i) => OwnCall(g, i)
    BY <1>2, <2>1, PutFacts
  <2>3. history' = Append(g, a)
    <3>1. <<u, a>> \in Seq(Messages) /\ Len(<<u, a>>) = 2
      BY <2>1
    <3>2. history' = history \o <<u, a>>
      BY <1>1, <1>4 DEF Exchange, u, a
    <3>3. /\ history' \in Seq(Messages) /\ Len(history') = Len(history) + 2
          /\ \A i \in 1..(Len(history) + 2) :
               history'[i] = IF i <= Len(history) THEN history[i] ELSE <<u, a>>[i - Len(history)]
      BY <3>1, <3>2, <1>2, ConcatProperties
    <3>4. /\ Append(g, a) \in Seq(Messages) /\ Len(Append(g, a)) = Len(history) + 2
          /\ \A i \in 1..(Len(history) + 1) : Append(g, a)[i] = g[i]
          /\ Append(g, a)[Len(history) + 2] = a
      BY <2>1, <2>2, PutFacts
    <3>5. ASSUME NEW i \in 1..(Len(history) + 2) PROVE history'[i] = Append(g, a)[i]
      <4>1. CASE i \in 1..Len(history)
        BY <4>1, <2>2, <3>3, <3>4
      <4>2. CASE i = Len(history) + 1
        BY <4>2, <2>2, <3>3, <3>4
      <4>3. CASE i = Len(history) + 2
        BY <4>3, <2>2, <3>3, <3>4
      <4> QED  BY <4>1, <4>2, <4>3, <2>2
    <3> HIDE DEF g
    <3> QED  BY <3>3, <3>4, <3>5, SeqEqual
  <2> HIDE DEF g
  <2>4. /\ history' \in Seq(Messages) /\ Len(history') = Len(history) + 2
        /\ DOMAIN history' = 1..(Len(history) + 2)
        /\ \A i \in 1..Len(history) : history'[i] = history[i]
        /\ history'[Len(history) + 1] = u /\ history'[Len(history) + 2] = a
        /\ \A i \in DOMAIN history : Answers(history, i) => Answers(history', i)
        /\ \A i \in DOMAIN history : OwnCall(history, i) => OwnCall(history', i)
    <3>1. /\ history' \in Seq(Messages) /\ Len(history') = Len(g) + 1
          /\ DOMAIN history' = 1..(Len(g) + 1)
          /\ \A i \in 1..Len(g) : history'[i] = g[i]
          /\ history'[Len(g) + 1] = a
          /\ \A i \in DOMAIN g : Answers(g, i) => Answers(history', i)
          /\ \A i \in DOMAIN g : OwnCall(g, i) => OwnCall(history', i)
      BY <2>1, <2>2, <2>3, PutFacts
    <3> QED  BY <3>1, <2>2
  <2>5. HistoryTypes'
    BY <1>1, <2>4 DEF HistoryInv, HistoryTypes
  <2>6. Working'
    BY <1>1, <1>2 DEF Working
  <2>7. Kept'
    <3> SUFFICES ASSUME ~scarred PROVE Kept'
      BY <1>1 DEF Kept
    <3>1. \A i \in DOMAIN history : Answers(history', i) /\ OwnCall(history', i)
      BY <1>1, <2>4, PairedFacts DEF Paired, OwnCall
    <3>2. \A i \in {Len(history) + 1, Len(history) + 2} :
            Answers(history', i) /\ OwnCall(history', i)
      BY <2>1, <2>2, <2>4 DEF Answers, OwnCall
    <3>3. \A i \in DOMAIN history' :
            i \in DOMAIN history \/ i \in {Len(history) + 1, Len(history) + 2}
      BY <2>2, <2>4
    <3>4. \A i \in DOMAIN history' : Answers(history', i) /\ OwnCall(history', i)
      BY <3>1, <3>2, <3>3
    <3> QED  BY <3>4 DEF Kept
  <2>8. ToldOnce'
    <3>1. \A i \in DOMAIN history' :
            \/ i \in DOMAIN history /\ history'[i].notes = history[i].notes
            \/ i = Len(history) + 1 /\ history'[i].notes = notices
            \/ i = Len(history) + 2 /\ history'[i].notes = {}
      BY <2>1, <2>2, <2>4
    <3>2. \A j : j \in Told(history') <=> j \in Told(history) \cup notices
      <4>1. Len(history) + 1 \in DOMAIN history' /\ history'[Len(history) + 1].notes = notices
            /\ \A i \in DOMAIN history : i \in DOMAIN history' /\ history'[i] = history[i]
        BY <2>1, <2>2, <2>4
      <4>2. \A j : (\E i \in DOMAIN history' : j \in history'[i].notes)
                     <=> (\E i \in DOMAIN history : j \in history[i].notes) \/ j \in notices
        BY <3>1, <4>1
      <4> QED  BY <4>2, ToldFacts
    <3>3. ASSUME NEW j \in Jobs, NEW i \in DOMAIN history', NEW k \in DOMAIN history',
                 j \in history'[i].notes, j \in history'[k].notes
          PROVE  i = k
      <4>1. CASE j \in notices
        <5>1. \A n \in DOMAIN history : j \notin history[n].notes
          BY <4>1, ToldFacts DEF HistoryInv, ToldOnce
        <5> QED  BY <5>1, <3>1, <3>3
      <4>2. CASE j \notin notices
        BY <4>2, <3>1, <3>3 DEF HistoryInv, ToldOnce
      <4> QED  BY <4>1, <4>2
    <3> QED  BY <3>2, <3>3, <1>1 DEF HistoryInv, ToldOnce
  <2> QED  BY <2>5, <2>6, <2>7, <2>8 DEF HistoryInv
<1> QED  BY <1>3, <1>4

LEMMA LoopHistory ==
  ASSUME HistoryInv, LoopStep
  PROVE  HistoryInv'
<1>1. CASE Ask
  BY <1>1, AskStep
<1>2. CASE ReplyCalls
  BY <1>2, ReplyCallsStep
<1>3. CASE Result
  <2>1. /\ pc = "tools" /\ next <= Calls /\ sub = 0 /\ PushResult
        /\ UNCHANGED <<pc, sub, notices, scarred, dropped>>
        /\ Executed \/ IdleTool \/ BackgroundRun
    BY <1>3 DEF Result, Dispatching
  <2>2. job \in [Jobs -> {"unused", "running", "ended"}]
    BY DEF HistoryInv, HistoryTypes
  <2>3. /\ job' \in [Jobs -> {"unused", "running", "ended"}]
        /\ \A j \in Jobs : job'[j] = "ended" <=> job[j] = "ended"
    BY <2>1, <2>2 DEF Executed, IdleTool, BackgroundRun
  <2> QED  BY <2>1, <2>3, PushStep
<1>4. CASE Delegate
  <2>1. pc = "tools" /\ next <= history[Asked].calls
    BY <1>4, CallsFacts DEF Delegate, Dispatching, HistoryInv
  <2> QED  BY <2>1, <1>4 DEF Delegate, HistoryInv, HistoryTypes, Working, Kept, ToldOnce, Asked
<1>5. CASE SubTurn
  <2>1. sub # 0
    BY <1>5 DEF SubTurn
  <2> QED  BY <2>1, <1>5 DEF SubTurn, HistoryInv, HistoryTypes, Working, Kept, ToldOnce, Asked
<1>6. CASE SubDone
  <2>1. /\ sub # 0 /\ sub' = 0 /\ PushResult
        /\ UNCHANGED <<pc, job, notices, scarred, dropped>>
    BY <1>6 DEF SubDone
  <2>2. pc = "tools" /\ next <= Calls
    BY <2>1, CallsFacts DEF HistoryInv, Working
  <2> QED  BY <2>1, <2>2, PushStep DEF HistoryInv, HistoryTypes
<1>7. CASE ToolsDone
  <2>1. pc = "tools" /\ next > Calls /\ pc' = "loop" /\ next' = 1
        /\ UNCHANGED <<history, sub, job, notices, scarred, dropped>>
    BY <1>7 DEF ToolsDone
  <2>2. sub = 0
    BY <2>1, CallsFacts DEF HistoryInv, Working, HistoryTypes
  <2> QED  BY <2>1, <2>2, RestStep, PairedFacts DEF HistoryInv, HistoryTypes
<1>8. CASE JobEnds
  <2>1. /\ UNCHANGED <<history, pc, next, sub, scarred, dropped>>
        /\ \E j \in Jobs : /\ job[j] = "running" /\ job' = [job EXCEPT ![j] = "ended"]
                           /\ notices' = notices \cup {j}
    BY <1>8 DEF JobEnds
  <2>2. HistoryTypes' /\ Working' /\ Kept'
    BY <2>1 DEF HistoryInv, HistoryTypes, Working, Kept, Asked
  <2>3. ToldOnce'
    BY <2>1 DEF HistoryInv, HistoryTypes, ToldOnce
  <2> QED  BY <2>2, <2>3 DEF HistoryInv
<1>9. CASE Interrupt
  BY <1>9 DEF Interrupt, HistoryInv, HistoryTypes, Working, Kept, ToldOnce, Asked
<1> QED  BY <1>1, <1>2, <1>3, <1>4, <1>5, <1>6, <1>7, <1>8, <1>9 DEF LoopStep

\* The history is cut to a part of it; what that leaves unanswered is noted.
LEMMA CutUnanswered ==
  ASSUME HistoryInv, NEW h, Part(h, history), CutTo(h), Unanswered(h),
         UNCHANGED <<job, notices>>, pc' # "tools", sub' = 0, next' \in Nat \ {0}
  PROVE  HistoryInv'
<1>1. scarred' \in BOOLEAN /\ (~scarred' => Paired(h))
  BY DEF Unanswered, HistoryInv, HistoryTypes
<1> QED  BY <1>1, CutStep DEF CutTo

LEMMA EmergencyStep ==
  ASSUME HistoryInv, EmergencyCompact,
         UNCHANGED <<job, notices>>, pc' # "tools", sub' = 0, next' \in Nat \ {0}
  PROVE  HistoryInv'
<1>1. history \in Seq(Messages) /\ Len(history) \in Nat
  BY HistoryFacts DEF HistoryInv, HistoryTypes
<1>2. CASE Len(history) <= 4
  BY <1>1, <1>2, PartFacts, CutUnanswered DEF EmergencyCompact
<1>3. CASE Len(history) > 4
  <2> DEFINE n == GreaterOf(4, Len(history) \div 4)
             h == SubSeq(history, Len(history) - n + 1, Len(history))
  <2>1. n \in 4..Len(history)
    BY <1>1, <1>3 DEF GreaterOf
  <2> HIDE DEF n
  <2>2. Len(history) - n + 1 \in Int /\ Len(history) - n + 1 >= 1
    BY <1>1, <2>1
  <2>3. Part(h, history)
    BY <1>1, <2>2, PartFacts
  <2>4. CutTo(h) /\ Unanswered(h)
    BY <1>1, <1>3 DEF EmergencyCompact, LastOf, n
  <2> QED  BY <2>3, <2>4, CutUnanswered
<1> QED  BY <1>1, <1>2, <1>3

LEMMA AutoStep ==
  ASSUME HistoryInv, AutoCompact
  PROVE  HistoryInv'
<1>1. history \in Seq(Messages) /\ Len(history) \in Nat /\ next \in Nat \ {0}
  BY HistoryFacts DEF HistoryInv, HistoryTypes
<1> DEFINE c == Compressed(Len(history)) + 1
           h == Summary \o SubSeq(history, c, Len(history))
<1>2. c \in Int /\ c >= 1
  BY <1>1 DEF Compressed, GreaterOf, LesserOf
<1>3. /\ CutTo(h) /\ Unanswered(h) /\ pc = "l2" /\ pc' # "tools"
      /\ UNCHANGED <<next, sub, job, notices>>
  BY DEF AutoCompact
<1> HIDE DEF c
<1>4. Part(h, history)
  BY <1>1, <1>2, PartFacts
<1>5. sub = 0
  BY <1>3 DEF HistoryInv, Working
<1> QED  BY <1>1, <1>3, <1>4, <1>5, CutUnanswered

LEMMA SummaryPaired ==
  Paired(Summary) /\ Paired(<< >>)
<1>1. DOMAIN Summary = {1, 2} /\ Len(Summary) = 2 /\ DOMAIN << >> = {}
  BY DEF Summary
<1>2. \A i \in {1, 2} : Summary[i].calls = 0 /\ Summary[i].role # "tool"
  BY DEF Summary, User, Assistant
<1>3. \A i \in {1, 2} : Answers(Summary, i)
  BY <1>1, <1>2 DEF Answers
<1> QED  BY <1>1, <1>2, <1>3 DEF Paired

LEMMA RewindStep ==
  ASSUME HistoryInv, Rewind
  PROVE  HistoryInv'
<1>1. /\ history \in Seq(Messages) /\ Len(history) \in Nat /\ next \in Nat \ {0}
  BY HistoryFacts DEF HistoryInv, HistoryTypes
<1>2. /\ pc = "idle" /\ UNCHANGED <<pc, next, sub, job, notices>>
      /\ \E n \in 1..2 :
           LET h == SubSeq(history, 1, Len(history) - LesserOf(n, Len(history)))
           IN CutTo(h) /\ Unanswered(h)
  BY DEF Rewind
<1>3. PICK n \in 1..2 :
        /\ CutTo(SubSeq(history, 1, Len(history) - LesserOf(n, Len(history))))
        /\ Unanswered(SubSeq(history, 1, Len(history) - LesserOf(n, Len(history))))
  BY <1>2
<1> DEFINE b == Len(history) - LesserOf(n, Len(history))
<1>4. b \in Int /\ b <= Len(history)
  BY <1>1 DEF LesserOf
<1>5. CutTo(SubSeq(history, 1, b)) /\ Unanswered(SubSeq(history, 1, b))
  BY <1>3
<1> HIDE DEF b
<1>6. Part(SubSeq(history, 1, b), history)
  BY <1>1, <1>4, PartFacts
<1>7. sub = 0
  BY <1>2 DEF HistoryInv, Working
<1> QED  BY <1>1, <1>2, <1>5, <1>6, <1>7, CutUnanswered

LEMMA FullStep ==
  ASSUME HistoryInv, FullCompact \/ New
  PROVE  HistoryInv'
<1>1. /\ history \in Seq(Messages) /\ Len(history) \in Nat /\ next \in Nat \ {0}
  BY HistoryFacts DEF HistoryInv, HistoryTypes
<1>2. /\ pc # "tools" /\ pc' # "tools" /\ UNCHANGED <<next, sub, job, notices>>
      /\ \/ CutTo(Summary) /\ scarred' = FALSE
         \/ CutTo(<< >>) /\ scarred' = FALSE
         \/ UNCHANGED <<history, scarred, dropped>>
  BY DEF FullCompact, New
<1>3. sub = 0
  BY <1>2 DEF HistoryInv, Working
<1>4. Part(Summary, history) /\ Part(<< >>, history)
  BY <1>1, PartFacts
<1>5. CASE CutTo(Summary) /\ scarred' = FALSE
  BY <1>1, <1>2, <1>3, <1>4, <1>5, SummaryPaired, CutStep DEF CutTo
<1>6. CASE CutTo(<< >>) /\ scarred' = FALSE
  BY <1>1, <1>2, <1>3, <1>4, <1>6, SummaryPaired, CutStep DEF CutTo
<1>7. CASE UNCHANGED <<history, scarred, dropped>>
  <2>1. scarred \in BOOLEAN
    BY DEF HistoryInv, HistoryTypes
  <2> QED  BY <1>1, <1>2, <1>3, <1>7, <2>1, RestStep, PairedFacts
<1> QED  BY <1>2, <1>5, <1>6, <1>7

\* Steps that leave the history and what is left of it alone.
LEMMA QuietStep ==
  ASSUME HistoryInv, pc # "tools", pc' # "tools",
         UNCHANGED <<history, next, sub, job, notices, dropped, scarred>>
  PROVE  HistoryInv'
<1>1. sub = 0 /\ scarred \in BOOLEAN /\ next \in Nat \ {0}
  BY DEF HistoryInv, HistoryTypes, Working
<1> QED  BY <1>1, RestStep, PairedFacts

\* A run that ends within its tool calls notes what it leaves unanswered.
LEMMA BrokenStep ==
  ASSUME HistoryInv, pc' # "tools", sub' = 0, next' = 1,
         UNCHANGED <<history, job, notices, dropped>>, Unanswered(history)
  PROVE  HistoryInv'
<1>1. scarred' \in BOOLEAN /\ (~scarred' => Paired(history))
  BY DEF Unanswered, HistoryInv, HistoryTypes
<1> QED  BY <1>1, RestStep

LEMMA RunHistory ==
  ASSUME HistoryInv, Next
  PROVE  HistoryInv'
<1>0. HistoryTypes /\ next \in Nat \ {0} /\ (pc # "tools" => sub = 0)
  BY DEF HistoryInv, HistoryTypes, Working
<1>1. CASE LoopStep
  BY <1>1, LoopHistory
<1>2. CASE Begin
  <2>1. User({}) \in Messages /\ User({}).notes = {} /\ User({}).calls = 0
        /\ User({}).role # "tool"
    BY MessageFacts DEF User
  <2> QED  BY <1>2, <2>1, SayStep DEF Begin
<1>3. CASE Select
  BY <1>3, QuietStep DEF Select
<1>4. CASE Fallback
  BY <1>4, QuietStep DEF Fallback, Exhausted, loop
<1>5. CASE GiveUp
  BY <1>5, QuietStep DEF GiveUp, Exhausted
<1>6. CASE RequestFails
  BY <1>6, QuietStep DEF RequestFails, Failed
<1>7. CASE Overflows
  BY <1>0, <1>7, EmergencyStep DEF Overflows, Recover
<1>8. CASE BadArguments
  BY <1>8, BrokenStep DEF BadArguments, Dispatching, Failed
<1>9. CASE SubFails
  <2>1. sub' = 0 /\ next' = 1 /\ UNCHANGED <<job, notices>>
    BY <1>9 DEF SubFails
  <2>2. CASE \E reason \in Reasons :
               Failed(reason) /\ Unanswered(history) /\ UNCHANGED <<history, dropped>>
    BY <2>1, <2>2, BrokenStep DEF Failed
  <2>3. CASE Recover
    BY <2>1, <2>3, EmergencyStep DEF Recover
  <2> QED  BY <1>9, <2>2, <2>3 DEF SubFails
<1>10. CASE Replied
  <2>1. Assistant(0) \in Messages /\ Assistant(0).notes = {} /\ Assistant(0).calls = 0
        /\ Assistant(0).role # "tool"
    BY MessageFacts DEF Assistant
  <2> QED  BY <1>10, <2>1, SayStep DEF Replied, Succeeded
<1>11. CASE Idled
  <2>1. pc = "tools" /\ next > Calls /\ pc' # "tools" /\ next' = 1
        /\ UNCHANGED <<history, sub, job, notices, scarred, dropped>>
    BY <1>11 DEF Idled, Succeeded
  <2>2. sub = 0
    BY <2>1, CallsFacts DEF HistoryInv, Working, HistoryTypes
  <2> QED  BY <2>1, <2>2, RestStep, PairedFacts DEF HistoryInv, HistoryTypes
<1>12. CASE Interrupted
  BY <1>12, QuietStep DEF Interrupted, Succeeded
<1>13. CASE Micro
  BY <1>13, QuietStep DEF Micro
<1>14. CASE AutoCompact
  BY <1>14, AutoStep
<1>15. CASE SummaryFails
  BY <1>15, QuietStep DEF SummaryFails
<1>16. CASE FullCompact \/ New
  BY <1>16, FullStep
<1>17. CASE Rewind
  BY <1>17, RewindStep
<1>18. CASE Cools
  BY <1>18 DEF Cools, loop, HistoryInv, HistoryTypes, Working, Kept, ToldOnce, Asked
<1> QED  BY <1>1, <1>2, <1>3, <1>4, <1>5, <1>6, <1>7, <1>8, <1>9, <1>10, <1>11, <1>12,
            <1>13, <1>14, <1>15, <1>16, <1>17, <1>18 DEF Next
-----------------------------------------------------------------------------
(* What the steps do to the rotation of the keys.                          *)

LEMMA KeyFacts ==
  /\ Keys \in Nat \ {0} /\ Fallbacks \in Nat
  /\ IsFiniteSet(1..Keys) /\ Cardinality(1..Keys) = Keys
<1>1. Keys \in Nat \ {0} /\ Fallbacks \in Nat
  BY TurnAssumption
<1> QED  BY <1>1, FS_Interval

\* The keys in cooldown can be counted, and are all of them once there are Keys.
LEMMA CoolingFacts ==
  ASSUME NEW C \in SUBSET (1..Keys)
  PROVE  /\ IsFiniteSet(C) /\ Cardinality(C) \in Nat
         /\ Cardinality(C) >= Keys => C = 1..Keys
         /\ \A k : k \notin C => Cardinality(C \cup {k}) = Cardinality(C) + 1
<1>1. /\ IsFiniteSet(C) /\ Cardinality(C) <= Keys
      /\ (Cardinality(C) = Keys => C = 1..Keys)
  BY KeyFacts, FS_Subset, ZenonT(60)
<1>2. Cardinality(C) \in Nat
  BY <1>1, FS_CardinalityType
<1>3. \A k : k \notin C => Cardinality(C \cup {k}) = Cardinality(C) + 1
  BY <1>1, FS_AddElement
<1> QED  BY <1>1, <1>2, <1>3, KeyFacts

LEMMA SomeLeast ==
  ASSUME NEW T \in SUBSET Nat, T # {}
  PROVE  \E k \in T : \A i \in T : k <= i
<1> DEFINE R == OpToRel(<, Nat)
<1>1. IsWellFoundedOn(R, Nat)
  BY NatLessThanWellFounded
<1>2. \A i, k \in Nat : i < k => <<i, k>> \in R
  BY DEF OpToRel
<1> HIDE DEF R
<1>3. PICK k \in T : \A i \in T : <<i, k>> \notin R
  BY <1>1, WFMin
<1>4. ASSUME NEW i \in T PROVE k <= i
  <2>1. i \in Nat /\ k \in Nat
    OBVIOUS
  <2>2. ~(i < k)
    BY <1>2, <1>3, <2>1
  <2> QED  BY <2>1, <2>2
<1> QED  BY <1>3, <1>4

\* There is a first key out of cooldown.
LEMMA SelectedFacts ==
  ASSUME cooling # 1..Keys, cooling \subseteq 1..Keys
  PROVE  Selected \in 1..Keys \ cooling
<1> DEFINE T == 1..Keys \ cooling
<1>1. T # {}
  OBVIOUS
<1>2. T \in SUBSET Nat
  BY KeyFacts
<1>3. \E k \in T : \A i \in T : k <= i
  <2> HIDE DEF T
  <2> QED  BY <1>1, <1>2, SomeLeast
<1> QED  BY <1>3 DEF Selected

RunInv == RunTypes /\ Rotation

\* The run's own variables stay, and the attempt goes on or there is none.
LEMMA RunOnStep ==
  ASSUME RunInv, UNCHANGED <<llm, before, stage, tries, open, soft, cooling>>,
         pc' = pc \/ {pc, pc'} \subseteq Attempt \/ pc' \notin Attempt \cup {"rotate"}
  PROVE  RunInv'
BY DEF RunInv, RunTypes, Rotation, Attempt

LEMMA SelectStep ==
  ASSUME RunInv, Select
  PROVE  RunInv'
<1>1. /\ pc = "rotate" /\ pc' = "loop" /\ tries' = tries + 1 /\ cooling # 1..Keys
      /\ llm' = [key |-> Selected, model |-> ModelOf(stage)] /\ open' = open \ {Selected}
      /\ UNCHANGED <<before, stage, soft, cooling>>
  BY DEF Select, others
<1>2. Selected \in 1..Keys \ cooling
  BY <1>1, SelectedFacts DEF RunInv, RunTypes
<1>3. ModelOf(stage) \in 0..Fallbacks
  BY DEF RunInv, RunTypes, ModelOf, Config
<1>4. llm' \in Config /\ llm'.key = Selected
  BY <1>1, <1>2, <1>3 DEF Config
<1>5. RunTypes'
  <2>1. open' \subseteq 1..Keys /\ cooling' \subseteq 1..Keys
    BY <1>1 DEF RunInv, RunTypes
  <2>2. tries' \in Nat /\ stage' \in 0..Fallbacks /\ before' \in Config
    BY <1>1 DEF RunInv, RunTypes
  <2> QED  BY <1>4, <2>1, <2>2 DEF RunTypes
<1>6. Cardinality(cooling) \in Nat /\ tries \in Nat
  BY CoolingFacts DEF RunInv, RunTypes
<1>7. Rotation'
  BY <1>1, <1>2, <1>4, <1>6 DEF RunInv, Rotation, Attempt
<1> QED  BY <1>5, <1>7 DEF RunInv

LEMMA FailedStep ==
  ASSUME RunInv, pc \in Attempt, NEW reason, Failed(reason)
  PROVE  RunInv'
<1>1. /\ pc' = "rotate" /\ soft' = (soft \/ reason # "cooled")
      /\ cooling' = IF reason = "cooled" THEN cooling \cup {llm.key} ELSE cooling
      /\ UNCHANGED <<llm, before, stage, tries, open>>
  BY DEF Failed
<1>2. llm.key \in 1..Keys /\ cooling \subseteq 1..Keys /\ tries \in Nat
  BY DEF RunInv, RunTypes, Config
<1>3. RunTypes'
  BY <1>1, <1>2 DEF RunInv, RunTypes
<1>4. Rotation'
  <2> SUFFICES ASSUME ~soft, reason = "cooled" PROVE Rotation'
    BY <1>1 DEF Rotation
  <2>1. /\ open \cap cooling = {} /\ tries <= Cardinality(cooling) + 1
        /\ llm.key \notin cooling \cup open
    BY DEF RunInv, Rotation, Attempt
  <2>2. Cardinality(cooling') = Cardinality(cooling) + 1
    BY <1>1, <1>2, <2>1, CoolingFacts
  <2> QED  BY <1>1, <2>1, <2>2 DEF Rotation
<1> QED  BY <1>3, <1>4 DEF RunInv

LEMMA SucceededStep ==
  ASSUME RunInv, Succeeded
  PROVE  RunInv'
<1>1. /\ pc' \in {"idle", "after"} /\ cooling' = cooling \ {llm.key} /\ llm' = llm
      /\ before' = llm' /\ stage' = 0 /\ tries' = 0 /\ open' = {}
  BY DEF Succeeded, Returned
<1>2. RunTypes'
  <2>1. open' \subseteq 1..Keys /\ cooling' \subseteq 1..Keys
    BY <1>1 DEF RunInv, RunTypes
  <2>2. llm' \in Config /\ before' \in Config
    BY <1>1 DEF RunInv, RunTypes
  <2>3. tries' \in Nat /\ stage' \in 0..Fallbacks
    BY <1>1, KeyFacts
  <2> QED  BY <2>1, <2>2, <2>3 DEF RunTypes
<1>3. Rotation'
  BY <1>1 DEF Rotation, Attempt
<1> QED  BY <1>2, <1>3 DEF RunInv

LEMMA RunStep ==
  ASSUME RunInv, HistoryInv, Next
  PROVE  RunInv'
<1>0. llm \in Config /\ (sub # 0 => pc = "tools")
  BY DEF RunInv, RunTypes, HistoryInv, Working
<1>1. CASE LoopStep /\ UNCHANGED <<run, others>>
  <2>1. pc' = pc \/ {pc, pc'} \subseteq Attempt
    BY <1>1 DEF LoopStep, Ask, ReplyCalls, Result, Delegate, SubTurn, SubDone, ToolsDone,
                JobEnds, Interrupt, Attempt
  <2> QED  BY <1>1, <2>1, RunOnStep DEF run, others
<1>2. CASE Begin
  <2>1. /\ pc' = "rotate" /\ before' = llm /\ stage' = 0 /\ tries' = 0
        /\ open' = 1..Keys \ cooling /\ UNCHANGED <<llm, cooling>>
    BY <1>2 DEF Begin
  <2>2. Cardinality(cooling) \in Nat /\ 0 \in 0..Fallbacks
    BY CoolingFacts, KeyFacts DEF RunInv, RunTypes
  <2>3. RunTypes'
    BY <2>1, <2>2 DEF RunInv, RunTypes
  <2>4. Rotation'
    BY <2>1, <2>2 DEF RunInv, RunTypes, Rotation
  <2> QED  BY <2>3, <2>4 DEF RunInv
<1>3. CASE Select
  BY <1>3, SelectStep
<1>4. CASE Fallback
  <2>1. /\ pc = "rotate" /\ stage < Fallbacks /\ stage' = stage + 1 /\ tries' = 0
        /\ llm' = [llm EXCEPT !.model = stage + 1]
        /\ UNCHANGED <<pc, before, open, soft, cooling>>
    BY <1>4 DEF Fallback, Exhausted, loop, others
  <2>2. stage + 1 \in 0..Fallbacks /\ Cardinality(cooling) \in Nat
    BY <2>1, KeyFacts, CoolingFacts DEF RunInv, RunTypes
  <2>3. llm' \in Config
    BY <1>0, <2>1, <2>2 DEF Config
  <2>4. RunTypes'
    BY <2>1, <2>2, <2>3 DEF RunInv, RunTypes
  <2>5. Rotation'
    BY <2>1, <2>2 DEF RunInv, Rotation
  <2> QED  BY <2>4, <2>5 DEF RunInv
<1>5. CASE GiveUp
  BY <1>5 DEF GiveUp, Returned, others, RunInv, RunTypes, Rotation, Attempt
<1>6. CASE RequestFails
  BY <1>6, FailedStep DEF RequestFails, Attempt
<1>7. CASE Overflows
  BY <1>7, RunOnStep DEF Overflows, Recover, Attempt
<1>8. CASE BadArguments
  BY <1>8, FailedStep DEF BadArguments, Dispatching, Attempt
<1>9. CASE SubFails
  <2>1. pc = "tools"
    BY <1>0, <1>9 DEF SubFails
  <2>2. CASE \E reason \in Reasons : Failed(reason)
    BY <2>1, <2>2, FailedStep DEF Attempt
  <2>3. CASE Recover
    BY <2>1, <2>3, RunOnStep DEF Recover, Attempt
  <2> QED  BY <1>9, <2>2, <2>3 DEF SubFails
<1>10. CASE Replied \/ Idled \/ Interrupted
  BY <1>10, SucceededStep DEF Replied, Idled, Interrupted
<1>11. CASE Micro \/ AutoCompact \/ SummaryFails \/ FullCompact \/ Rewind \/ New
  BY <1>11, RunOnStep DEF Micro, AutoCompact, SummaryFails, FullCompact, Rewind, New, run,
                          others, Attempt
<1>12. CASE Cools
  <2>1. /\ UNCHANGED <<pc, llm, before, stage, tries, open>>
        /\ soft' = (pc \notin {"idle", "after", "l2", "l3"}) /\ cooling' \subseteq cooling
    BY <1>12 DEF Cools, loop
  <2> QED  BY <2>1 DEF RunInv, RunTypes, Rotation, Attempt
<1> QED  BY <1>1, <1>2, <1>3, <1>4, <1>5, <1>6, <1>7, <1>8, <1>9, <1>10, <1>11, <1>12
         DEF Next
-----------------------------------------------------------------------------
(* The theorems.                                                           *)

LEMMA TurnInvInit ==
  Init => TurnInv
<1> SUFFICES ASSUME Init PROVE TurnInv
  OBVIOUS
<1>1. /\ history = << >> /\ pc = "idle" /\ next = 1 /\ sub = 0 /\ notices = {} /\ dropped = {}
      /\ job = [j \in Jobs |-> "unused"] /\ scarred = FALSE
  BY DEF Init, LoopInit
<1>2. history \in Seq(Messages) /\ DOMAIN history = {}
  BY <1>1, EmptySeq, LenProperties
<1>3. Told(history) = {}
  BY <1>2 DEF Told
<1>4. HistoryTypes
  <2>1. notices \subseteq Jobs /\ dropped \subseteq Jobs
    BY <1>1
  <2>2. job \in [Jobs -> {"unused", "running", "ended"}]
    BY <1>1
  <2>3. next = 1 /\ scarred = FALSE
    BY <1>1
  <2>4. next \in Nat \ {0}
    BY <2>3
  <2>5. scarred \in BOOLEAN
    BY <2>3
  <2> QED  BY <1>2, <2>1, <2>2, <2>4, <2>5 DEF HistoryTypes
<1>5. Working /\ Kept /\ ToldOnce
  BY <1>1, <1>2, <1>3 DEF Working, Kept, ToldOnce
<1>6. [key |-> 1, model |-> 0] \in Config /\ 0 \in 0..Fallbacks
  BY KeyFacts DEF Config
<1>7. RunTypes
  BY <1>6 DEF Init, RunTypes
<1>8. Rotation
  BY <1>1 DEF Rotation, Attempt
<1> QED  BY <1>4, <1>5, <1>7, <1>8 DEF TurnInv, HistoryInv

LEMMA TurnInvStep ==
  TurnInv /\ [Next]_vars => TurnInv'
<1> SUFFICES ASSUME TurnInv, [Next]_vars PROVE TurnInv'
  OBVIOUS
<1>1. CASE Next
  BY <1>1, RunHistory, RunStep DEF TurnInv, RunInv
<1>2. CASE UNCHANGED vars
  BY <1>2 DEF vars, loop, run, others, TurnInv, HistoryInv, HistoryTypes, Working, Kept,
              ToldOnce, Asked, RunTypes, Rotation
<1> QED  BY <1>1, <1>2

\* Turn: the invariant of a turn's history and of its rotation of keys.
THEOREM TurnInvInvariant ==
  Spec => []TurnInv
<1> QED  BY TurnInvInit, TurnInvStep, PTL DEF Spec

\* The copies of a result are one: it is in one place, and in one message of it.
LEMMA CopiesFacts ==
  ASSUME HistoryInv, NEW x \in Jobs, job[x] = "ended"
  PROVE  Copies(x) = 1
<1> DEFINE C == {i \in DOMAIN history : x \in history[i].notes}
<1>1. \A i, k \in C : i = k
  BY DEF HistoryInv, ToldOnce
<1>2. CASE C = {}
  <2>1. x \notin Told(history) /\ Cardinality(C) = 0
    BY <1>2, ToldFacts, FS_EmptySet
  <2>2. (x \in notices /\ x \notin dropped) \/ (x \notin notices /\ x \in dropped)
    BY <2>1 DEF HistoryInv, ToldOnce
  <2> HIDE DEF C
  <2>3. Copies(x) = Cardinality(C) + (IF x \in notices THEN 1 ELSE 0)
                    + (IF x \in dropped THEN 1 ELSE 0)
    BY DEF Copies, C
  <2> QED  BY <2>1, <2>2, <2>3
<1>3. CASE C # {}
  <2>1. PICK k \in C : C = {k}
    BY <1>1, <1>3
  <2>2. Cardinality(C) = 1
    <3> HIDE DEF C
    <3> QED  BY <2>1, FS_Singleton
  <2>3. x \in Told(history)
    BY <2>1, ToldFacts
  <2>4. x \notin notices /\ x \notin dropped
    BY <2>3 DEF HistoryInv, ToldOnce
  <2> HIDE DEF C
  <2>5. Copies(x) = Cardinality(C) + (IF x \in notices THEN 1 ELSE 0)
                    + (IF x \in dropped THEN 1 ELSE 0)
    BY DEF Copies, C
  <2> QED  BY <2>2, <2>4, <2>5
<1> QED  BY <1>2, <1>3

\* Turn: the result of a background task is told exactly once, whatever edits the history;
\* every request's history pairs calls with results, over any retries, interrupts and
\* injections, unless it is scarred: by malformed arguments or a failed subagent, which
\* leave calls unanswered, or by a rewind or an emergency or automatic compaction.
THEOREM HistoryStaysSound ==
  Spec => []HistorySound
<1>1. TurnInv => HistorySound
  <2> SUFFICES ASSUME TurnInv PROVE HistorySound
    OBVIOUS
  <2>1. RequestsPaired
    BY PairedFacts DEF TurnInv, RequestsPaired
  <2>2. ResultOnce
    BY CopiesFacts DEF TurnInv, ResultOnce
  <2> QED  BY <2>1, <2>2 DEF HistorySound
<1> QED  BY <1>1, TurnInvInvariant, PTL

\* Turn: a turn that fails for want of keys has tried every key that was out of cooldown
\* when it began, for any number of keys and fallback models, unless an attempt failed
\* without a cooldown or a cooldown ended meanwhile.
THEOREM NoKeyLeft ==
  Spec => AllKeysTried
<1>1. TurnInv /\ [Next]_vars => [pc = "rotate" /\ pc' = "idle" => open = {} \/ soft]_vars
  <2> SUFFICES ASSUME TurnInv, Next, pc = "rotate", pc' = "idle", ~soft PROVE open = {}
    OBVIOUS
  <2>1. Exhausted
    BY DEF Next, LoopStep, Ask, ReplyCalls, Result, Delegate, SubTurn, SubDone, ToolsDone,
           JobEnds, Interrupt, Dispatching, Begin, Select, Fallback, GiveUp, RequestFails,
           Overflows, BadArguments, SubFails, Recover, Failed, Replied, Idled, Interrupted,
           Micro, AutoCompact, SummaryFails, FullCompact, Rewind, New, Cools, loop
  <2>2. /\ open \cap cooling = {} /\ tries <= Cardinality(cooling) /\ open \subseteq 1..Keys
        /\ cooling \subseteq 1..Keys
    BY DEF TurnInv, RunTypes, Rotation
  <2>3. cooling = 1..Keys
    BY <2>1, <2>2, CoolingFacts DEF Exhausted
  <2> QED  BY <2>2, <2>3
<1> QED  BY <1>1, TurnInvInvariant, PTL DEF Spec, AllKeysTried
=============================================================================
