----------------------------- MODULE TeamProofs -----------------------------
(***************************************************************************)
(* Proofs about Team and about MessageBus, for any teammates, senders and  *)
(* messages.  Team: a teammate that approved its own shutdown stays shut   *)
(* down, and one re-awakened in its poll goes through another cycle.       *)
(* MessageBus: what an inbox can lose, return twice or out of order, with  *)
(* any number of readers.                                                  *)
(***************************************************************************)
EXTENDS Team, MessageBus, SequenceTheorems, TLAPS

\* An agent in a tool call is a teammate in its cycle or the lead, and an answer being
\* carried out is the one that agent gave to the request.
CallsSound ==
  \A x \in Agents : doing[x] # Nothing =>
    /\ x \in Names => pc[x] = "cycle"
    /\ doing[x].act = "conclude" =>
         /\ doing[x].msg \in DOMAIN requests
         /\ requests[doing[x].msg].by = x /\ requests[doing[x].msg].who = doing[x].to
         /\ requests[doing[x].msg].answer # "pending"

\* Whoever runs is on the roster in memory.
Listed == \A n \in Names : pc[n] # "none" => status[n] # "absent"

\* A teammate that approved its own shutdown is still carrying that out, in its cycle,
\* or it is shut down and has no stage before it that writes another status.
Leaving ==
  \A r \in DOMAIN requests :
    requests[r].answer = "approved" /\ requests[r].by = requests[r].who =>
      \/ budget.faults > 0
      \/ doing[requests[r].who] # Nothing /\ doing[requests[r].who].act = "conclude"
           /\ doing[requests[r].who].msg = r
      \/ /\ status[requests[r].who] = "shutdown"
         /\ pc[requests[r].who] \in {"cycle", "check", "exit", "none"}

TeamInv == TypeOK /\ CallsSound /\ Listed /\ Leaving

Bounds == [ops : 0..MaxOps, faults : 0..MaxFaults, restarts : 0..MaxRestarts]
Calling == [act : {"send", "wake", "conclude"}, to : Agents, msg : 0..MaxOps]

LEMMA NothingFacts ==
  /\ Nothing \notin Calling
  /\ \A c \in Calling : c.act \in {"send", "wake", "conclude"} /\ c.to \in Agents
                        /\ c.msg \in 0..MaxOps
  /\ Lead \notin Names /\ MaxOps \in Nat /\ MaxFaults \in Nat /\ MaxRestarts \in Nat
  /\ WakeCap \in Nat
BY TeamAssumption DEF Calling, Agents

\* Requests by their number.
LEMMA RequestFacts ==
  ASSUME TypeOK
  PROVE  /\ DOMAIN requests = 1..Len(requests) /\ Len(requests) \in Nat
         /\ Len(requests) <= budget.ops /\ budget.ops \in 0..MaxOps
         /\ \A r \in DOMAIN requests :
              /\ requests[r] \in Request /\ requests[r].who \in Names
              /\ requests[r].by \in Agents \cup {Nothing}
<1>1. requests \in Seq(Request)
  BY DEF TypeOK
<1>2. \A q \in Request : q.who \in Names /\ q.by \in Agents \cup {Nothing}
  BY DEF Request
<1>3. \A r \in DOMAIN requests : requests[r] \in Request
  BY <1>1
<1> QED  BY <1>1, <1>2, <1>3 DEF TypeOK

\* What the two counters of the bounds do.
LEMMA OpFacts ==
  ASSUME TypeOK, Op
  PROVE  /\ budget' \in Bounds /\ budget'.ops = budget.ops + 1 /\ budget.ops < MaxOps
         /\ budget'.faults = budget.faults /\ budget'.restarts = budget.restarts
<1>1. budget \in Bounds /\ budget.ops \in Nat /\ budget.ops < MaxOps
      /\ budget' = [budget EXCEPT !.ops = @ + 1]
  BY DEF TypeOK, Op, Bounds
<1>2. budget.ops + 1 \in 0..MaxOps
  BY <1>1, NothingFacts
<1> QED  BY <1>1, <1>2 DEF Bounds

LEMMA FaultFacts ==
  ASSUME TypeOK, Fault
  PROVE  /\ budget' \in Bounds /\ budget'.ops = budget.ops
         /\ budget'.faults > 0 /\ budget'.restarts = budget.restarts
<1>1. budget \in Bounds /\ budget.faults \in Nat /\ budget.faults + 1 \in 0..MaxFaults
      /\ budget' = [budget EXCEPT !.faults = @ + 1]
  BY NothingFacts DEF TypeOK, Fault, Bounds
<1> QED  BY <1>1 DEF Bounds

\* Writing the roster, or failing to.
LEMMA RosterFacts ==
  ASSUME TypeOK, status' \in [Names -> Statuses],
         \/ Written \/ Unwritten
         \/ UNCHANGED <<saved, budget>>
  PROVE  /\ saved' \in [Names -> Statuses] /\ budget' \in Bounds
         /\ budget'.ops = budget.ops /\ budget'.restarts = budget.restarts
         /\ budget.faults > 0 => budget'.faults > 0
<1>1. CASE Written
  BY <1>1 DEF Written, TypeOK, Bounds
<1>2. CASE Unwritten
  <2>1. [n \in Names |-> "absent"] \in [Names -> Statuses]
    BY DEF Statuses
  <2> QED  BY <1>2, <2>1, FaultFacts DEF Unwritten, TypeOK
<1>3. CASE UNCHANGED <<saved, budget>>
  BY <1>3 DEF TypeOK, Bounds
<1> QED  BY <1>1, <1>2, <1>3

LEMMA SetStatusFacts ==
  ASSUME TypeOK, NEW n \in Names, NEW s \in Statuses \ {"absent"}, SetStatus(n, s)
  PROVE  /\ status' \in [Names -> Statuses] /\ \A k \in Names \ {n} : status'[k] = status[k]
         /\ status'[n] = IF status[n] = "absent" THEN "absent" ELSE s
         /\ wired' \subseteq Names /\ saved' \in [Names -> Statuses] /\ budget' \in Bounds
         /\ budget'.ops = budget.ops /\ budget'.restarts = budget.restarts
         /\ budget.faults > 0 => budget'.faults > 0
<1>1. /\ status' \in [Names -> Statuses] /\ \A k \in Names \ {n} : status'[k] = status[k]
      /\ status'[n] = IF status[n] = "absent" THEN "absent" ELSE s
      /\ wired' \subseteq Names
  BY DEF TypeOK, SetStatus
<1>2. Written \/ Unwritten \/ UNCHANGED <<saved, budget>>
  BY DEF SetStatus
<1> QED  BY <1>1, <1>2, RosterFacts

\* A step of one teammate that touches neither calls nor requests: it does not leave
\* the cycle in the middle of a call, nor the way out once shut down.
LEMMA MoveKeeps ==
  ASSUME TeamInv, NEW n \in Names, doing' = doing, requests' = requests,
         \A k \in Names \ {n} : status'[k] = status[k] /\ pc'[k] = pc[k],
         budget'.restarts = budget.restarts, budget.faults > 0 => budget'.faults > 0,
         doing[n] = Nothing \/ pc'[n] = pc[n],
         pc'[n] # "none" => status'[n] # "absent",
         status[n] = "shutdown" /\ pc[n] \in {"cycle", "check", "exit", "none"} =>
           status'[n] = "shutdown" /\ pc'[n] \in {"cycle", "check", "exit", "none"}
  PROVE  CallsSound' /\ Listed' /\ Leaving'
<1> USE DEF TeamInv
<1>1. CallsSound'
  BY DEF CallsSound
<1>2. Listed'
  BY DEF Listed
<1>3. Leaving'
  <2> SUFFICES ASSUME NEW r \in DOMAIN requests, requests[r].answer = "approved",
                      requests[r].by = requests[r].who
               PROVE  Leaving!(r)!2'
    BY DEF Leaving
  <2>1. requests[r].who \in Names
    BY RequestFacts
  <2> QED  BY <2>1 DEF Leaving
<1> QED  BY <1>1, <1>2, <1>3

\* A step of one agent's call that leaves the roster and the tasks alone: requests are
\* made or answered, and an answer to be carried out is the agent's own.
LEMMA CallKeeps ==
  ASSUME TeamInv, NEW x \in Agents, UNCHANGED <<status, pc>>,
         \A y \in Agents \ {x} : doing'[y] = doing[y],
         budget'.restarts = budget.restarts, budget.faults > 0 => budget'.faults > 0,
         doing'[x] # Nothing => doing[x] # Nothing \/ Free(x),
         doing'[x] # Nothing /\ doing'[x].act = "conclude" =>
           /\ doing'[x].msg \in DOMAIN requests' /\ requests'[doing'[x].msg].by = x
           /\ requests'[doing'[x].msg].who = doing'[x].to
           /\ requests'[doing'[x].msg].answer # "pending",
         \A r \in DOMAIN requests :
           /\ r \in DOMAIN requests'
           /\ requests'[r] = requests[r] \/ requests[r].answer = "pending",
         \A r \in DOMAIN requests' :
           requests'[r].answer = "approved" /\ requests'[r].by = requests'[r].who =>
             \/ r \in DOMAIN requests /\ requests'[r] = requests[r]
             \/ /\ doing'[requests'[r].who] # Nothing
                /\ doing'[requests'[r].who].act = "conclude"
                /\ doing'[requests'[r].who].msg = r,
         doing[x] # Nothing /\ doing[x].act = "conclude" => budget'.faults > 0
  PROVE  CallsSound' /\ Listed' /\ Leaving'
<1> USE DEF TeamInv
<1>1. CallsSound'
  <2> SUFFICES ASSUME NEW y \in Agents, doing'[y] # Nothing
               PROVE  CallsSound!(y)!2'
    BY DEF CallsSound
  <2>1. CASE y = x
    BY <2>1 DEF CallsSound, Free
  <2>2. CASE y # x
    BY <2>2 DEF CallsSound
  <2> QED  BY <2>1, <2>2
<1>2. Listed'
  BY DEF Listed
<1>3. Leaving'
  <2> SUFFICES ASSUME NEW r \in DOMAIN requests', requests'[r].answer = "approved",
                      requests'[r].by = requests'[r].who
               PROVE  Leaving!(r)!2'
    BY DEF Leaving
  <2>1. CASE r \in DOMAIN requests /\ requests'[r] = requests[r]
    <3>1. requests[r].who \in Agents
      BY <2>1, RequestFacts DEF Agents
    <3> QED  BY <2>1, <3>1 DEF Leaving
  <2>2. CASE ~(r \in DOMAIN requests /\ requests'[r] = requests[r])
    BY <2>2
  <2> QED  BY <2>1, <2>2
<1> QED  BY <1>1, <1>2, <1>3

\* Where a task was when it was called, or that it works again.
LEMMA CalledFacts ==
  ASSUME TypeOK, NEW n \in Names,
         called' = called \/ Recall(n) \/ called' = [called EXCEPT ![n] = "no"]
  PROVE  called' \in [Names -> Stages \cup {"no", "closed"}]
BY DEF TypeOK, Recall

LEMMA DrainFacts ==
  ASSUME TypeOK, NEW x \in Agents, Drain(x)
  PROVE  /\ inbox' \in [Agents -> SUBSET (0..MaxOps)]
         /\ known' \in [Agents -> SUBSET (1..MaxOps)]
BY NothingFacts DEF TypeOK, Drain

LEMMA WokenFacts ==
  ASSUME TypeOK, NEW n \in Names
  PROVE  Woken(n) \in [Names -> 0..WakeCap]
BY NothingFacts DEF TypeOK, Woken

\* The stages of a teammate that only move it on, and take mail or a wake-up with them.
LEMMA QuietMoves ==
  ASSUME TeamInv, NEW n \in Names,
         \/ Inject(n) \/ EndCycle(n) \/ Test(n) \/ PollWoken(n) \/ PollClosed(n)
         \/ PollTimeout(n) \/ PollMail(n) \/ PollBoard(n)
  PROVE  TeamInv'
<1> USE DEF TeamInv
<1> DEFINE M == Inject(n) \/ EndCycle(n) \/ Test(n) \/ PollWoken(n) \/ PollClosed(n)
                \/ PollTimeout(n) \/ PollMail(n) \/ PollBoard(n)
<1>0. n \in Agents /\ TypeOK
  BY DEF Agents
<1>1. UNCHANGED <<status, saved, wired, requests, doing, budget, called>>
  BY DEF Inject, EndCycle, Test, PollWoken, PollClosed, PollTimeout, PollMail, PollBoard
<1>2. PICK stage \in Stages \ {"none"} :
        /\ pc' = [pc EXCEPT ![n] = stage] /\ pc[n] # "none"
        /\ pc[n] = "cycle" => stage = "cycle" \/ Free(n)
        /\ status[n] = "shutdown" /\ pc[n] \in {"cycle", "check", "exit"} =>
             stage \in {"cycle", "check", "exit"}
  <2>1. CASE Inject(n)
    BY <2>1 DEF Inject, Goto, Stages
  <2>2. CASE EndCycle(n) \/ Test(n)
    BY <2>2, <1>0 DEF EndCycle, Test, Goto, Stages, Free
  <2>3. CASE PollWoken(n) \/ PollClosed(n) \/ PollTimeout(n)
    BY <2>3 DEF PollWoken, PollClosed, PollTimeout, Goto, Stages
  <2>4. CASE PollMail(n)
    BY <2>4 DEF PollMail, Goto, Stages
  <2>5. CASE PollBoard(n)
    BY <2>5 DEF PollBoard, Goto, Stages
  <2> QED  BY <2>1, <2>2, <2>3, <2>4, <2>5
<1>3. /\ pc' \in [Names -> Stages] /\ pc'[n] = stage
      /\ \A k \in Names \ {n} : pc'[k] = pc[k]
  BY <1>2 DEF TypeOK
<1>4. /\ tokens' \in [Names -> 0..WakeCap] /\ inbox' \in [Agents -> SUBSET (0..MaxOps)]
      /\ known' \in [Agents -> SUBSET (1..MaxOps)]
  <2>1. CASE Inject(n) \/ PollMail(n)
    BY <1>0, <2>1, DrainFacts DEF Inject, PollMail, TypeOK
  <2>2. CASE PollWoken(n)
    BY <2>2, NothingFacts DEF PollWoken, TypeOK
  <2>3. CASE EndCycle(n) \/ Test(n) \/ PollClosed(n) \/ PollTimeout(n) \/ PollBoard(n)
    BY <2>3 DEF EndCycle, Test, PollClosed, PollTimeout, PollBoard, TypeOK
  <2> QED  BY <2>1, <2>2, <2>3
<1>5. TypeOK'
  BY <1>1, <1>3, <1>4 DEF TypeOK
<1>6. doing[n] = Nothing \/ pc'[n] = pc[n]
  BY <1>0, <1>2, <1>3 DEF CallsSound, Free
<1>7. CallsSound' /\ Listed' /\ Leaving'
  <2>1. status[n] # "absent"
    BY <1>2 DEF Listed
  <2>2. doing' = doing /\ requests' = requests /\ status' = status /\ budget' = budget
    BY <1>1
  <2> QED  BY <1>2, <1>3, <1>6, <2>1, <2>2, MoveKeeps
<1> QED  BY <1>5, <1>7

\* The steps of a teammate, or of the lead for one, that write its status.
LEMMA StatusMoves ==
  ASSUME TeamInv, NEW n \in Names,
         NotifyIdle(n) \/ Resume(n) \/ Exit(n) \/ Spawn(n) \/ Reawaken(n)
  PROVE  TeamInv'
<1> USE DEF TeamInv
<1>0. n \in Agents /\ TypeOK /\ pc \in [Names -> Stages] /\ status \in [Names -> Statuses]
  BY DEF Agents, TypeOK
<1>1. ASSUME NEW s \in Statuses \ {"absent"}, NEW stage \in Stages, SetStatus(n, s),
             pc' = [pc EXCEPT ![n] = stage], pc[n] \notin {"none", "cycle", "check"},
             UNCHANGED <<inbox, known, requests, doing>>, tokens' \in [Names -> 0..WakeCap],
             called' \in [Names -> Stages \cup {"no", "closed"}],
             pc[n] = "exit" => s = "shutdown" /\ stage = "none"
      PROVE  TeamInv'
  <2>1. /\ status' \in [Names -> Statuses] /\ \A k \in Names \ {n} : status'[k] = status[k]
        /\ status[n] # "absent" /\ status'[n] = s
        /\ wired' \subseteq Names /\ saved' \in [Names -> Statuses] /\ budget' \in Bounds
        /\ budget'.ops = budget.ops /\ budget'.restarts = budget.restarts
        /\ budget.faults > 0 => budget'.faults > 0
    BY <1>0, <1>1, SetStatusFacts DEF Listed
  <2>2. /\ pc' \in [Names -> Stages] /\ pc'[n] = stage
        /\ \A k \in Names \ {n} : pc'[k] = pc[k]
    BY <1>0, <1>1
  <2>3. TypeOK'
    BY <1>1, <2>1, <2>2 DEF TypeOK, Bounds
  <2>4. doing[n] = Nothing
    BY <1>0, <1>1 DEF CallsSound
  <2>5. doing' = doing /\ requests' = requests
    BY <1>1
  <2>6. CallsSound' /\ Listed' /\ Leaving'
    BY <1>1, <2>1, <2>2, <2>4, <2>5, MoveKeeps
  <2> QED  BY <2>3, <2>6
<1>2. CASE NotifyIdle(n)
  <2>1. tokens' \in [Names -> 0..WakeCap]
    BY <1>2 DEF NotifyIdle, TypeOK
  <2>2. called' \in [Names -> Stages \cup {"no", "closed"}]
    BY <1>0, <1>2, CalledFacts DEF NotifyIdle
  <2> QED  BY <1>1, <1>2, <2>1, <2>2 DEF NotifyIdle, Goto, Statuses, Stages
<1>3. CASE Resume(n)
  <2>1. tokens' \in [Names -> 0..WakeCap]
    BY <1>3 DEF Resume, TypeOK
  <2>2. called' \in [Names -> Stages \cup {"no", "closed"}]
    BY <1>0, <1>3, CalledFacts DEF Resume
  <2> QED  BY <1>1, <1>3, <2>1, <2>2 DEF Resume, Goto, Statuses, Stages
<1>4. CASE Exit(n)
  <2>1. tokens' \in [Names -> 0..WakeCap]
    BY <1>4, NothingFacts DEF Exit, TypeOK
  <2>2. called' \in [Names -> Stages \cup {"no", "closed"}]
    BY <1>0, <1>4, CalledFacts DEF Exit
  <2> QED  BY <1>1, <1>4, <2>1, <2>2 DEF Exit, Goto, Statuses, Stages
<1>5. CASE Spawn(n) \/ Reawaken(n)
  <2>1. /\ status' = [status EXCEPT ![n] = "working"] /\ (Written \/ Unwritten)
        /\ UNCHANGED <<inbox, known, requests, doing>> /\ status[n] \in {"absent", "idle"}
        /\ wired' \subseteq Names /\ tokens' \in [Names -> 0..WakeCap]
    BY <1>5, WokenFacts DEF Spawn, Reawaken, TypeOK
  <2>2. PICK stage \in Stages : /\ pc' = [pc EXCEPT ![n] = stage]
                                /\ stage = pc[n] \/ (pc[n] = "none" /\ stage = "inject")
    <3>1. pc' = pc \/ (pc' = [pc EXCEPT ![n] = "inject"] /\ status[n] = "absent")
      BY <1>5 DEF Spawn, Reawaken
    <3>2. pc = [pc EXCEPT ![n] = pc[n]] /\ "inject" \in Stages
      BY <1>0 DEF Stages
    <3> QED  BY <1>0, <3>1, <3>2 DEF Listed
  <2>3. status' \in [Names -> Statuses] /\ status'[n] = "working"
        /\ \A k \in Names \ {n} : status'[k] = status[k]
    BY <1>0, <2>1 DEF Statuses
  <2>4. /\ saved' \in [Names -> Statuses] /\ budget' \in Bounds
        /\ budget'.ops = budget.ops /\ budget'.restarts = budget.restarts
        /\ budget.faults > 0 => budget'.faults > 0
    BY <1>0, <2>1, <2>3, RosterFacts
  <2>5. /\ pc' \in [Names -> Stages] /\ pc'[n] = stage
        /\ \A k \in Names \ {n} : pc'[k] = pc[k]
    BY <1>0, <2>2
  <2>c. called' \in [Names -> Stages \cup {"no", "closed"}]
    BY <1>0, <1>5, CalledFacts DEF Spawn, Reawaken
  <2>6. TypeOK'
    BY <2>1, <2>3, <2>4, <2>5, <2>c DEF TypeOK, Bounds
  <2>7. doing[n] = Nothing \/ pc'[n] = pc[n]
    BY <1>0, <2>2, <2>5 DEF CallsSound
  <2>8. doing' = doing /\ requests' = requests
    BY <2>1
  <2>9. CallsSound' /\ Listed' /\ Leaving'
    BY <2>1, <2>3, <2>4, <2>5, <2>7, <2>8, MoveKeeps
  <2> QED  BY <2>6, <2>9
<1> QED  BY <1>2, <1>3, <1>4, <1>5

\* An agent in a call, by the parts of the call.
LEMMA DoingFacts ==
  ASSUME TypeOK, NEW x \in Agents, doing[x] # Nothing
  PROVE  /\ doing[x] \in Calling /\ doing[x].act \in {"send", "wake", "conclude"}
         /\ doing[x].to \in Agents /\ doing[x].msg \in 0..MaxOps
BY NothingFacts DEF TypeOK, Remainder, Calling

\* A call begins: x will send message m, or conclude request m.
LEMMA BeginFacts ==
  ASSUME TypeOK, NEW x \in Agents, NEW a \in {"send", "conclude"}, NEW to \in Agents,
         NEW m \in 0..MaxOps,
         doing' = [doing EXCEPT ![x] = [act |-> a, to |-> to, msg |-> m]]
  PROVE  /\ doing' \in [Agents -> Remainder] /\ \A y \in Agents \ {x} : doing'[y] = doing[y]
         /\ doing'[x] # Nothing /\ doing'[x].act = a /\ doing'[x].to = to /\ doing'[x].msg = m
<1>1. [act |-> a, to |-> to, msg |-> m] \in Calling
  BY DEF Calling
<1> QED  BY <1>1, NothingFacts DEF TypeOK, Remainder, Calling

\* send_message, and the tools that make a request: its number is the next one.
LEMMA AskSteps ==
  ASSUME TeamInv,
         \/ \E x, to \in Agents : SendMessage(x, to)
         \/ \E n \in Names : RequestShutdown(n) \/ SubmitPlan(n)
  PROVE  TeamInv'
<1> USE DEF TeamInv
<1>0. TypeOK /\ Lead \in Agents /\ Names \subseteq Agents
  BY DEF Agents
<1>1. ASSUME NEW x \in Agents, NEW to \in Agents, NEW m \in 0..MaxOps, Free(x), Op,
             UNCHANGED <<status, saved, wired, tokens, pc, inbox, known, called>>,
             doing' = [doing EXCEPT ![x] = [act |-> "send", to |-> to, msg |-> m]],
             \/ requests' = requests
             \/ \E q \in Request : q.answer = "pending" /\ requests' = Append(requests, q)
      PROVE  TeamInv'
  <2>1. /\ doing' \in [Agents -> Remainder] /\ \A y \in Agents \ {x} : doing'[y] = doing[y]
        /\ doing'[x] # Nothing /\ doing'[x].act = "send"
    BY <1>0, <1>1, BeginFacts
  <2>2. /\ budget' \in Bounds /\ budget'.ops = budget.ops + 1 /\ budget.ops < MaxOps
        /\ budget'.faults = budget.faults /\ budget'.restarts = budget.restarts
    BY <1>0, <1>1, OpFacts
  <2>3. /\ requests' \in Seq(Request) /\ Len(requests') <= budget'.ops
        /\ \A r \in DOMAIN requests : r \in DOMAIN requests' /\ requests'[r] = requests[r]
        /\ \A r \in DOMAIN requests' :
             r \in DOMAIN requests \/ requests'[r].answer = "pending"
    <3>0. requests \in Seq(Request) /\ Len(requests) \in Nat /\ DOMAIN requests = 1..Len(requests)
          /\ Len(requests) <= budget.ops /\ budget.ops \in Nat
      BY <1>0, RequestFacts DEF TypeOK
    <3>1. CASE requests' = requests
      BY <3>0, <3>1, <2>2
    <3>2. ASSUME NEW q \in Request, q.answer = "pending", requests' = Append(requests, q)
          PROVE  <2>3
      <4>1. /\ requests' \in Seq(Request) /\ Len(requests') = Len(requests) + 1
            /\ DOMAIN requests' = 1..(Len(requests) + 1)
            /\ \A r \in 1..Len(requests) : requests'[r] = requests[r]
            /\ requests'[Len(requests) + 1] = q
        BY <3>0, <3>2
      <4> QED  BY <3>0, <3>2, <4>1, <2>2
    <3> QED  BY <1>1, <3>1, <3>2
  <2>4. TypeOK'
    BY <1>0, <1>1, <2>1, <2>2, <2>3 DEF TypeOK, Bounds
  <2>5. doing[x] = Nothing
    BY <1>1 DEF Free
  <2>6. UNCHANGED <<status, pc>>
    BY <1>1
  <2>7. \A r \in DOMAIN requests' :
          requests'[r].answer = "approved" => r \in DOMAIN requests /\ requests'[r] = requests[r]
    BY <2>3
  <2>8. CallsSound' /\ Listed' /\ Leaving'
    BY <1>1, <2>1, <2>2, <2>3, <2>5, <2>6, <2>7, CallKeeps
  <2> QED  BY <2>4, <2>8
<1>2. ASSUME NEW x \in Agents, NEW to \in Agents, SendMessage(x, to) PROVE TeamInv'
  <2>1. 0 \in 0..MaxOps
    BY NothingFacts
  <2>2. /\ Free(x) /\ Op /\ requests' = requests
        /\ UNCHANGED <<status, saved, wired, tokens, pc, inbox, known, called>>
        /\ doing' = [doing EXCEPT ![x] = [act |-> "send", to |-> to, msg |-> 0]]
    BY <1>2 DEF SendMessage, ThenSend
  <2> QED  BY <1>1, <2>1, <2>2
<1>3. ASSUME NEW n \in Names, NEW kind \in {"shutdown", "plan"}, NEW x \in Agents,
             NEW to \in Agents, Free(x), Op,
             requests' = Append(requests, [kind |-> kind, who |-> n, answer |-> "pending",
                                           by |-> Nothing]),
             ThenSend(x, to, Len(requests')),
             UNCHANGED <<status, saved, wired, tokens, pc, inbox, known, called>>
      PROVE  TeamInv'
  <2>1. PICK q \in Request : q.answer = "pending" /\ requests' = Append(requests, q)
    <3>1. [kind |-> kind, who |-> n, answer |-> "pending", by |-> Nothing] \in Request
      BY DEF Request
    <3> QED  BY <1>3, <3>1
  <2>2. Len(requests') = Len(requests) + 1
    BY <1>0, <2>1 DEF TypeOK
  <2>3. Len(requests') \in 0..MaxOps
    BY <1>0, <1>3, <2>2, RequestFacts, OpFacts, NothingFacts
  <2>4. doing' = [doing EXCEPT ![x] = [act |-> "send", to |-> to, msg |-> Len(requests')]]
    BY <1>3 DEF ThenSend
  <2> QED  BY <1>1, <1>3, <2>1, <2>3, <2>4
<1>4. ASSUME NEW n \in Names, RequestShutdown(n) PROVE TeamInv'
  BY <1>0, <1>3, <1>4 DEF RequestShutdown
<1>5. ASSUME NEW n \in Names, SubmitPlan(n) PROVE TeamInv'
  BY <1>0, <1>3, <1>5 DEF SubmitPlan
<1> QED  BY <1>2, <1>4, <1>5

\* respond_plan and the first section of respond_shutdown: a pending request is
\* answered; the lead's answer to a plan is no teammate's answer to its own shutdown.
LEMMA AnswerSteps ==
  ASSUME TeamInv, NEW r \in DOMAIN requests, NEW answer \in Answer,
         RespondPlan(r, answer) \/ \E x \in Agents : RespondShutdown(x, r, answer)
  PROVE  TeamInv'
<1> USE DEF TeamInv
<1>0. /\ TypeOK /\ Lead \in Agents /\ Lead \notin Names /\ Names \subseteq Agents
      /\ requests[r] \in Request /\ requests[r].who \in Names
      /\ requests \in Seq(Request) /\ r \in 0..MaxOps
  BY RequestFacts, NothingFacts, SMTT(60) DEF Agents, TypeOK
<1>1. ASSUME NEW x \in Agents, NEW a \in {"send", "conclude"}, NEW m \in {0, r}, Free(x),
             requests[r].answer = "pending",
             requests' = [requests EXCEPT ![r].answer = answer, ![r].by = x],
             doing' = [doing EXCEPT ![x] = [act |-> a, to |-> requests[r].who, msg |-> m]],
             (a = "send" /\ x = Lead) \/ (a = "conclude" /\ m = r),
             UNCHANGED <<status, saved, wired, tokens, pc, inbox, known, budget, called>>
      PROVE  TeamInv'
  <2>1. requests[r].who \in Agents /\ m \in 0..MaxOps
    BY <1>0, NothingFacts
  <2>2. /\ doing' \in [Agents -> Remainder] /\ \A y \in Agents \ {x} : doing'[y] = doing[y]
        /\ doing'[x] # Nothing /\ doing'[x].act = a /\ doing'[x].to = requests[r].who
        /\ doing'[x].msg = m
    BY <1>0, <1>1, <2>1, BeginFacts, ZenonT(60)
  <2> DEFINE q == [requests[r] EXCEPT !.answer = answer, !.by = x]
  <2>3. /\ q \in Request /\ q.answer = answer /\ q.by = x /\ q.who = requests[r].who
        /\ answer # "pending"
    BY <1>0 DEF Request, Answer
  <2>4. requests' = [requests EXCEPT ![r] = q]
    BY <1>1
  <2> HIDE DEF q
  <2>5. /\ requests' \in Seq(Request) /\ DOMAIN requests' = DOMAIN requests /\ requests'[r] = q
        /\ Len(requests') = Len(requests)
        /\ \A k \in DOMAIN requests \ {r} : requests'[k] = requests[k]
    BY <1>0, <2>3, <2>4, ExceptSeq
  <2>6. TypeOK'
    BY <1>0, <1>1, <2>2, <2>5 DEF TypeOK
  <2>7. doing[x] = Nothing /\ UNCHANGED <<status, pc>> /\ budget' = budget
    BY <1>1 DEF Free
  <2>8. doing'[x].act = "conclude" =>
          /\ doing'[x].msg \in DOMAIN requests' /\ requests'[doing'[x].msg].by = x
          /\ requests'[doing'[x].msg].who = doing'[x].to
          /\ requests'[doing'[x].msg].answer # "pending"
    BY <1>1, <2>2, <2>3, <2>5
  <2>9. \A k \in DOMAIN requests :
          /\ k \in DOMAIN requests'
          /\ requests'[k] = requests[k] \/ requests[k].answer = "pending"
    BY <1>1, <2>5
  <2>10. ASSUME NEW k \in DOMAIN requests', requests'[k].answer = "approved",
                requests'[k].by = requests'[k].who
         PROVE  \/ k \in DOMAIN requests /\ requests'[k] = requests[k]
                \/ /\ doing'[requests'[k].who] # Nothing
                   /\ doing'[requests'[k].who].act = "conclude"
                   /\ doing'[requests'[k].who].msg = k
    BY <1>0, <1>1, <2>2, <2>3, <2>5, <2>10
  <2>11. CallsSound' /\ Listed' /\ Leaving'
    BY <1>1, <2>2, <2>7, <2>8, <2>9, <2>10, CallKeeps
  <2> QED  BY <2>6, <2>11
<1>2. CASE RespondPlan(r, answer)
  BY <1>0, <1>1, <1>2 DEF RespondPlan, ThenSend
<1>3. ASSUME NEW x \in Agents, RespondShutdown(x, r, answer) PROVE TeamInv'
  BY <1>1, <1>3 DEF RespondShutdown
<1> QED  BY <1>2, <1>3

\* A call goes on or ends without writing the roster, and the lead reads its mail.
LEMMA CallSteps ==
  ASSUME TeamInv, NEW x \in Agents,
         Send(x) \/ SendError(x) \/ Wake(x) \/ (x = Lead /\ LeadInject)
  PROVE  TeamInv'
<1> USE DEF TeamInv
<1>0. TypeOK /\ doing \in [Agents -> Remainder] /\ Nothing \in Remainder
  BY DEF TypeOK, Remainder
<1>1. ASSUME NEW d \in Remainder, doing' = [doing EXCEPT ![x] = d],
             d = Nothing \/ (doing[x] # Nothing /\ d.act = "wake") \/ d = doing[x],
             UNCHANGED <<status, saved, wired, pc, requests, called>>,
             tokens' \in [Names -> 0..WakeCap], inbox' \in [Agents -> SUBSET (0..MaxOps)],
             known' \in [Agents -> SUBSET (1..MaxOps)], budget' \in Bounds,
             budget'.ops = budget.ops, budget'.restarts = budget.restarts,
             budget.faults > 0 => budget'.faults > 0,
             doing[x] # Nothing /\ doing[x].act = "conclude" => budget'.faults > 0
      PROVE  TeamInv'
  <2>1. /\ doing' \in [Agents -> Remainder] /\ \A y \in Agents \ {x} : doing'[y] = doing[y]
        /\ doing'[x] = d
    BY <1>0, <1>1
  <2>2. TypeOK'
    BY <1>0, <1>1, <2>1 DEF TypeOK, Bounds
  <2>3. doing'[x] # Nothing /\ doing'[x].act = "conclude" => doing'[x] = doing[x]
    BY <1>1, <2>1
  <2>4. UNCHANGED <<status, pc>> /\ requests' = requests
    BY <1>1
  <2>5. doing'[x] # Nothing => doing[x] # Nothing
    BY <1>1, <2>1
  <2>6. doing'[x] # Nothing /\ doing'[x].act = "conclude" =>
          /\ doing'[x].msg \in DOMAIN requests' /\ requests'[doing'[x].msg].by = x
          /\ requests'[doing'[x].msg].who = doing'[x].to
          /\ requests'[doing'[x].msg].answer # "pending"
    BY <2>3, <2>4 DEF CallsSound
  <2>7. CallsSound' /\ Listed' /\ Leaving'
    BY <1>1, <2>1, <2>4, <2>5, <2>6, CallKeeps
  <2> QED  BY <2>2, <2>7
<1>2. CASE Send(x)
  <2>1. /\ doing[x] \in Calling /\ doing[x].act = "send" /\ doing[x].to \in Agents
        /\ doing[x].msg \in 0..MaxOps /\ doing[x] # Nothing
    BY <1>0, <1>2, DoingFacts DEF Send, Doing
  <2>2. PICK d \in Remainder : /\ doing' = [doing EXCEPT ![x] = d]
                               /\ d = Nothing \/ d.act = "wake"
    <3> DEFINE e == [doing[x] EXCEPT !.act = "wake"]
    <3>1. e \in Remainder /\ e.act = "wake"
      BY <2>1 DEF Remainder, Calling
    <3>2. doing' = [doing EXCEPT ![x] = Nothing] \/ doing' = [doing EXCEPT ![x] = e]
      BY <1>2 DEF Send
    <3> HIDE DEF e
    <3> QED  BY <1>0, <3>1, <3>2
  <2>3. inbox' \in [Agents -> SUBSET (0..MaxOps)]
    BY <1>0, <1>2, <2>1 DEF Send, Mail, TypeOK
  <2>4. UNCHANGED <<status, saved, wired, tokens, pc, known, requests, budget, called>>
    BY <1>2 DEF Send
  <2> QED  BY <1>0, <1>1, <2>1, <2>2, <2>3, <2>4 DEF TypeOK, Bounds
<1>3. CASE SendError(x)
  <2>1. /\ Fault /\ doing' = [doing EXCEPT ![x] = Nothing]
        /\ UNCHANGED <<status, saved, wired, tokens, pc, inbox, known, requests, called>>
    BY <1>3 DEF SendError
  <2>2. /\ budget' \in Bounds /\ budget'.ops = budget.ops
        /\ budget'.faults > 0 /\ budget'.restarts = budget.restarts
    BY <1>0, <2>1, FaultFacts
  <2> QED  BY <1>0, <1>1, <2>1, <2>2 DEF TypeOK
<1>4. CASE Wake(x)
  <2>1. /\ doing[x] # Nothing /\ doing[x].act = "wake" /\ tokens' = Woken(doing[x].to)
        /\ doing' = [doing EXCEPT ![x] = Nothing]
        /\ UNCHANGED <<status, saved, wired, pc, inbox, known, requests, budget, called>>
    BY <1>4 DEF Wake, Doing
  <2>2. tokens' \in [Names -> 0..WakeCap]
    <3>1. CASE doing[x].to \in Names
      BY <1>0, <2>1, <3>1, WokenFacts
    <3>2. CASE doing[x].to \notin Names
      BY <1>0, <2>1, <3>2 DEF TypeOK, Woken
    <3> QED  BY <3>1, <3>2
  <2> QED  BY <1>0, <1>1, <2>1, <2>2 DEF TypeOK, Bounds
<1>5. CASE x = Lead /\ LeadInject
  <2>1. /\ Drain(x)
        /\ UNCHANGED <<status, saved, wired, tokens, pc, requests, doing, budget, called>>
        /\ doing[x] = Nothing
    BY <1>5 DEF LeadInject, Free
  <2>2. doing' = [doing EXCEPT ![x] = Nothing]
    BY <1>0, <2>1
  <2> QED  BY <1>0, <1>1, <2>1, <2>2, DrainFacts DEF TypeOK, Bounds
<1> QED  BY <1>2, <1>3, <1>4, <1>5

\* respond_shutdown carries out an approval: its own target is in its cycle, and shut
\* down from here on.
LEMMA ConcludeStep ==
  ASSUME TeamInv, NEW x \in Agents, Conclude(x)
  PROVE  TeamInv'
<1> USE DEF TeamInv
<1>0. TypeOK /\ doing \in [Agents -> Remainder] /\ Nothing \in Remainder
  BY DEF TypeOK, Remainder
<1>1. PICK n \in Names, k \in DOMAIN requests :
        /\ doing[x] # Nothing /\ doing[x].act = "conclude" /\ doing[x].msg = k
        /\ doing[x].to = n /\ requests[k].by = x /\ requests[k].who = n
        /\ x \in Names => pc[x] = "cycle"
  BY <1>0, RequestFacts DEF CallsSound, Conclude, Doing
<1>2. /\ doing' = [doing EXCEPT ![x] = Nothing] /\ Mail(Lead, 0)
      /\ UNCHANGED <<tokens, pc, known, requests, called>>
      /\ IF requests[k].answer = "approved" THEN SetStatus(n, "shutdown")
         ELSE UNCHANGED <<status, saved, wired, budget>>
  BY <1>1 DEF Conclude
<1>3. doing'[x] = Nothing /\ \A y \in Agents \ {x} : doing'[y] = doing[y]
  BY <1>0, <1>2
<1>4. /\ status' \in [Names -> Statuses] /\ \A u \in Names \ {n} : status'[u] = status[u]
      /\ status'[n] \in {status[n], "shutdown"}
      /\ requests[k].answer = "approved" /\ status[n] # "absent" => status'[n] = "shutdown"
      /\ status[n] = "absent" <=> status'[n] = "absent"
      /\ wired' \subseteq Names /\ saved' \in [Names -> Statuses] /\ budget' \in Bounds
      /\ budget'.ops = budget.ops /\ budget'.restarts = budget.restarts
      /\ budget.faults > 0 => budget'.faults > 0
  <2>1. CASE requests[k].answer = "approved"
    <3>1. SetStatus(n, "shutdown") /\ "shutdown" \in Statuses \ {"absent"}
      BY <1>2, <2>1 DEF Statuses
    <3> QED  BY <1>0, <3>1, SetStatusFacts
  <2>2. CASE requests[k].answer # "approved"
    BY <1>0, <1>2, <2>2 DEF TypeOK, Bounds
  <2> QED  BY <2>1, <2>2
<1>5. TypeOK'
  <2>1. inbox' \in [Agents -> SUBSET (0..MaxOps)] /\ doing' \in [Agents -> Remainder]
    <3>1. inbox[Lead] \cup {0} \in SUBSET (0..MaxOps)
      BY <1>0, NothingFacts DEF TypeOK, Agents
    <3> QED  BY <1>0, <1>2, <3>1 DEF TypeOK, Mail
  <2> QED  BY <1>0, <1>2, <1>4, <2>1 DEF TypeOK, Bounds
<1>6. CallsSound'
  BY <1>2, <1>3 DEF CallsSound
<1>7. Listed'
  BY <1>2, <1>4 DEF Listed
<1>8. Leaving'
  <2> SUFFICES ASSUME NEW r \in DOMAIN requests, requests[r].answer = "approved",
                      requests[r].by = requests[r].who, ~(budget'.faults > 0)
               PROVE  Leaving!(r)!2'
    BY <1>2 DEF Leaving
  <2>1. requests[r].who \in Names /\ requests[r].who \in Agents /\ ~(budget.faults > 0)
    BY <1>0, <1>4, RequestFacts DEF Agents
  <2>2. Leaving!(r)!2
    BY DEF Leaving
  <2>3. CASE status[requests[r].who] = "shutdown"
             /\ pc[requests[r].who] \in {"cycle", "check", "exit", "none"}
    BY <1>2, <1>4, <2>1, <2>3
  <2>4. CASE doing[requests[r].who] # Nothing /\ doing[requests[r].who].act = "conclude"
             /\ doing[requests[r].who].msg = r
    <3>1. CASE requests[r].who = x
      <4>1. k = r /\ n = x /\ pc[x] = "cycle"
        BY <1>1, <2>1, <2>4, <3>1
      <4>2. status'[n] = "shutdown"
        BY <1>4, <4>1 DEF Listed
      <4> QED  BY <1>2, <3>1, <4>1, <4>2
    <3>2. CASE requests[r].who # x
      <4>1. doing'[requests[r].who] = doing[requests[r].who] /\ requests' = requests
        BY <1>2, <1>3, <2>1, <3>2
      <4> QED  BY <2>4, <4>1
    <3> QED  BY <3>1, <3>2
  <2> QED  BY <2>1, <2>2, <2>3, <2>4
<1> QED  BY <1>5, <1>6, <1>7, <1>8

LEMMA RestartStep ==
  ASSUME TeamInv, Restart
  PROVE  TeamInv'
<1>1. TypeOK /\ budget \in Bounds /\ budget.restarts < MaxRestarts
      /\ budget' = [budget EXCEPT !.restarts = @ + 1]
  BY DEF TeamInv, TypeOK, Restart, Bounds
<1>2. budget' \in Bounds /\ budget'.restarts # 0 /\ budget'.ops = budget.ops /\ budget.ops \in Nat
  BY <1>1, NothingFacts DEF Bounds
<1>3. TypeOK'
  <2>1. << >> \in Seq(Request) /\ Len(<< >>) = 0
    OBVIOUS
  <2> QED  BY <1>1, <1>2, <2>1, NothingFacts DEF Restart, TypeOK, Bounds, Stages, Remainder
<1>4. CallsSound' /\ Listed' /\ Leaving'
  BY <1>2 DEF Restart, CallsSound, Listed, Leaving
<1> QED  BY <1>3, <1>4 DEF TeamInv

LEMMA TeamInvInit ==
  Init => TeamInv
<1> SUFFICES ASSUME Init PROVE TeamInv
  OBVIOUS
<1>1. TypeOK
  <2>1. << >> \in Seq(Request) /\ Len(<< >>) = 0
    OBVIOUS
  <2> QED  BY <2>1, NothingFacts DEF Init, TypeOK, Statuses, Stages, Remainder
<1>2. CallsSound /\ Listed /\ Leaving
  BY DEF Init, CallsSound, Listed, Leaving
<1> QED  BY <1>1, <1>2 DEF TeamInv

LEMMA TeamInvStep ==
  TeamInv /\ [Next]_vars => TeamInv'
<1> SUFFICES ASSUME TeamInv, [Next]_vars PROVE TeamInv'
  OBVIOUS
<1>1. CASE UNCHANGED vars
  BY <1>1 DEF vars, TeamInv, TypeOK, CallsSound, Listed, Leaving
<1>2. CASE Tool
  BY <1>2, StatusMoves, AskSteps, AnswerSteps DEF Tool
<1>3. ASSUME NEW x \in Agents, Call(x) PROVE TeamInv'
  BY <1>3, CallSteps, ConcludeStep DEF Call
<1>4. ASSUME NEW n \in Names, Loop(n) PROVE TeamInv'
  BY <1>4, QuietMoves, StatusMoves DEF Loop
<1>5. CASE LeadInject
  BY <1>5, CallSteps DEF Agents
<1>6. CASE Restart
  BY <1>6, RestartStep
<1> QED  BY <1>1, <1>2, <1>3, <1>4, <1>5, <1>6 DEF Next

\* Team: the invariant, the types among it, whatever the agents' calls interleave with.
THEOREM TeamInvInvariant ==
  Spec => []TeamInv
<1> QED  BY TeamInvInit, TeamInvStep, PTL DEF Spec

\* Team: once a teammate has approved its own shutdown and the answer was carried out,
\* no later write of its task puts another status in its place.
THEOREM ShutdownStays ==
  Spec => []ApprovedHeeded
<1>1. TeamInv => ApprovedHeeded
  <2> SUFFICES ASSUME TeamInv, NEW r \in DOMAIN requests, requests[r].answer = "approved",
                      requests[r].by = requests[r].who
               PROVE  ApprovedHeeded!(r)!2
    BY DEF ApprovedHeeded
  <2>1. requests[r].who \in Agents
    BY RequestFacts DEF TeamInv, Agents
  <2> QED  BY <2>1 DEF TeamInv, Leaving, Doing
<1> QED  BY <1>1, TeamInvInvariant, PTL

\* A member called while its task waited has a wake-up in its channel until the task takes
\* it, and then the task is on its way to the next cycle.
CallsWait ==
  \A n \in Names : Called(n) =>
    (pc[n] = "poll" /\ tokens[n] > 0 /\ tokens[n] \in Nat) \/ pc[n] = "resume"

LEMMA WokenGrows ==
  ASSUME TypeOK, NEW n \in Names, tokens' = Woken(n)
  PROVE  /\ \A k \in Names : tokens[k] > 0 => tokens'[k] > 0
         /\ n \in wired /\ pc[n] \notin {"none", "exit"} => tokens'[n] > 0
BY NothingFacts, TeamAssumption DEF TypeOK, Woken

\* A step that calls nobody, takes no wake-up and moves no task that was called.
LEMMA CallsWaitKept ==
  ASSUME CallsWait, TypeOK', UNCHANGED called,
         \A n \in Names : Called(n) =>
           /\ pc'[n] = pc[n] \/ (pc[n] = "poll" /\ pc'[n] = "resume")
           /\ pc'[n] = "poll" => (tokens[n] > 0 => tokens'[n] > 0)
  PROVE  CallsWait'
<1>1. \A n \in Names : tokens'[n] \in Nat
  BY NothingFacts DEF TypeOK
<1> QED  BY <1>1 DEF CallsWait, Called

LEMMA CallsWaitStep ==
  ASSUME TeamInv, TypeOK', CallsWait, [Next]_vars
  PROVE  CallsWait'
<1>0. /\ TypeOK /\ Names \subseteq Agents
      /\ \A n \in Names : tokens[n] \in Nat /\ tokens'[n] \in Nat
  BY NothingFacts DEF TeamInv, TypeOK, Agents
<1>1. ASSUME UNCHANGED <<called, pc, tokens>>
      PROVE  CallsWait'
  BY <1>0, <1>1, CallsWaitKept
<1>2. ASSUME NEW n \in Names, Spawn(n)
      PROVE  CallsWait'
  <2>1. pc[n] = "none" /\ UNCHANGED <<called, tokens>>
        /\ \A k \in Names \ {n} : pc'[k] = pc[k]
    BY <1>2 DEF Spawn, TeamInv, Listed, TypeOK
  <2>2. ~Called(n)
    BY <2>1 DEF CallsWait
  <2> QED  BY <1>0, <2>1, <2>2, CallsWaitKept
<1>3. ASSUME NEW n \in Names, Reawaken(n)
      PROVE  CallsWait'
  <2>1. /\ tokens' = Woken(n) /\ pc' = pc
        /\ called'[n] = IF n \in wired THEN pc[n] ELSE "closed"
        /\ \A k \in Names \ {n} : called'[k] = called[k]
    BY <1>0, <1>3 DEF Reawaken, Recall, TypeOK
  <2>2. ASSUME NEW k \in Names \ {n}, Called(k)'
        PROVE  (pc[k] = "poll" /\ tokens'[k] > 0) \/ pc[k] = "resume"
    BY <1>0, <2>1, <2>2, WokenGrows DEF CallsWait, Called
  <2>3. ASSUME Called(n)'
        PROVE  (pc[n] = "poll" /\ tokens'[n] > 0) \/ pc[n] = "resume"
    BY <1>0, <2>1, <2>3, WokenGrows DEF Called
  <2> QED  BY <1>0, <2>1, <2>2, <2>3 DEF CallsWait
<1>4. ASSUME NEW x \in Agents, Call(x)
      PROVE  CallsWait'
  <2>1. CASE Send(x) \/ SendError(x) \/ Conclude(x)
    BY <1>1, <2>1 DEF Send, SendError, Conclude
  <2>2. CASE Wake(x)
    <3>1. UNCHANGED <<called, pc>> /\ tokens' = Woken(doing[x].to)
      BY <2>2 DEF Wake
    <3>2. \A k \in Names : tokens[k] > 0 => tokens'[k] > 0
      <4>1. CASE doing[x].to \in Names
        BY <1>0, <3>1, <4>1, WokenGrows
      <4>2. CASE doing[x].to \notin Names
        BY <1>0, <3>1, <4>2 DEF Woken, TypeOK
      <4> QED  BY <4>1, <4>2
    <3> QED  BY <1>0, <3>1, <3>2, CallsWaitKept
  <2> QED  BY <1>4, <2>1, <2>2 DEF Call
<1>5. ASSUME NEW n \in Names, Loop(n)
      PROVE  CallsWait'
  <2>1. CASE PollWoken(n)
    <3>1. /\ called' = called /\ pc[n] = "poll" /\ pc'[n] = "resume"
          /\ \A k \in Names \ {n} : pc'[k] = pc[k] /\ tokens'[k] = tokens[k]
      BY <1>0, <2>1 DEF PollWoken, Goto, TypeOK, Stages
    <3> QED  BY <1>0, <3>1, CallsWaitKept
  <2>2. CASE Resume(n)
    <3>1. /\ called'[n] = "no" /\ tokens' = tokens
          /\ \A k \in Names \ {n} : pc'[k] = pc[k] /\ called'[k] = called[k]
      BY <1>0, <2>2 DEF Resume, Goto, TypeOK
    <3> QED  BY <3>1 DEF CallsWait, Called
  <2>3. CASE \/ Inject(n) \/ EndCycle(n) \/ Test(n) \/ NotifyIdle(n) \/ PollClosed(n)
             \/ PollTimeout(n) \/ PollMail(n) \/ PollBoard(n) \/ Exit(n)
    <3>1. /\ called' = called
          /\ \A k \in Names \ {n} : pc'[k] = pc[k] /\ tokens'[k] = tokens[k]
      BY <1>0, <2>3 DEF Inject, EndCycle, Test, NotifyIdle, PollClosed, PollTimeout, PollMail,
                        PollBoard, Exit, Goto, TypeOK
    <3>2. ~(pc[n] = "poll" /\ tokens[n] > 0) /\ pc[n] # "resume"
      BY <1>0, <2>3 DEF Inject, EndCycle, Test, Free, NotifyIdle, PollClosed, PollTimeout,
                        PollMail, PollBoard, Exit
    <3>3. ~Called(n)
      BY <3>2 DEF CallsWait
    <3> QED  BY <1>0, <3>1, <3>3, CallsWaitKept
  <2> QED  BY <1>5, <2>1, <2>2, <2>3 DEF Loop
<1>6. CASE \/ LeadInject \/ UNCHANGED vars
           \/ \E n \in Names : RequestShutdown(n) \/ SubmitPlan(n)
           \/ \E x, to \in Agents : SendMessage(x, to)
           \/ \E r \in DOMAIN requests, a \in Answer :
                RespondPlan(r, a) \/ \E x \in Agents : RespondShutdown(x, r, a)
  BY <1>1, <1>6 DEF LeadInject, vars, RequestShutdown, SubmitPlan, SendMessage, RespondPlan,
                    RespondShutdown
<1>7. CASE Restart
  BY <1>7 DEF Restart, CallsWait, Called
<1> QED  BY <1>2, <1>3, <1>4, <1>5, <1>6, <1>7 DEF Next, Tool

\* Team: a member whose spawn is answered "re-awakened" while its task waits in its poll, or
\* has found work there, goes through another cycle before the task ends.
THEOREM RecallIsServed ==
  Spec => []ReawakenedServed
<1>1. Init => CallsWait
  BY DEF Init, CallsWait, Called
<1>2. TeamInv /\ TeamInv' /\ CallsWait /\ [Next]_vars => CallsWait'
  BY CallsWaitStep DEF TeamInv
<1>3. CallsWait => ReawakenedServed
  BY DEF CallsWait, ReawakenedServed
<1> QED  BY <1>1, <1>2, <1>3, TeamInvInvariant, PTL DEF Spec

-----------------------------------------------------------------------------
(* MessageBus: one inbox, for any senders and any number of messages.      *)

Items == Messages \cup {NL}
BusTypes ==
  /\ file \in Seq(Items) /\ sent \in [Senders -> 0..MaxSends] /\ half \subseteq Senders
  /\ buffer \in [Readers -> {Closed} \cup Seq(Items)] /\ received \in Seq(Seq(Items))

\* A reader at work has read every message of the file whose send met no reader: what it
\* truncates, it returns.
ReadersSawAll ==
  \A m \in Sent \ touched, r \in Readers :
    buffer[r] # Closed /\ m \in Parsed(file) => m \in Parsed(buffer[r])

BusInv == BusTypes /\ ReadersSawAll /\ LostOnlyByOverlap

LEMMA NewlineFacts == NL \notin Messages
BY BusAssumption DEF Messages

LEMMA BusTypesStep ==
  ASSUME BusTypes, [BusNext]_busvars
  PROVE  BusTypes'
<1> USE DEF BusTypes
<1>1. ASSUME NEW s \in Senders, SendRecord(s)
      PROVE  BusTypes'
  <2>1. sent[s] + 1 \in 1..MaxSends
    BY <1>1, BusAssumption DEF SendRecord
  <2>2. <<s, sent'[s]>> \in Items /\ sent' \in [Senders -> 0..MaxSends]
    BY <1>1, <2>1, BusAssumption DEF SendRecord, Items, Messages
  <2>3. file' \in Seq(Items)
    BY <1>1, <2>2, AppendProperties DEF SendRecord
  <2> QED  BY <1>1, <2>2, <2>3 DEF SendRecord
<1>2. ASSUME NEW s \in Senders, SendNewline(s)
      PROVE  BusTypes'
  <2>1. NL \in Items
    BY DEF Items
  <2>2. file' \in Seq(Items)
    BY <1>2, <2>1, AppendProperties DEF SendNewline
  <2> QED  BY <1>2, <2>2 DEF SendNewline
<1>3. ASSUME NEW s \in Senders, SendCut(s)
      PROVE  BusTypes'
  BY <1>3 DEF SendCut
<1>4. ASSUME NEW r \in Readers, ReadFile(r)
      PROVE  BusTypes'
  BY <1>4 DEF ReadFile
<1>5. ASSUME NEW r \in Readers, Truncate(r)
      PROVE  BusTypes'
  <2>1. buffer[r] \in Seq(Items) /\ << >> \in Seq(Items)
    BY <1>5, EmptySeq DEF Truncate
  <2>2. received' \in Seq(Seq(Items))
    BY <1>5, <2>1, AppendProperties DEF Truncate, Answers
  <2> QED  BY <1>5, <2>1, <2>2 DEF Truncate
<1>6. CASE UNCHANGED busvars
  BY <1>6 DEF busvars
<1> QED  BY <1>1, <1>2, <1>3, <1>4, <1>5, <1>6 DEF BusNext

\* A line that is one record stays one, unless the next record joins it; and a record
\* that is appended makes no other one a line of its own.
LEMMA AppendLines ==
  ASSUME file \in Seq(Items), NEW e \in Items, file' = Append(file, e)
  PROVE  /\ \A i \in Lines(file) :
              i < Len(file) \/ e = NL => i \in Lines(file') /\ file'[i] = file[i]
         /\ \A i \in Lines(file') : i # Len(file) + 1 => i \in Lines(file) /\ file'[i] = file[i]
         /\ \A i \in Lines(file') : i = Len(file) + 1 => file'[i] = e /\ e # NL
         /\ e # NL /\ (Len(file) > 0 => file[Len(file)] = NL) => Len(file) + 1 \in Lines(file')
         /\ file'[Len(file) + 1] = e
<1>1. /\ Len(file') = Len(file) + 1 /\ DOMAIN file' = 1..Len(file') /\ DOMAIN file = 1..Len(file)
      /\ Len(file) \in Nat /\ file'[Len(file) + 1] = e
      /\ \A i \in 1..Len(file) : file'[i] = file[i]
  BY AppendProperties
<1>2. \A i \in Lines(file) : i < Len(file) \/ e = NL => i \in Lines(file') /\ file'[i] = file[i]
  BY <1>1 DEF Lines
<1>3. \A i \in Lines(file') : i # Len(file) + 1 => i \in Lines(file) /\ file'[i] = file[i]
  BY <1>1, SMTT(60) DEF Lines
<1>4. \A i \in Lines(file') : i = Len(file) + 1 => file'[i] = e /\ e # NL
  BY <1>1, ZenonT(60) DEF Lines
<1>5. ASSUME e # NL, Len(file) > 0 => file[Len(file)] = NL
      PROVE  Len(file) + 1 \in Lines(file')
  <2>1. Len(file) + 1 > 1 => Len(file) > 0 /\ Len(file) \in 1..Len(file)
    BY <1>1
  <2>2. /\ (Len(file) + 1) - 1 = Len(file) /\ ~(Len(file) + 1 < Len(file'))
        /\ Len(file) + 1 \in DOMAIN file'
    BY <1>1
  <2>3. file'[Len(file) + 1] # NL
    BY <1>1, <1>5
  <2>4. Len(file) + 1 > 1 => file'[Len(file)] = NL
    BY <1>1, <1>5, <2>1, SMTT(60)
  <2>5. Len(file) + 1 > 1 => file'[(Len(file) + 1) - 1] = NL
    BY <2>2, <2>4
  <2> QED  BY <2>2, <2>3, <2>5 DEF Lines
<1> QED  BY <1>1, <1>2, <1>3, <1>4, <1>5

\* The messages under way are those that were before, and the one that a send begins.
LEMMA SentGrows ==
  ASSUME BusTypes, NEW s \in Senders, SendRecord(s)
  PROVE  Sent' = Sent \cup {<<s, sent'[s]>>}
<1>1. sent[s] + 1 \in 1..MaxSends /\ sent'[s] = sent[s] + 1
      /\ \A t \in Senders : sent[t] \in Nat /\ (t # s => sent'[t] = sent[t])
  BY BusAssumption DEF SendRecord, BusTypes
<1>2. Messages' = Messages
  BY DEF Messages
<1>3. \A t \in Senders, k \in 1..MaxSends :
        k <= sent'[t] <=> k <= sent[t] \/ <<t, k>> = <<s, sent'[s]>>
  BY <1>1, BusAssumption
<1> QED  BY <1>1, <1>2, <1>3 DEF Sent, Messages

LEMMA AnswersFacts ==
  ASSUME BusTypes, NEW f \in Seq(Items), received' = Answers(f)
  PROVE  /\ \A k \in DOMAIN received : k \in DOMAIN received' /\ received'[k] = received[k]
         /\ \A k \in DOMAIN received' :
              k \in DOMAIN received \/ (k = Len(received) + 1 /\ received'[k] = f)
         /\ Lines(f) # {} =>
              Len(received) + 1 \in DOMAIN received' /\ received'[Len(received) + 1] = f
<1>1. CASE Lines(f) = {}
  BY <1>1 DEF Answers
<1>2. CASE Lines(f) # {}
  <2>1. received' = Append(received, f)
    BY <1>2 DEF Answers
  <2>2. /\ DOMAIN received = 1..Len(received) /\ Len(received) \in Nat
        /\ Len(received') = Len(received) + 1 /\ DOMAIN received' = 1..Len(received')
        /\ received'[Len(received) + 1] = f
        /\ \A k \in 1..Len(received) : received'[k] = received[k]
    BY <2>1, AppendProperties DEF BusTypes
  <2> QED  BY <2>2
<1> QED  BY <1>1, <1>2

\* Truncation loses only what nobody has read.
LEMMA BusInvStep ==
  ASSUME BusInv, [BusNext]_busvars
  PROVE  BusInv'
<1>0. BusTypes /\ BusTypes'
  BY BusTypesStep DEF BusInv
<1>1. ASSUME NEW s \in Senders, SendRecord(s)
      PROVE  (ReadersSawAll /\ LostOnlyByOverlap)'
  <2> DEFINE e == <<s, sent'[s]>>
  <2>1. e \in Messages /\ e \in Items /\ e # NL
    <3>1. sent'[s] \in 1..MaxSends
      BY <1>0, <1>1, BusAssumption DEF SendRecord, BusTypes
    <3> QED  BY <3>1, NewlineFacts DEF Messages, Items
  <2>2. /\ file \in Seq(Items) /\ file' = Append(file, e) /\ received' = received
        /\ buffer' = buffer /\ touched \subseteq touched' /\ Unfinished \subseteq touched'
        /\ Unfinished # {} \/ Reading # {} => e \in touched'
    BY <1>0, <1>1 DEF SendRecord, BusTypes
  <2>3. Sent' = Sent \cup {e}
    BY <1>0, <1>1, SentGrows
  <2> HIDE DEF e
  <2>a. /\ \A i \in Lines(file) : i < Len(file) => i \in Lines(file') /\ file'[i] = file[i]
        /\ \A i \in Lines(file') :
             IF i = Len(file) + 1 THEN file'[i] = e
             ELSE i \in Lines(file) /\ file'[i] = file[i]
    <3>1. file \in Seq(Items) /\ e \in Items /\ file' = Append(file, e)
      BY <2>1, <2>2
    <3> QED  BY <3>1, AppendLines
  <2>4. ASSUME NEW m \in Sent' \ touched', NEW r \in Readers,
               buffer'[r] # Closed, m \in Parsed(file)'
        PROVE  m \in Parsed(buffer[r])'
    <3>1. m # e /\ m \in Sent \ touched /\ buffer[r] # Closed
      BY <2>2, <2>3, <2>4 DEF Reading
    <3>2. PICK i \in Lines(file') : m = file'[i]
      BY <2>4 DEF Parsed, Lines
    <3>3. i \in Lines(file) /\ file'[i] = file[i]
      BY <2>a, <3>1, <3>2
    <3>4. m \in Parsed(file)
      BY <3>2, <3>3 DEF Parsed
    <3>5. m \in Parsed(buffer[r])
      BY <3>1, <3>4 DEF BusInv, ReadersSawAll
    <3> QED  BY <2>2, <3>5 DEF Parsed, Lines
  <2>5. ASSUME NEW m \in Sent' \ touched'
        PROVE  LostOnlyByOverlap!(m)'
    <3>1. CASE m = e
      <4>1. Len(file) > 0 => file[Len(file)] = NL
        <5>1. Len(file) > 0 => Len(file) \in DOMAIN file
          BY <2>2
        <5> QED  BY <2>2, <2>5, <3>1, <5>1 DEF Unfinished
      <4>2. Len(file) + 1 \in Lines(file') /\ file'[Len(file) + 1] = e
        BY <2>1, <2>2, <4>1, AppendLines
      <4> QED  BY <3>1, <4>2 DEF Parsed, Lines
    <3>2. CASE m # e
      <4>1. m \in Sent \ touched
        BY <2>2, <2>3, <2>5, <3>2
      <4>2. CASE m \in Parsed(file)
        <5>1. PICK i \in Lines(file) : m = file[i]
          BY <4>2 DEF Parsed
        <5>2. i \in 1..Len(file) /\ file[i] # NL
          BY <2>2, <5>1 DEF Lines
        <5>3. i # Len(file)
          <6>1. i = Len(file) => m \in Unfinished
            BY <2>2, <5>1, <5>2 DEF Unfinished
          <6> QED  BY <2>2, <2>5, <6>1
        <5>4. i < Len(file)
          BY <2>2, <5>2, <5>3
        <5>5. i \in Lines(file') /\ file'[i] = m
          BY <2>a, <5>1, <5>4
        <5> QED  BY <5>5 DEF Parsed, Lines
      <4> QED  BY <2>2, <4>1, <4>2 DEF BusInv, LostOnlyByOverlap, Parsed, Lines
    <3> QED  BY <3>1, <3>2
  <2> QED  BY <2>4, <2>5 DEF ReadersSawAll, LostOnlyByOverlap
<1>2. ASSUME NEW s \in Senders, SendNewline(s)
      PROVE  (ReadersSawAll /\ LostOnlyByOverlap)'
  <2>1. /\ file \in Seq(Items) /\ file' = Append(file, NL) /\ received' = received
        /\ buffer' = buffer /\ touched' = touched /\ Sent' = Sent /\ NL \in Items
    BY <1>0, <1>2 DEF SendNewline, BusTypes, Sent, Messages, Items
  <2>2. Parsed(file') = Parsed(file)
    <3>1. \A i \in Lines(file) : i \in Lines(file') /\ file'[i] = file[i]
      BY <2>1, AppendLines
    <3>2. \A i \in Lines(file') : i \in Lines(file) /\ file'[i] = file[i]
      BY <2>1, AppendLines
    <3> QED  BY <3>1, <3>2 DEF Parsed
  <2>3. Parsed(file)' = Parsed(file') /\ \A r \in Readers : Parsed(buffer[r])' = Parsed(buffer[r])
    BY <2>1 DEF Parsed, Lines
  <2>4. \A k \in DOMAIN received : Parsed(received[k])' = Parsed(received[k])
    BY <2>1 DEF Parsed, Lines
  <2> QED  BY <2>1, <2>2, <2>3, <2>4 DEF BusInv, ReadersSawAll, LostOnlyByOverlap
<1>3. ASSUME NEW s \in Senders, SendCut(s)
      PROVE  (ReadersSawAll /\ LostOnlyByOverlap)'
  BY <1>3 DEF SendCut, BusInv, ReadersSawAll, LostOnlyByOverlap, Sent, Messages, Parsed, Lines
<1>4. ASSUME NEW r \in Readers, ReadFile(r)
      PROVE  (ReadersSawAll /\ LostOnlyByOverlap)'
  <2>1. /\ buffer[r] = Closed /\ UNCHANGED <<file, sent, received, touched>>
        /\ \A q \in Readers : buffer'[q] = IF q = r THEN file ELSE buffer[q]
        /\ Sent' = Sent
    BY <1>0, <1>4 DEF ReadFile, BusTypes, Sent, Messages
  <2>2. ReadersSawAll'
    BY <2>1 DEF BusInv, ReadersSawAll, Parsed, Lines
  <2>3. LostOnlyByOverlap'
    BY <2>1 DEF BusInv, LostOnlyByOverlap, Parsed, Lines
  <2> QED  BY <2>2, <2>3
<1>5. ASSUME NEW r \in Readers, Truncate(r)
      PROVE  (ReadersSawAll /\ LostOnlyByOverlap)'
  <2>1. /\ buffer[r] # Closed /\ file' = << >> /\ touched' = touched /\ Sent' = Sent
        /\ \A q \in Readers : q # r => buffer'[q] = buffer[q]
        /\ received' = Answers(buffer[r]) /\ buffer[r] \in Seq(Items)
    BY <1>0, <1>5 DEF Truncate, BusTypes, Sent, Messages
  <2>2. Parsed(file)' = {}
    BY <2>1 DEF Parsed, Lines
  <2>3. \A m \in Parsed(buffer[r]) : \E k \in DOMAIN received' : m \in Parsed(received'[k])
    <3>1. \A m \in Parsed(buffer[r]) : Lines(buffer[r]) # {}
      BY DEF Parsed
    <3> QED  BY <1>0, <2>1, <3>1, AnswersFacts
  <2>4. \A k \in DOMAIN received : k \in DOMAIN received' /\ received'[k] = received[k]
    BY <1>0, <2>1, AnswersFacts
  <2>5. ASSUME NEW m \in Sent' \ touched'
        PROVE  LostOnlyByOverlap!(m)'
    <3>1. m \in Sent \ touched
      BY <2>1, <2>5
    <3>2. CASE m \in Parsed(buffer[r]) \/ m \in Parsed(file)
      <4>1. m \in Parsed(buffer[r])
        BY <2>1, <3>1, <3>2 DEF BusInv, ReadersSawAll
      <4> QED  BY <2>3, <4>1 DEF Parsed, Lines
    <3>3. CASE \E k \in DOMAIN received : m \in Parsed(received[k])
      BY <2>4, <3>3 DEF Parsed, Lines
    <3>4. CASE \E q \in Readers : q # r /\ buffer[q] # Closed /\ m \in Parsed(buffer[q])
      BY <2>1, <3>4 DEF Parsed, Lines
    <3> QED  BY <3>1, <3>2, <3>3, <3>4 DEF BusInv, LostOnlyByOverlap
  <2> QED  BY <2>2, <2>5 DEF ReadersSawAll, LostOnlyByOverlap
<1>6. ASSUME UNCHANGED busvars
      PROVE  (ReadersSawAll /\ LostOnlyByOverlap)'
  <2>1. Sent' = Sent /\ touched' = touched /\ buffer' = buffer /\ received' = received
    BY <1>6 DEF busvars, Sent, Messages
  <2>2. /\ Parsed(file)' = Parsed(file)
        /\ \A r \in Readers : Parsed(buffer[r])' = Parsed(buffer[r])
        /\ \A k \in DOMAIN received : Parsed(received[k])' = Parsed(received[k])
    BY <1>6 DEF busvars, Parsed, Lines
  <2> QED  BY <2>1, <2>2 DEF BusInv, ReadersSawAll, LostOnlyByOverlap
<1> QED  BY <1>0, <1>1, <1>2, <1>3, <1>4, <1>5, <1>6 DEF BusNext, BusInv

\* MessageBus: with any number of readers at work at once, what a reader truncates away
\* and does not return is of sends that overlapped it or another line.
THEOREM BusInvInvariant ==
  BusSpec => []BusInv
<1>1. BusInit => BusInv
  <2> SUFFICES ASSUME BusInit
               PROVE  BusInv
    OBVIOUS
  <2>1. BusTypes
    BY EmptySeq, BusAssumption DEF BusInit, BusTypes
  <2>2. Sent = {}
    BY BusAssumption DEF BusInit, Sent, Messages
  <2> QED  BY <2>1, <2>2 DEF BusInv, ReadersSawAll, LostOnlyByOverlap
<1> QED  BY <1>1, BusInvStep, PTL DEF BusSpec

\* The messages of a sender stand in the file in the order it sent them, after all those
\* that were returned; and what a reader holds is how the file begins, unless another one
\* read meanwhile.
InFile(j) == j \in DOMAIN file /\ file[j] # NL
FileInOrder ==
  /\ \A j \in DOMAIN file : InFile(j) => file[j][2] <= sent[file[j][1]]
  /\ \A i, j \in DOMAIN file :
       i < j /\ InFile(i) /\ InFile(j) /\ file[i][1] = file[j][1] => file[i][2] < file[j][2]
AnswersBefore ==
  \A x \in Returned :
    /\ Message(x) \in Messages /\ Message(x)[2] <= sent[Message(x)[1]]
    /\ \A j \in DOMAIN file :
         InFile(j) /\ Message(x)[1] = file[j][1] => Message(x)[2] < file[j][2]
InHand(r, i) == i \in DOMAIN buffer[r] /\ buffer[r][i] # NL
BuffersSent ==
  \A r \in Reading : \A i \in DOMAIN buffer[r] :
    InHand(r, i) => buffer[r][i] \in Messages /\ buffer[r][i][2] <= sent[buffer[r][i][1]]
ReadIsPrefix ==
  \A r \in Reading :
    \/ \A i \in DOMAIN buffer[r] : i \in DOMAIN file /\ buffer[r][i] = file[i]
    \/ Records(buffer[r]) \subseteq crossed
TwoReadsCross ==
  \A r, q \in Reading : r # q => Records(buffer[r]) \subseteq crossed

ReadsInv == BuffersSent /\ ReadIsPrefix /\ TwoReadsCross
OrderInv == BusTypes /\ FileInOrder /\ AnswersBefore /\ ReadsInv /\ SeenInOrder

LEMMA FileItems ==
  ASSUME BusTypes, NEW j, InFile(j)
  PROVE  file[j] \in Messages /\ j \in Nat
BY DEF BusTypes, InFile, Items

\* What no answer changes, and what an answer adds.
LEMMA SameReturned ==
  ASSUME received' = received
  PROVE  Returned' = Returned /\ \A x \in Returned : Message(x)' = Message(x)
BY DEF Returned, Message, Lines

LEMMA MoreReturned ==
  ASSUME BusTypes, NEW f \in Seq(Items), received' = Answers(f)
  PROVE  /\ \A x \in Returned' : x \in Returned \/
              (\E i \in Lines(f) : x = <<Len(received) + 1, i>> /\ Message(x)' = f[i])
         /\ \A x \in Returned : Message(x)' = Message(x) /\ x[1] < Len(received) + 1
<1>1. \A k \in DOMAIN received : k \in Nat /\ k < Len(received) + 1
  BY DEF BusTypes
<1>2. \A x : x \in Returned <=>
               \E k \in DOMAIN received : \E i \in Lines(received[k]) : x = <<k, i>>
  BY DEF Returned
<1>3. \A x : x \in Returned' <=>
               \E k \in DOMAIN received' : \E i \in Lines(received'[k]) : x = <<k, i>>
  BY DEF Returned, Lines
<1>4. /\ \A k \in DOMAIN received : k \in DOMAIN received' /\ received'[k] = received[k]
      /\ \A k \in DOMAIN received' :
           k \in DOMAIN received \/ (k = Len(received) + 1 /\ received'[k] = f)
      /\ Lines(f) # {} =>
           Len(received) + 1 \in DOMAIN received' /\ received'[Len(received) + 1] = f
  BY AnswersFacts
<1>5. ASSUME NEW x \in Returned'
      PROVE  x \in Returned \/
             (\E i \in Lines(f) : x = <<Len(received) + 1, i>> /\ Message(x)' = f[i])
  <2>1. PICK k \in DOMAIN received' : \E i \in Lines(received'[k]) : x = <<k, i>>
    BY <1>3
  <2>2. PICK i \in Lines(received'[k]) : x = <<k, i>>
    BY <2>1
  <2>3. Message(x)' = received'[k][i]
    BY <2>2 DEF Message
  <2>4. CASE k \in DOMAIN received
    BY <1>2, <1>4, <2>2, <2>4
  <2>5. CASE k = Len(received) + 1 /\ received'[k] = f
    BY <2>2, <2>3, <2>5
  <2> QED  BY <1>4, <2>4, <2>5
<1>6. ASSUME NEW x \in Returned
      PROVE  Message(x)' = Message(x) /\ x[1] < Len(received) + 1
  <2>1. PICK k \in DOMAIN received : \E i \in Lines(received[k]) : x = <<k, i>>
    BY <1>2
  <2>2. x[1] = k /\ received'[k] = received[k]
    BY <1>4, <2>1
  <2> QED  BY <1>1, <2>2 DEF Message
<1> QED  BY <1>5, <1>6

LEMMA ReturnedPairs ==
  ASSUME BusTypes, NEW x \in Returned
  PROVE  x[1] \in Nat /\ x[2] \in Nat /\ Message(x) # NL
<1>1. PICK k \in DOMAIN received : \E i \in Lines(received[k]) : x = <<k, i>>
  BY DEF Returned
<1>2. PICK i \in Lines(received[k]) : x = <<k, i>>
  BY <1>1
<1>3. k \in Nat /\ received[k] \in Seq(Items)
  BY DEF BusTypes
<1>4. i \in Nat /\ received[k][i] # NL
  BY <1>2, <1>3 DEF Lines
<1> QED  BY <1>2, <1>3, <1>4 DEF Message

\* What the readers hold, through a step: a reader that is not alone holds crossed messages.
LEMMA ReadsInvStep ==
  ASSUME BusTypes, FileInOrder, ReadsInv, [BusNext]_busvars
  PROVE  ReadsInv'
<1>0. /\ Messages' = Messages
      /\ \A m \in Messages : m[1] \in Senders /\ m[2] \in Nat
  BY BusAssumption DEF Messages
<1>1. ASSUME UNCHANGED <<buffer, crossed>>,
             \A j \in DOMAIN file : j \in DOMAIN file' /\ file'[j] = file[j],
             \A s \in Senders : sent[s] \in Nat /\ sent'[s] \in Nat /\ sent[s] <= sent'[s]
      PROVE  ReadsInv'
  <2>1. Reading' = Reading
    BY <1>1 DEF Reading
  <2>2. BuffersSent'
    <3> SUFFICES ASSUME NEW r \in Reading, NEW i \in DOMAIN buffer[r], InHand(r, i)
                 PROVE  /\ buffer[r][i] \in Messages
                        /\ buffer[r][i][2] <= sent'[buffer[r][i][1]]
      BY <1>0, <1>1, <2>1 DEF BuffersSent, InHand
    <3>1. buffer[r][i] \in Messages /\ buffer[r][i][2] <= sent[buffer[r][i][1]]
      BY DEF ReadsInv, BuffersSent
    <3>2. buffer[r][i][1] \in Senders /\ buffer[r][i][2] \in Nat
      BY <1>0, <3>1
    <3> QED  BY <1>1, <3>1, <3>2
  <2>3. ReadIsPrefix'
    BY <1>1, <2>1 DEF ReadsInv, ReadIsPrefix, Records
  <2>4. TwoReadsCross'
    BY <1>1, <2>1 DEF ReadsInv, TwoReadsCross, Records
  <2> QED  BY <2>2, <2>3, <2>4 DEF ReadsInv
<1>2. \A s \in Senders : sent[s] \in Nat
  BY BusAssumption DEF BusTypes
<1>3. ASSUME NEW s \in Senders, SendRecord(s)
      PROVE  ReadsInv'
  <2>1. /\ UNCHANGED <<buffer, crossed>> /\ file' = Append(file, <<s, sent'[s]>>)
        /\ file \in Seq(Items) /\ <<s, sent'[s]>> \in Items
        /\ \A t \in Senders : sent'[t] \in Nat /\ sent[t] <= sent'[t]
    <3>1. sent'[s] = sent[s] + 1 /\ sent'[s] \in 1..MaxSends
          /\ \A t \in Senders : t # s => sent'[t] = sent[t]
      BY <1>3, <1>2, BusAssumption DEF SendRecord, BusTypes
    <3>2. \A t \in Senders : sent'[t] \in Nat /\ sent[t] <= sent'[t]
      BY <1>2, <3>1
    <3> QED  BY <1>3, <3>1, <3>2 DEF SendRecord, BusTypes, Items, Messages
  <2>2. \A j \in DOMAIN file : j \in DOMAIN file' /\ file'[j] = file[j]
    BY <2>1, AppendProperties
  <2> QED  BY <1>1, <1>2, <2>1, <2>2
<1>4. ASSUME NEW s \in Senders, SendNewline(s)
      PROVE  ReadsInv'
  <2>1. /\ UNCHANGED <<buffer, crossed, sent>> /\ file' = Append(file, NL)
        /\ file \in Seq(Items) /\ NL \in Items
    BY <1>4 DEF SendNewline, BusTypes, Items
  <2>2. \A j \in DOMAIN file : j \in DOMAIN file' /\ file'[j] = file[j]
    BY <2>1, AppendProperties
  <2> QED  BY <1>1, <1>2, <2>1, <2>2
<1>5. ASSUME NEW s \in Senders, SendCut(s)
      PROVE  ReadsInv'
  BY <1>1, <1>2, <1>5 DEF SendCut
<1>6. ASSUME NEW r \in Readers, ReadFile(r)
      PROVE  ReadsInv'
  <2>1. /\ UNCHANGED <<file, sent>> /\ buffer'[r] = file /\ r \notin Reading
        /\ \A q \in Readers : q # r => buffer'[q] = buffer[q]
        /\ \A q \in Reading' : q = r \/ q \in Reading
        /\ crossed \subseteq crossed'
    BY <1>6 DEF ReadFile, Reading, BusTypes
  <2>2. Reading # {} => /\ Records(file) \subseteq crossed'
                        /\ \A q \in Reading : Records(buffer[q]) \subseteq crossed'
    BY <1>6 DEF ReadFile
  <2>3. \A q \in Reading : q \in Readers /\ q # r /\ buffer'[q] = buffer[q]
    BY <2>1 DEF Reading
  <2>4. BuffersSent'
    <3> SUFFICES ASSUME NEW q \in Reading', NEW i \in DOMAIN buffer'[q], InHand(q, i)'
                 PROVE  /\ buffer'[q][i] \in Messages
                        /\ buffer'[q][i][2] <= sent[buffer'[q][i][1]]
      BY <1>0, <2>1 DEF BuffersSent
    <3>1. CASE q = r
      <4>1. InFile(i) /\ buffer'[q][i] = file[i] /\ i \in DOMAIN file
        BY <2>1, <3>1 DEF InFile, InHand
      <4>2. file[i] \in Messages
        BY <4>1, FileItems
      <4> QED  BY <4>1, <4>2 DEF FileInOrder
    <3>2. CASE q \in Reading
      <4>1. buffer'[q] = buffer[q] /\ InHand(q, i) /\ i \in DOMAIN buffer[q]
        BY <2>3, <3>2 DEF InHand
      <4> QED  BY <3>2, <4>1 DEF ReadsInv, BuffersSent
    <3> QED  BY <2>1, <3>1, <3>2
  <2>5. ReadIsPrefix'
    <3> SUFFICES ASSUME NEW q \in Reading'
                 PROVE  \/ \A i \in DOMAIN buffer'[q] : i \in DOMAIN file /\ buffer'[q][i] = file[i]
                        \/ {buffer'[q][i] : i \in DOMAIN buffer'[q]} \ {NL} \subseteq crossed'
      BY <2>1 DEF ReadIsPrefix, Records
    <3>1. CASE q = r
      BY <2>1, <3>1
    <3>2. CASE q \in Reading
      BY <2>1, <2>3, <3>2 DEF ReadsInv, ReadIsPrefix, Records
    <3> QED  BY <2>1, <3>1, <3>2
  <2>6. TwoReadsCross'
    <3> SUFFICES ASSUME NEW p \in Reading', NEW q \in Reading', p # q
                 PROVE  {buffer'[p][i] : i \in DOMAIN buffer'[p]} \ {NL} \subseteq crossed'
      BY DEF TwoReadsCross, Records
    <3>1. Reading # {}
      BY <2>1
    <3>2. CASE p = r
      BY <2>1, <2>2, <3>1, <3>2 DEF Records
    <3>3. CASE p \in Reading
      BY <2>2, <2>3, <3>1, <3>3 DEF Records
    <3> QED  BY <2>1, <3>2, <3>3
  <2> QED  BY <2>4, <2>5, <2>6 DEF ReadsInv
<1>7. ASSUME NEW r \in Readers, Truncate(r)
      PROVE  ReadsInv'
  <2>1. /\ r \in Reading /\ UNCHANGED <<sent, crossed>>
        /\ \A q \in Reading' : q \in Reading /\ q # r /\ buffer'[q] = buffer[q]
    BY <1>7 DEF Truncate, Reading, BusTypes
  <2>2. BuffersSent'
    BY <1>0, <2>1 DEF ReadsInv, BuffersSent, InHand
  <2>3. ASSUME NEW q \in Reading'
        PROVE  {buffer'[q][i] : i \in DOMAIN buffer'[q]} \ {NL} \subseteq crossed'
    BY <2>1 DEF ReadsInv, TwoReadsCross, Records
  <2>4. ReadIsPrefix' /\ TwoReadsCross'
    BY <2>3 DEF ReadIsPrefix, TwoReadsCross, Records
  <2> QED  BY <2>2, <2>4 DEF ReadsInv
<1>8. ASSUME UNCHANGED busvars
      PROVE  ReadsInv'
  BY <1>1, <1>2, <1>8 DEF busvars
<1> QED  BY <1>3, <1>4, <1>5, <1>6, <1>7, <1>8 DEF BusNext

LEMMA OrderInvStep ==
  ASSUME OrderInv, [BusNext]_busvars
  PROVE  OrderInv'
<1>0. BusTypes /\ BusTypes' /\ Messages' = Messages /\ ReadsInv'
  BY BusTypesStep, ReadsInvStep DEF OrderInv, Messages
<1>1. ASSUME NEW s \in Senders, SendRecord(s)
      PROVE  (FileInOrder /\ AnswersBefore /\ SeenInOrder)'
  <2> DEFINE e == <<s, sent'[s]>>  n == Len(file) + 1
  <2>1. /\ e \in Messages /\ e \in Items /\ e # NL /\ e[1] = s /\ e[2] = sent'[s]
        /\ sent'[s] = sent[s] + 1 /\ sent[s] \in Nat
        /\ \A t \in Senders : sent[t] \in Nat /\ (t # s => sent'[t] = sent[t])
    <3>1. sent'[s] = sent[s] + 1 /\ sent'[s] \in 1..MaxSends /\ sent[s] \in Nat
      BY <1>0, <1>1, BusAssumption DEF SendRecord, BusTypes
    <3>2. \A t \in Senders : sent[t] \in Nat /\ (t # s => sent'[t] = sent[t])
      BY <1>0, <1>1, BusAssumption DEF SendRecord, BusTypes
    <3> QED  BY <3>1, <3>2, NewlineFacts DEF Messages, Items
  <2>2. /\ file' = Append(file, e) /\ received' = received /\ buffer' = buffer
        /\ file \in Seq(Items)
    BY <1>0, <1>1 DEF SendRecord, BusTypes
  <2>3. /\ DOMAIN file = 1..Len(file) /\ DOMAIN file' = 1..n /\ n \in Nat
        /\ file'[n] = e /\ \A j \in DOMAIN file : file'[j] = file[j] /\ j \in Nat /\ j < n
    BY <2>1, <2>2, AppendProperties
  <2>4. \A j \in DOMAIN file' : j \in DOMAIN file \/ j = n
    BY <2>3
  <2> HIDE DEF e, n
  <2>5. \A j : InFile(j)' => (InFile(j) /\ file'[j] = file[j]) \/ (j = n /\ file'[j] = e)
    BY <2>3, <2>4 DEF InFile
  <2>6. \A j : InFile(j) => /\ file[j] \in Messages /\ file[j][1] \in Senders
                            /\ file[j][2] \in Nat /\ file[j][2] <= sent[file[j][1]]
    <3> SUFFICES ASSUME NEW j, InFile(j)
                 PROVE  /\ file[j] \in Messages /\ file[j][1] \in Senders
                        /\ file[j][2] \in Nat /\ file[j][2] <= sent[file[j][1]]
      OBVIOUS
    <3>1. file[j] \in Messages
      BY <1>0, FileItems
    <3> QED  BY <3>1, BusAssumption DEF OrderInv, FileInOrder, InFile, Messages
  <2>7. FileInOrder'
    <3>1. ASSUME NEW j \in DOMAIN file', InFile(j)'
          PROVE  file'[j][2] <= sent'[file'[j][1]]
      <4>1. CASE InFile(j) /\ file'[j] = file[j]
        BY <2>1, <2>6, <4>1
      <4>2. CASE j = n /\ file'[j] = e
        BY <2>1, <4>2
      <4> QED  BY <2>5, <3>1, <4>1, <4>2
    <3>2. ASSUME NEW i \in DOMAIN file', NEW j \in DOMAIN file', i < j, InFile(i)', InFile(j)',
                 file'[i][1] = file'[j][1]
          PROVE  file'[i][2] < file'[j][2]
      <4>1. InFile(i) /\ file'[i] = file[i]
        BY <2>3, <2>4, <2>5, <3>2 DEF InFile
      <4>2. CASE InFile(j) /\ file'[j] = file[j]
        BY <3>2, <4>1, <4>2 DEF OrderInv, FileInOrder, InFile
      <4>3. CASE j = n /\ file'[j] = e
        BY <2>1, <2>6, <3>2, <4>1, <4>3
      <4> QED  BY <2>5, <3>2, <4>2, <4>3
    <3> QED  BY <3>1, <3>2 DEF FileInOrder
  <2>8. Returned' = Returned /\ \A x \in Returned : Message(x)' = Message(x)
    BY <2>2, SameReturned
  <2>9. AnswersBefore'
    <3> SUFFICES ASSUME NEW x \in Returned
                 PROVE  /\ Message(x) \in Messages /\ Message(x)[2] <= sent'[Message(x)[1]]
                        /\ \A j \in DOMAIN file' :
                             InFile(j)' /\ Message(x)[1] = file'[j][1]
                               => Message(x)[2] < file'[j][2]
      BY <1>0, <2>8 DEF AnswersBefore
    <3>1. /\ Message(x) \in Messages /\ Message(x)[2] <= sent[Message(x)[1]]
          /\ \A j \in DOMAIN file :
               InFile(j) /\ Message(x)[1] = file[j][1] => Message(x)[2] < file[j][2]
      BY DEF OrderInv, AnswersBefore
    <3>2. Message(x)[1] \in Senders /\ Message(x)[2] \in Nat
      BY <3>1, BusAssumption DEF Messages
    <3>3. Message(x)[2] <= sent'[Message(x)[1]]
      BY <2>1, <3>1, <3>2
    <3>4. ASSUME NEW j \in DOMAIN file', InFile(j)', Message(x)[1] = file'[j][1]
          PROVE  Message(x)[2] < file'[j][2]
      <4>1. CASE InFile(j) /\ file'[j] = file[j]
        BY <3>1, <3>4, <4>1 DEF InFile
      <4>2. CASE j = n /\ file'[j] = e
        BY <2>1, <3>1, <3>2, <3>4, <4>2
      <4> QED  BY <2>5, <3>4, <4>1, <4>2
    <3> QED  BY <3>1, <3>3, <3>4
  <2>10. SeenInOrder'
    BY <1>1, <2>8 DEF SendRecord, OrderInv, SeenInOrder, Earlier
  <2> QED  BY <2>7, <2>9, <2>10
<1>2. ASSUME NEW s \in Senders, SendNewline(s)
      PROVE  (FileInOrder /\ AnswersBefore /\ SeenInOrder)'
  <2>1. /\ file' = Append(file, NL) /\ UNCHANGED <<received, buffer, sent>>
        /\ file \in Seq(Items) /\ NL \in Items
    BY <1>0, <1>2 DEF SendNewline, BusTypes, Items
  <2>2. /\ \A j \in DOMAIN file : j \in DOMAIN file' /\ file'[j] = file[j]
        /\ \A j \in DOMAIN file' : j \in DOMAIN file \/ file'[j] = NL
    BY <2>1, AppendProperties
  <2>3. \A j : InFile(j)' => InFile(j) /\ file'[j] = file[j]
    BY <2>2 DEF InFile
  <2>4. FileInOrder'
    BY <2>1, <2>3 DEF OrderInv, FileInOrder, InFile
  <2>5. Returned' = Returned /\ \A x \in Returned : Message(x)' = Message(x)
    BY <2>1, SameReturned
  <2>6. AnswersBefore'
    BY <1>0, <2>1, <2>3, <2>5 DEF OrderInv, AnswersBefore, InFile
  <2>7. SeenInOrder'
    BY <1>2, <2>5 DEF SendNewline, OrderInv, SeenInOrder, Earlier
  <2> QED  BY <2>4, <2>6, <2>7
<1>3. ASSUME UNCHANGED <<file, sent, received>>, crossed \subseteq crossed'
      PROVE  (FileInOrder /\ AnswersBefore /\ SeenInOrder)'
  <2>1. Returned' = Returned /\ \A x \in Returned : Message(x)' = Message(x)
    BY <1>3, SameReturned
  <2>2. FileInOrder'
    BY <1>3 DEF OrderInv, FileInOrder, InFile
  <2>3. AnswersBefore'
    BY <1>0, <1>3, <2>1 DEF OrderInv, AnswersBefore, InFile
  <2>4. SeenInOrder'
    BY <1>3, <2>1 DEF OrderInv, SeenInOrder, Earlier
  <2> QED  BY <2>2, <2>3, <2>4
<1>4. ASSUME NEW s \in Senders, SendCut(s)
      PROVE  (FileInOrder /\ AnswersBefore /\ SeenInOrder)'
  BY <1>3, <1>4 DEF SendCut
<1>5. ASSUME NEW r \in Readers, ReadFile(r)
      PROVE  (FileInOrder /\ AnswersBefore /\ SeenInOrder)'
  BY <1>3, <1>5 DEF ReadFile
<1>6. ASSUME NEW r \in Readers, Truncate(r)
      PROVE  (FileInOrder /\ AnswersBefore /\ SeenInOrder)'
  <2> DEFINE f == buffer[r]  n == Len(received) + 1
  <2>1. /\ r \in Reading /\ f \in Seq(Items) /\ file' = << >> /\ sent' = sent
        /\ received' = Answers(f) /\ crossed' = crossed
    BY <1>0, <1>6 DEF Truncate, Reading, BusTypes
  <2>2. /\ \A x \in Returned' :
             x \in Returned \/ (\E i \in Lines(f) : x = <<n, i>> /\ Message(x)' = f[i])
        /\ \A x \in Returned : Message(x)' = Message(x) /\ x[1] < n
    BY <1>0, <2>1, MoreReturned
  <2>3. \A i \in Lines(f) : /\ i \in Nat /\ i \in DOMAIN f /\ f[i] # NL
                            /\ f[i] \in Messages /\ f[i][2] <= sent[f[i][1]]
    BY <2>1 DEF OrderInv, ReadsInv, BuffersSent, InHand, Lines
  <2>4. \/ \A i \in Lines(f) : InFile(i) /\ f[i] = file[i] /\ i \in DOMAIN file
        \/ \A i \in Lines(f) : f[i] \in crossed
    <3>1. CASE \A i \in DOMAIN f : i \in DOMAIN file /\ f[i] = file[i]
      BY <2>3, <3>1 DEF InFile
    <3>2. CASE Records(f) \subseteq crossed
      BY <2>3, <3>2 DEF Records
    <3> QED  BY <2>1, <3>1, <3>2 DEF OrderInv, ReadsInv, ReadIsPrefix
  <2>5. n \in Nat
    BY <1>0 DEF BusTypes
  <2> HIDE DEF f, n
  <2>6. \A j : ~InFile(j)'
    BY <2>1 DEF InFile
  <2>7. \A x \in Returned' : Message(x)' \in Messages /\ Message(x)'[2] <= sent[Message(x)'[1]]
    BY <2>2, <2>3 DEF OrderInv, AnswersBefore
  <2>8. FileInOrder' /\ AnswersBefore'
    BY <1>0, <2>1, <2>6, <2>7 DEF FileInOrder, AnswersBefore
  <2>9. ASSUME NEW x \in Returned', NEW y \in Returned', Earlier(x, y),
               Message(x)'[1] = Message(y)'[1], Message(y)' \notin crossed
        PROVE  Message(x)'[2] < Message(y)'[2]
    <3>1. CASE x \in Returned /\ y \in Returned
      BY <2>2, <2>9, <3>1 DEF OrderInv, SeenInOrder
    <3>2. ASSUME x \in Returned, NEW i \in Lines(f), Message(y)' = f[i]
          PROVE  Message(x)'[2] < Message(y)'[2]
      <4>1. Message(x)' = Message(x)
        BY <2>2, <3>2
      <4>2. InFile(i) /\ f[i] = file[i] /\ i \in DOMAIN file
        BY <2>4, <2>9, <3>2
      <4> QED  BY <2>9, <3>2, <4>1, <4>2 DEF OrderInv, AnswersBefore
    <3>3. ASSUME NEW i \in Lines(f), x = <<n, i>>, y \in Returned
          PROVE  FALSE
      <4>1. y[1] < n /\ y[1] \in Nat /\ x[1] = n
        BY <1>0, <2>2, <3>3, ReturnedPairs
      <4> QED  BY <2>5, <2>9, <4>1 DEF Earlier
    <3>4. ASSUME NEW i \in Lines(f), x = <<n, i>>, Message(x)' = f[i],
                 NEW j \in Lines(f), y = <<n, j>>, Message(y)' = f[j]
          PROVE  Message(x)'[2] < Message(y)'[2]
      <4>1. i < j
        BY <2>5, <2>9, <3>4 DEF Earlier
      <4>2. InFile(i) /\ f[i] = file[i] /\ InFile(j) /\ f[j] = file[j]
            /\ i \in DOMAIN file /\ j \in DOMAIN file
        BY <2>4, <2>9, <3>4
      <4> QED  BY <2>9, <3>4, <4>1, <4>2 DEF OrderInv, FileInOrder
    <3> QED  BY <2>2, <3>1, <3>2, <3>3, <3>4
  <2>10. SeenInOrder'
    BY <2>1, <2>9 DEF SeenInOrder, Earlier
  <2> QED  BY <2>8, <2>10
<1>7. ASSUME UNCHANGED busvars
      PROVE  (FileInOrder /\ AnswersBefore /\ SeenInOrder)'
  BY <1>3, <1>7 DEF busvars
<1> QED  BY <1>0, <1>1, <1>2, <1>4, <1>5, <1>6, <1>7 DEF BusNext, OrderInv

\* MessageBus: whoever reads an inbox, and however many at a time, it returns the messages
\* of a sender in the order it sent them and none twice but where two reads overlapped, and
\* loses none but those whose send overlapped a read or shared a line.
THEOREM ReadersSeeAll ==
  BusSpec => []InboxSound
<1>1. BusInit => OrderInv
  <2> SUFFICES ASSUME BusInit
               PROVE  OrderInv
    OBVIOUS
  <2>1. BusTypes
    BY EmptySeq, BusAssumption DEF BusInit, BusTypes
  <2>2. Returned = {} /\ DOMAIN file = {}
    BY DEF BusInit, Returned
  <2>3. Reading = {}
    BY DEF BusInit, Reading
  <2>4. ReadsInv
    BY <2>3 DEF ReadsInv, BuffersSent, ReadIsPrefix, TwoReadsCross
  <2> QED  BY <2>1, <2>2, <2>4 DEF OrderInv, FileInOrder, AnswersBefore, SeenInOrder
<1>2. OrderInv /\ [BusNext]_busvars => OrderInv'
  BY OrderInvStep
<1>3. BusInv /\ OrderInv => InboxSound
  BY DEF BusInv, OrderInv, InboxSound
<1> QED  BY <1>1, <1>2, <1>3, BusInvInvariant, PTL DEF BusSpec
=============================================================================
