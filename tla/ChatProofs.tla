----------------------------- MODULE ChatProofs -----------------------------
(***************************************************************************)
(* What Chat guarantees for any sets of prompts and servers.  One          *)
(* inductive invariant serves both theorems: it says which servers a       *)
(* request in progress may have in hand, and ties what is still to be read *)
(* of a stream to the script, the task and the final message the API holds *)
(* already.                                                                *)
(***************************************************************************)
EXTENDS Chat, SequenceTheorems, TLAPS

----------------------------------------------------------------------------
(* The inductive invariant                                                 *)

Busy(p) == request[p] \in {"streaming", "scripted"}

\* Before the stream is opened a prompt has left nothing behind.
Untouched(p) ==
    /\ run[p] = "none" /\ plan[p] = None
    /\ stream[p] = <<>>
    /\ draft[p] = None /\ referenced[p] = None /\ final[p] = "nothing"
    /\ p \notin scripts /\ tasks[p] = None

StartsUntouched == \A p \in Prompts : request[p] \in {"none", "asked"} => Untouched(p)

\* Whatever a request has in hand is a server it could have met.
Met(p, s) == s # None => s \in since[p]

OnlyMet(p) ==
    /\ request[p] # "none" => Registered \subseteq since[p]
    /\ Met(p, plan[p]) /\ Met(p, draft[p]) /\ Met(p, tasks[p])
    /\ run[p] \in {"diagnosing", "drafting"} => plan[p] # None
    /\ \A i \in DOMAIN stream[p] :
            stream[p][i].kind = "proposal" => Met(p, stream[p][i].server)

\* An event of that kind is still to be read.
Pending(p, kind) == \E i \in DOMAIN stream[p] : stream[p][i].kind = kind

\* The task is there, is about to be created, or is still to be proposed.
Proposed(p) == Pending(p, "proposal") \/ request[p] = "scripted" \/ tasks[p] # None

\* Until it is over the run has not said its final message, and it has proposed a
\* script exactly when only that message is left.
Unfinished(p) ==
    /\ ~Pending(p, "done") /\ final[p] = "nothing"
    /\ Proposed(p) <=> run[p] = "proposed"
    /\ run[p] # "proposed" => p \notin scripts

\* A proposal still to be read is the only one, and has no script yet.
ProposesOnce(p) ==
    \A i \in DOMAIN stream[p] : stream[p][i].kind = "proposal" =>
        /\ p \notin scripts
        /\ \A j \in DOMAIN stream[p] : stream[p][j].kind = "proposal" => j = i

\* A final message still to be read is the last event, and speaks of a draft if and
\* only if one was proposed.
FinalToCome(p) ==
    \A i \in DOMAIN stream[p] : stream[p][i].kind = "done" =>
        /\ i = Len(stream[p]) /\ final[p] = "nothing"
        /\ stream[p][i].says = "drafted" <=> Proposed(p)

\* Once it has been read it is the truth; a run that fails has none.
FinalRead(p) ==
    /\ final[p] = "drafted" => tasks[p] # None
    /\ final[p] \in {"finding", "advice"} => ~Proposed(p)

\* Between the commit of the script and that of the task.
Halfway(p) == p \in scripts /\ tasks[p] = None /\ draft[p] # None

Consistent(p) ==
    /\ referenced[p] = tasks[p]
    /\ tasks[p] # None => p \in scripts
    /\ run[p] # "over" => Unfinished(p)
    /\ request[p] = "scripted" => Halfway(p)
    /\ ProposesOnce(p) /\ FinalToCome(p) /\ FinalRead(p)

QuestionsAreAsked == \A p \in Prompts : Talk!Asked(p) => request[p] # "none"

IInv ==
    /\ TypeOK
    /\ StartsUntouched
    /\ \A p \in Prompts : OnlyMet(p)
    /\ \A p \in Prompts : Busy(p) => Consistent(p)
    /\ QuestionsAreAsked

----------------------------------------------------------------------------
(* Events and messages                                                     *)

LEMMA EventsAreEvents ==
    /\ Token \in Event /\ [kind |-> "error"] \in Event
    /\ \A s \in Servers : [kind |-> "proposal", server |-> s] \in Event
    /\ \A says \in Talk!Says : Done(says) \in Event
    /\ \A e \in Event : /\ e.kind = "proposal" => e.server \in Servers
                        /\ e.kind = "done" => e.says \in Talk!Says
  BY DEF Event, Token, Done

LEMMA SaysAreSays == {"nothing", "finding", "advice", "drafted"} = Talk!Says
  BY DEF Talk!Says

LEMMA MessagesAreMessages ==
    ASSUME NEW p \in Prompts, NEW t \in Servers \union {None}, NEW says \in Talk!Says
    PROVE  Talk!Question(p) \in Message /\ Talk!Reply(p, t, says) \in Message
  BY DEF Message, Talk!Question, Talk!Reply

LEMMA ResolvedIsRegistered ==
    ASSUME NEW mentioned \in SUBSET Servers, NEW s \in Resolved(mentioned)
    PROVE  s \in Registered \union {None}
  BY DEF Resolved, Candidates, Registered

Speak(p) ==
    \/ Diagnose(p) \/ DraftScript(p) \/ SayDrafted(p) \/ AnswerFromKnowledge(p)
    \/ RunFails(p)

\* The last event of what the run says in one step, and where the run goes.
Ends(p, event, stage) ==
    \/ /\ event.kind \in {"token", "error"}
       /\ stage = "over" \/ (stage = "drafting" /\ run[p] = "diagnosing")
    \/ /\ event.kind = "done" /\ stage = "over"
       /\ event.says = "drafted" <=> run[p] = "proposed"
    \/ /\ event.kind = "proposal" /\ event.server = plan[p]
       /\ stage = "proposed" /\ run[p] = "drafting"

\* In one step the run says one event, or a token and that event.
Said(p, events, stage) ==
    /\ Send(p, events) /\ GoTo(p, stage)
    /\ UNCHANGED <<registry, plan, handler, database>>
    /\ run[p] \notin {"none", "over"}
    /\ Len(events) \in {1, 2}
    /\ Len(events) = 2 => events[1].kind = "token"
    /\ Ends(p, events[Len(events)], stage)

LEMMA SaysOne ==
    ASSUME NEW p, NEW event \in Event, NEW stage, Send(p, <<event>>), GoTo(p, stage),
           UNCHANGED <<registry, plan, handler, database>>,
           run[p] \notin {"none", "over"}, Ends(p, event, stage)
    PROVE  <<event>> \in Seq(Event) /\ Said(p, <<event>>, stage)
  <1>1. <<event>> \in Seq(Event) /\ Len(<<event>>) = 1 /\ <<event>>[1] = event
    OBVIOUS
  <1>2. QED
    BY <1>1 DEF Said

LEMMA SaysTwo ==
    ASSUME NEW p, NEW event \in Event, NEW stage, Send(p, <<Token, event>>),
           GoTo(p, stage), UNCHANGED <<registry, plan, handler, database>>,
           run[p] \notin {"none", "over"}, Ends(p, event, stage)
    PROVE  <<Token, event>> \in Seq(Event) /\ Said(p, <<Token, event>>, stage)
  <1>1. Token \in Event /\ Token.kind = "token"
    BY DEF Token, Event
  <1>2. /\ <<Token, event>> \in Seq(Event) /\ Len(<<Token, event>>) = 2
        /\ <<Token, event>>[1] = Token /\ <<Token, event>>[2] = event
    BY <1>1
  <1>3. QED
    BY <1>1, <1>2 DEF Said

\* What a step of the run that speaks does: what decides comes last.
LEMMA SpeakSays ==
    ASSUME TypeOK, NEW p \in Prompts, run[p] = "drafting" => plan[p] # None, Speak(p)
    PROVE  \E events \in Seq(Event), stage \in {"drafting", "proposed", "over"} :
                Said(p, events, stage)
  <1>1. CASE Diagnose(p)
    <2>1. Token \in Event /\ Token.kind = "token"
      BY EventsAreEvents DEF Token
    <2>2. CASE Send(p, <<Token>>) /\ GoTo(p, "drafting")
      BY <1>1, <2>1, <2>2, SaysOne DEF Diagnose, Ends
    <2>3. ASSUME NEW says \in {"finding", "advice"},
                 Send(p, <<Token, Done(says)>>), GoTo(p, "over")
          PROVE  Said(p, <<Token, Done(says)>>, "over")
                    /\ <<Token, Done(says)>> \in Seq(Event)
      <3>1. Done(says) \in Event /\ Ends(p, Done(says), "over")
        BY <1>1, EventsAreEvents, SaysAreSays DEF Diagnose, Ends, Done
      <3>2. QED
        BY <1>1, <2>3, <3>1, SaysTwo DEF Diagnose
    <2>4. QED
      BY <1>1, <2>2, <2>3 DEF Diagnose
  <1>2. CASE DraftScript(p)
    <2>1. plan[p] \in Servers
      BY <1>2 DEF DraftScript, TypeOK
    <2> DEFINE event == [kind |-> "proposal", server |-> plan[p]]
    <2>2. event \in Event /\ Ends(p, event, "proposed")
      BY <1>2, <2>1, EventsAreEvents DEF DraftScript, Ends
    <2>3. QED
      BY <1>2, <2>2, SaysOne DEF DraftScript
  <1>3. CASE SayDrafted(p)
    <2>1. Done("drafted") \in Event /\ Ends(p, Done("drafted"), "over")
      BY <1>3, EventsAreEvents, SaysAreSays DEF SayDrafted, Ends, Done
    <2>2. QED
      BY <1>3, <2>1, SaysOne DEF SayDrafted
  <1>4. CASE AnswerFromKnowledge(p)
    <2>1. Done("finding") \in Event /\ Ends(p, Done("finding"), "over")
      BY <1>4, EventsAreEvents, SaysAreSays DEF AnswerFromKnowledge, Ends, Done
    <2>2. QED
      BY <1>4, <2>1, SaysTwo DEF AnswerFromKnowledge
  <1>5. CASE RunFails(p)
    <2> DEFINE event == [kind |-> "error"]
    <2>1. event \in Event /\ Ends(p, event, "over")
      BY EventsAreEvents DEF Ends
    <2>2. QED
      BY <1>5, <2>1, SaysOne DEF RunFails
  <1>6. QED
    BY <1>1, <1>2, <1>3, <1>4, <1>5 DEF Speak

----------------------------------------------------------------------------
(* Types                                                                   *)

LEMMA TypeInit == Init => TypeOK
  BY SaysAreSays DEF Init, TypeOK

LEMMA TypeStep ==
    ASSUME TypeOK, [Next]_vars, \A p \in Prompts : run[p] = "drafting" => plan[p] # None
    PROVE  TypeOK'
  <1> USE NoneIsNobody DEF registry, orchestrator, handler, database
  <1>1. ASSUME NEW s \in Servers, RegisterServer(s) \/ DetachServer(s) PROVE TypeOK'
    <2>1. CASE RegisterServer(s)
      BY <2>1 DEF RegisterServer, TypeOK
    <2>2. CASE DetachServer(s)
      BY <2>2 DEF DetachServer, TypeOK
    <2>3. QED
      BY <1>1, <2>1, <2>2
  <1>2. ASSUME NEW p \in Prompts, Ask(p) PROVE TypeOK'
    <2>1. Talk!Question(p) \in Message
      BY MessagesAreMessages, SaysAreSays
    <2>2. messages' \in Seq(Message)
      BY <1>2, <2>1 DEF Ask, TypeOK
    <2>3. QED
      BY <1>2, <2>2 DEF Ask, TypeOK, Registered
  <1>3. ASSUME NEW p \in Prompts, Connect(p) \/ Disconnect(p) \/ TimeOut(p)
        PROVE  TypeOK'
    <2>1. CASE Connect(p)
      BY <2>1 DEF Connect, GoTo, TypeOK
    <2>2. CASE BreakOff(p)
      BY <2>2, EmptySeq DEF BreakOff, GoTo, TypeOK
    <2>3. QED
      BY <1>3, <2>1, <2>2 DEF Disconnect, TimeOut
  <1>4. ASSUME NEW p \in Prompts, Forward(p) \/ CreateScript(p) PROVE TypeOK'
    <2>1. stream[p] # <<>> /\ stream[p] \in Seq(Event)
      BY <1>4 DEF Forward, CreateScript, Take, TypeOK
    <2>2. Head(stream[p]) \in Event /\ Tail(stream[p]) \in Seq(Event)
      BY <2>1
    <2>3. stream' \in [Prompts -> Seq(Event)]
      BY <1>4, <2>2 DEF Forward, CreateScript, Take, TypeOK
    <2>4. CASE Forward(p)
      BY <2>2, <2>3, <2>4, EventsAreEvents DEF Forward, TypeOK
    <2>5. CASE CreateScript(p)
      <3>1. Head(stream[p]).server \in Servers
        BY <2>2, <2>5, EventsAreEvents DEF CreateScript, Take
      <3>2. QED
        BY <2>3, <2>5, <3>1 DEF CreateScript, TypeOK
    <2>6. QED
      BY <1>4, <2>4, <2>5
  <1>5. ASSUME NEW p \in Prompts, RequestExecution(p) PROVE TypeOK'
    BY <1>5 DEF RequestExecution, Remember, TypeOK
  <1>6. ASSUME NEW p \in Prompts, StoreAnswer(p) PROVE TypeOK'
    <2>1. Talk!Reply(p, referenced[p], final[p]) \in Message
      BY MessagesAreMessages DEF TypeOK
    <2>2. messages' \in Seq(Message)
      BY <1>6, <2>1 DEF StoreAnswer, TypeOK
    <2>3. QED
      BY <1>6, <2>2 DEF StoreAnswer, TypeOK
  <1>7. ASSUME NEW p \in Prompts, Plan(p) \/ Retrieve(p) PROVE TypeOK'
    <2>1. CASE Plan(p)
      <3>1. PICK s \in Servers \union {None} : plan' = [plan EXCEPT ![p] = s]
        BY <2>1, ResolvedIsRegistered DEF Plan, Registered
      <3>2. PICK stage \in {"retrieving", "diagnosing", "answering"} : GoTo(p, stage)
        BY <2>1 DEF Plan, AfterRetrieval
      <3>3. QED
        BY <2>1, <3>1, <3>2 DEF Plan, GoTo, TypeOK
    <2>2. CASE Retrieve(p)
      BY <2>2 DEF Retrieve, GoTo, AfterRetrieval, TypeOK
    <2>3. QED
      BY <1>7, <2>1, <2>2
  <1>8. ASSUME NEW p \in Prompts, NEW stage \in {"drafting", "proposed", "over"},
               NEW events \in Seq(Event), Send(p, events), GoTo(p, stage),
               UNCHANGED <<registry, plan, handler, database>>
        PROVE  TypeOK'
    <2>1. stream[p] \o events \in Seq(Event)
      BY <1>8 DEF TypeOK
    <2>2. QED
      BY <1>8, <2>1 DEF Send, GoTo, TypeOK
  <1>9. ASSUME NEW p \in Prompts, Speak(p) PROVE TypeOK'
    <2>1. PICK events \in Seq(Event), stage \in {"drafting", "proposed", "over"} :
                Said(p, events, stage)
      BY <1>9, SpeakSays
    <2>2. QED
      BY <1>8, <2>1 DEF Said
  <1>10. CASE UNCHANGED vars
    BY <1>10 DEF vars, TypeOK
  <1>11. QED
    BY <1>1, <1>2, <1>3, <1>4, <1>5, <1>6, <1>7, <1>9, <1>10
    DEF Next, Serve, Run, Speak

----------------------------------------------------------------------------
(* A step of one prompt                                                    *)

\* What a step leaves alone of a prompt.
Same(p) ==
    /\ since'[p] = since[p] /\ request'[p] = request[p]
    /\ run'[p] = run[p] /\ plan'[p] = plan[p] /\ stream'[p] = stream[p]
    /\ draft'[p] = draft[p] /\ referenced'[p] = referenced[p] /\ final'[p] = final[p]
    /\ p \in scripts' <=> p \in scripts
    /\ tasks'[p] = tasks[p]

LEMMA SameIsKept ==
    ASSUME NEW p \in Prompts, Same(p), server' = server,
           request[p] \in {"none", "asked"} => Untouched(p),
           OnlyMet(p), Busy(p) => Consistent(p)
    PROVE  /\ request'[p] \in {"none", "asked"} => Untouched(p)'
           /\ OnlyMet(p)' /\ (Busy(p) => Consistent(p))'
  <1>1. request'[p] \in {"none", "asked"} => Untouched(p)'
    BY DEF Same, Untouched
  <1>2. OnlyMet(p)'
    BY DEF Same, OnlyMet, Met, Registered
  <1>3. (Busy(p) => Consistent(p))'
    BY DEF Same, Busy, Consistent, Pending, Proposed, Unfinished, Halfway, ProposesOnce,
           FinalToCome, FinalRead
  <1>4. QED
    BY <1>1, <1>2, <1>3

\* So only the prompt of the step is left to look at.
LEMMA OnePromptMoves ==
    ASSUME IInv, TypeOK', NEW p \in Prompts, server' = server,
           \A q \in Prompts \ {p} : Same(q),
           request'[p] \notin {"none", "asked"}, OnlyMet(p)', (Busy(p) => Consistent(p))',
           QuestionsAreAsked'
    PROVE  IInv'
  <1>1. ASSUME NEW q \in Prompts \ {p}
        PROVE  /\ request'[q] \in {"none", "asked"} => Untouched(q)'
               /\ OnlyMet(q)' /\ (Busy(q) => Consistent(q))'
    BY <1>1, SameIsKept DEF IInv, StartsUntouched
  <1>2. StartsUntouched'
    BY <1>1 DEF StartsUntouched
  <1>3. (\A q \in Prompts : OnlyMet(q))' /\ (\A q \in Prompts : Busy(q) => Consistent(q))'
    BY <1>1
  <1>4. QED
    BY <1>2, <1>3 DEF IInv

\* No message is added, and nobody's request is taken back.
LEMMA NothingAsked ==
    ASSUME QuestionsAreAsked, messages' = messages,
           \A p \in Prompts : request[p] # "none" => request'[p] # "none"
    PROVE  QuestionsAreAsked'
  BY DEF QuestionsAreAsked, Talk!Asked, Talk!Question

\* What reading the next event of a stream does to it.
LEMMA Reads ==
    ASSUME TypeOK, NEW p \in Prompts, stream[p] # <<>>,
           stream' = [stream EXCEPT ![p] = Tail(@)]
    PROVE  /\ stream[p] \in Seq(Event) /\ stream'[p] \in Seq(Event)
           /\ Len(stream[p]) \in Nat \ {0} /\ Len(stream'[p]) = Len(stream[p]) - 1
           /\ DOMAIN stream[p] = 1 .. Len(stream[p])
           /\ DOMAIN stream'[p] = 1 .. Len(stream'[p])
           /\ \A i \in DOMAIN stream'[p] :
                    i + 1 \in DOMAIN stream[p] /\ stream'[p][i] = stream[p][i + 1]
           /\ Head(stream[p]) = stream[p][1]
           /\ \A q \in Prompts \ {p} : stream'[q] = stream[q]
  <1>1. stream[p] \in Seq(Event) /\ stream'[p] = Tail(stream[p])
    BY DEF TypeOK
  <1>2. /\ stream'[p] \in Seq(Event) /\ Len(stream'[p]) = Len(stream[p]) - 1
        /\ \A i \in 1 .. Len(stream'[p]) : stream'[p][i] = stream[p][i + 1]
    BY <1>1, HeadTailProperties
  <1>3. QED
    BY <1>1, <1>2 DEF TypeOK

\* What one event, or a token and an event, do to it.
LEMMA Grows ==
    ASSUME NEW short \in Seq(Event), NEW more \in Seq(Event), NEW long,
           long = short \o more, Len(more) \in {1, 2},
           Len(more) = 2 => more[1].kind = "token"
    PROVE  /\ Len(long) \in DOMAIN long
           /\ long[Len(long)] = more[Len(more)]
           /\ \A i \in DOMAIN short : i \in DOMAIN long /\ long[i] = short[i]
           /\ \A i \in DOMAIN long : \/ i = Len(long) \/ long[i].kind = "token"
                                    \/ i \in DOMAIN short
  <1>1. /\ long \in Seq(Event) /\ Len(short) \in Nat /\ Len(more) \in Nat
        /\ Len(long) = Len(short) + Len(more)
        /\ \A i \in 1 .. Len(short) : long[i] = short[i]
        /\ \A i \in 1 .. Len(more) : long[Len(short) + i] = more[i]
        /\ DOMAIN short = 1 .. Len(short) /\ DOMAIN long = 1 .. Len(long)
    BY ConcatProperties
  <1>2. CASE Len(more) = 1
    <2>1. /\ Len(long) = Len(short) + 1 /\ long[Len(short) + 1] = more[1]
          /\ \A i \in 1 .. Len(long) : i = Len(long) \/ i \in 1 .. Len(short)
      BY <1>1, <1>2
    <2>2. QED
      BY <1>1, <1>2, <2>1
  <1>3. CASE Len(more) = 2
    <2>1. /\ Len(long) = Len(short) + 2 /\ long[Len(short) + 2] = more[2]
          /\ long[Len(short) + 1] = more[1] /\ more[1].kind = "token"
          /\ \A i \in 1 .. Len(long) : i \in {Len(long), Len(short) + 1} \union 1 .. Len(short)
      BY <1>1, <1>3
    <2>2. QED
      BY <1>1, <1>3, <2>1
  <1>4. QED
    BY <1>2, <1>3

----------------------------------------------------------------------------
(* The invariant is kept                                                   *)

LEMMA InitIInv == Init => IInv
  <1> SUFFICES ASSUME Init PROVE IInv
    OBVIOUS
  <1>1. TypeOK
    BY TypeInit
  <1>2. \A p \in Prompts : /\ request[p] = "none" /\ Untouched(p)
                           /\ OnlyMet(p) /\ ~Busy(p)
    BY DEF Init, Untouched, OnlyMet, Met, Busy
  <1>3. QuestionsAreAsked
    BY DEF Init, QuestionsAreAsked, Talk!Asked
  <1>4. QED
    BY <1>1, <1>2, <1>3 DEF IInv, StartsUntouched

\* A server is registered or detached: whatever a prompt has in hand, it met.
LEMMA RegistryKeeps ==
    ASSUME IInv, TypeOK', NEW s \in Servers, RegisterServer(s) \/ DetachServer(s)
    PROVE  IInv'
  <1>1. UNCHANGED <<request, run, plan, stream, draft, referenced, final, messages,
                   scripts, tasks>>
    BY DEF RegisterServer, DetachServer, orchestrator, handler, database
  <1>2. ASSUME NEW p \in Prompts
        PROVE  /\ Untouched(p) => Untouched(p)'
               /\ (Busy(p) => Consistent(p)) => (Busy(p) => Consistent(p))'
               /\ request[p] # "none" => since[p] \subseteq since'[p]
               /\ request[p] # "none" /\ Registered \subseteq since[p]
                    => Registered' \subseteq since'[p]
    <2>1. Untouched(p) => Untouched(p)'
      BY <1>1 DEF Untouched
    <2>2. (Busy(p) => Consistent(p)) => (Busy(p) => Consistent(p))'
      BY <1>1 DEF Busy, Consistent, Pending, Proposed, Unfinished, Halfway,
                  ProposesOnce, FinalToCome, FinalRead
    <2>3. request[p] # "none" =>
            /\ since[p] \subseteq since'[p]
            /\ Registered \subseteq since[p] => Registered' \subseteq since'[p]
      <3>1. CASE RegisterServer(s)
        BY <3>1 DEF RegisterServer, Registered, IInv, TypeOK
      <3>2. CASE DetachServer(s)
        BY <3>2 DEF DetachServer, Registered, IInv, TypeOK
      <3>3. QED
        BY <3>1, <3>2
    <2>4. QED
      BY <2>1, <2>2, <2>3
  <1>3. ASSUME NEW p \in Prompts PROVE OnlyMet(p)'
    <2>1. CASE request[p] = "none"
      BY <1>1, <1>2, <2>1 DEF IInv, StartsUntouched, Untouched, OnlyMet, Met
    <2>2. CASE request[p] # "none"
      BY <1>1, <1>2, <2>2 DEF IInv, OnlyMet, Met
    <2>3. QED
      BY <2>1, <2>2
  <1>4. StartsUntouched'
    BY <1>1, <1>2 DEF IInv, StartsUntouched
  <1>5. QuestionsAreAsked'
    BY <1>1, NothingAsked DEF IInv
  <1>6. QED
    BY <1>2, <1>3, <1>4, <1>5 DEF IInv

LEMMA AskKeeps ==
    ASSUME IInv, TypeOK', NEW p \in Prompts, Ask(p)
    PROVE  IInv'
  <1> USE DEF orchestrator
  <1>1. \A q \in Prompts \ {p} : Same(q)
    BY DEF Ask, Same, IInv, TypeOK
  <1>2. /\ request'[p] = "asked" /\ since'[p] = Registered /\ server' = server
        /\ UNCHANGED <<run, plan, stream, draft, referenced, final, scripts, tasks>>
    BY DEF Ask, IInv, TypeOK
  <1>3. Untouched(p)
    BY DEF Ask, IInv, StartsUntouched
  <1>4. Untouched(p)' /\ ~Busy(p)'
    BY <1>2, <1>3 DEF Untouched, Busy
  <1>5. OnlyMet(p)'
    BY <1>2, <1>4 DEF OnlyMet, Met, Untouched, Registered
  <1>6. QuestionsAreAsked'
    <2>1. ASSUME NEW q \in Prompts, Talk!Asked(q)' PROVE q = p \/ Talk!Asked(q)
      <3>1. messages \in Seq(Message) /\ messages' = Append(messages, Talk!Question(p))
        BY DEF Ask, IInv, TypeOK
      <3>2. Talk!Question(p) = Talk!Question(q) => p = q
        BY DEF Talk!Question
      <3>3. PICK i \in DOMAIN messages' : messages'[i] = Talk!Question(q)
        BY <2>1 DEF Talk!Asked, Talk!Question
      <3>4. CASE i = Len(messages) + 1
        BY <3>1, <3>2, <3>3, <3>4
      <3>5. CASE i # Len(messages) + 1
        BY <3>1, <3>3, <3>5 DEF Talk!Asked
      <3>6. QED
        BY <3>4, <3>5
    <2>2. \A q \in Prompts : request[q] # "none" => request'[q] # "none"
      BY <1>1, <1>2 DEF Same
    <2>3. QED
      BY <1>2, <2>1, <2>2 DEF QuestionsAreAsked, IInv
  <1>7. ASSUME NEW q \in Prompts
        PROVE  /\ request'[q] \in {"none", "asked"} => Untouched(q)'
               /\ OnlyMet(q)' /\ (Busy(q) => Consistent(q))'
    <2>1. CASE q = p
      BY <1>4, <1>5, <2>1
    <2>2. CASE q # p
      BY <1>1, <1>2, <2>2, SameIsKept DEF IInv, StartsUntouched
    <2>3. QED
      BY <2>1, <2>2
  <1>8. QED
    BY <1>6, <1>7 DEF IInv, StartsUntouched

LEMMA ConnectKeeps ==
    ASSUME IInv, TypeOK', NEW p \in Prompts, Connect(p)
    PROVE  IInv'
  <1> USE DEF registry, database
  <1>1. \A q \in Prompts \ {p} : Same(q)
    BY DEF Connect, GoTo, Same, IInv, TypeOK
  <1>2. /\ request[p] = "asked" /\ request'[p] = "streaming" /\ run'[p] = "planning"
        /\ UNCHANGED <<server, since, plan, stream, draft, referenced, final,
                       messages, scripts, tasks>>
    BY DEF Connect, GoTo, IInv, TypeOK
  <1>3. Untouched(p) /\ OnlyMet(p)
    BY <1>2 DEF IInv, StartsUntouched
  <1>4. OnlyMet(p)'
    BY <1>2, <1>3 DEF OnlyMet, Met, Registered
  <1>5. Consistent(p)'
    BY <1>2, <1>3 DEF Untouched, Consistent, Pending, Proposed, Unfinished, Halfway,
                      ProposesOnce, FinalToCome, FinalRead
  <1>6. QuestionsAreAsked'
    BY <1>1, <1>2, NothingAsked DEF IInv, Same
  <1>7. QED
    BY <1>1, <1>2, <1>4, <1>5, <1>6, OnePromptMoves

LEMMA BreakOffKeeps ==
    ASSUME IInv, TypeOK', NEW p \in Prompts, request[p] # "none", BreakOff(p)
    PROVE  IInv'
  <1> USE DEF registry, database
  <1>1. \A q \in Prompts \ {p} : Same(q)
    BY DEF BreakOff, GoTo, Same, IInv, TypeOK
  <1>2. /\ request'[p] = "lost" /\ run'[p] = "over" /\ stream'[p] = <<>>
        /\ draft'[p] = None
        /\ UNCHANGED <<server, since, plan, referenced, final, messages, scripts, tasks>>
    BY DEF BreakOff, GoTo, IInv, TypeOK
  <1>3. OnlyMet(p)' /\ ~Busy(p)'
    BY <1>2 DEF OnlyMet, Met, Registered, IInv, Busy
  <1>4. QuestionsAreAsked'
    BY <1>1, <1>2, NothingAsked DEF IInv, Same
  <1>5. QED
    BY <1>1, <1>2, <1>3, <1>4, OnePromptMoves

LEMMA ForwardKeeps ==
    ASSUME IInv, TypeOK', NEW p \in Prompts, Forward(p)
    PROVE  IInv'
  <1> USE DEF registry, orchestrator, database
  <1> DEFINE head == stream[p][1]
             rest == stream'[p]
  <1>1. /\ request[p] = "streaming" /\ stream[p] # <<>>
        /\ stream' = [stream EXCEPT ![p] = Tail(@)]
        /\ Head(stream[p]).kind \in {"token", "done", "error"}
        /\ final' = IF Head(stream[p]).kind = "done"
                    THEN [final EXCEPT ![p] = Head(stream[p]).says] ELSE final
        /\ UNCHANGED <<server, since, run, plan, request, draft, referenced,
                       messages, scripts, tasks>>
    BY DEF Forward, Take
  <1>2. /\ Len(stream[p]) \in Nat \ {0} /\ Len(rest) = Len(stream[p]) - 1
        /\ DOMAIN stream[p] = 1 .. Len(stream[p]) /\ DOMAIN rest = 1 .. Len(rest)
        /\ \A i \in DOMAIN rest : i + 1 \in DOMAIN stream[p] /\ rest[i] = stream[p][i + 1]
        /\ Head(stream[p]) = head
        /\ \A q \in Prompts \ {p} : stream'[q] = stream[q]
    BY <1>1, Reads DEF IInv
  <1>3. \A q \in Prompts \ {p} : Same(q)
    BY <1>1, <1>2 DEF Same, IInv, TypeOK
  <1>4. OnlyMet(p) /\ Consistent(p)
    BY <1>1 DEF IInv, Busy
  <1>5. OnlyMet(p)'
    BY <1>1, <1>2, <1>4 DEF OnlyMet, Met, Registered
  <1>6. /\ final'[p] = IF head.kind = "done" THEN head.says ELSE final[p]
        /\ 1 \in DOMAIN stream[p] /\ head.kind # "proposal"
        /\ head.kind = "done" => head.says \in Talk!Says
    BY <1>1, <1>2, EventsAreEvents DEF IInv, TypeOK
  <1>7. \A kind : Pending(p, kind) <=> head.kind = kind \/ Pending(p, kind)'
    <2>1. \A i \in DOMAIN stream[p] :
                i = 1 \/ (i - 1 \in DOMAIN rest /\ rest[i - 1] = stream[p][i])
      BY <1>2
    <2>2. ASSUME NEW kind, Pending(p, kind) PROVE head.kind = kind \/ Pending(p, kind)'
      <3>1. PICK i \in DOMAIN stream[p] : stream[p][i].kind = kind
        BY <2>2 DEF Pending
      <3>2. CASE i = 1
        BY <3>1, <3>2
      <3>3. CASE i - 1 \in DOMAIN rest /\ rest[i - 1] = stream[p][i]
        BY <3>1, <3>3 DEF Pending
      <3>4. QED
        BY <2>1, <3>2, <3>3
    <2>3. ASSUME NEW kind, head.kind = kind \/ Pending(p, kind)' PROVE Pending(p, kind)
      <3>1. CASE head.kind = kind
        BY <1>6, <3>1 DEF Pending
      <3>2. CASE Pending(p, kind)'
        <4>1. PICK i \in DOMAIN rest : rest[i].kind = kind
          BY <3>2 DEF Pending
        <4>2. QED
          BY <1>2, <4>1 DEF Pending
      <3>3. QED
        BY <2>3, <3>1, <3>2
    <2>4. QED
      BY <2>2, <2>3
  <1>8. Proposed(p)' <=> Proposed(p)
    BY <1>1, <1>6, <1>7 DEF Proposed
  <1>9. ProposesOnce(p)'
    BY <1>1, <1>2, <1>4 DEF Consistent, ProposesOnce
  <1>10. ASSUME head.kind = "done" PROVE Consistent(p)'
    <2>1. Len(stream[p]) = 1 /\ (head.says = "drafted" <=> Proposed(p))
      BY <1>4, <1>6, <1>10 DEF Consistent, FinalToCome
    <2>2. (\A i \in DOMAIN rest : FALSE) /\ ~Pending(p, "proposal")
      <3>1. DOMAIN stream[p] = {1}
        BY <1>2, <2>1
      <3>2. Len(rest) = 0
        BY <1>2, <2>1
      <3>3. QED
        BY <1>2, <1>6, <3>1, <3>2 DEF Pending
    <2>3. FinalToCome(p)'
      BY <2>2 DEF FinalToCome
    <2>4. FinalRead(p)'
      BY <1>1, <1>6, <1>8, <1>10, <2>1, <2>2 DEF FinalRead, Proposed
    <2>5. run'[p] = "over"
      BY <1>1, <1>4, <1>6, <1>10 DEF Consistent, Unfinished, Pending
    <2>6. QED
      BY <1>1, <1>4, <1>9, <2>3, <2>4, <2>5 DEF Consistent
  <1>11. ASSUME head.kind # "done" PROVE Consistent(p)'
    <2>1. final'[p] = final[p]
      BY <1>6, <1>11
    <2>2. FinalToCome(p)'
      <3>1. ASSUME NEW i \in DOMAIN rest, rest[i].kind = "done"
            PROVE  /\ i = Len(rest) /\ final[p] = "nothing"
                   /\ rest[i].says = "drafted" <=> Proposed(p)
        <4>1. /\ i + 1 = Len(stream[p]) /\ final[p] = "nothing"
              /\ stream[p][i + 1].says = "drafted" <=> Proposed(p)
          BY <1>2, <1>4, <3>1 DEF Consistent, FinalToCome
        <4>2. i \in Nat /\ i = Len(rest)
          BY <1>2, <4>1
        <4>3. QED
          BY <1>2, <4>1, <4>2
      <3>2. QED
        BY <1>8, <2>1, <3>1 DEF FinalToCome
    <2>3. FinalRead(p)'
      BY <1>1, <1>4, <1>8, <2>1 DEF Consistent, FinalRead
    <2>4. run'[p] # "over" => Unfinished(p)'
      BY <1>1, <1>4, <1>7, <1>8, <2>1 DEF Consistent, Unfinished
    <2>5. QED
      BY <1>1, <1>4, <1>9, <2>2, <2>3, <2>4 DEF Consistent
  <1>12. QuestionsAreAsked'
    BY <1>1, NothingAsked DEF IInv
  <1>13. QED
    BY <1>1, <1>3, <1>5, <1>10, <1>11, <1>12, OnePromptMoves

\* The first proposal read is the last, and nothing has been stored for it.
LEMMA ProposalAtHead ==
    ASSUME IInv, NEW p \in Prompts, CreateScript(p)
    PROVE  /\ Head(stream[p]).server \in since[p] \ {None}
           /\ Pending(p, "proposal") /\ ~Pending(p, "proposal")'
           /\ p \notin scripts
           /\ Pending(p, "done")' => Pending(p, "done")
  <1>1. /\ request[p] = "streaming" /\ stream[p] # <<>>
        /\ stream' = [stream EXCEPT ![p] = Tail(@)]
        /\ Head(stream[p]).kind = "proposal"
    BY DEF CreateScript, Take
  <1>2. /\ Len(stream[p]) \in Nat \ {0}
        /\ DOMAIN stream[p] = 1 .. Len(stream[p])
        /\ DOMAIN stream'[p] = 1 .. Len(stream'[p])
        /\ \A i \in DOMAIN stream'[p] : i + 1 \in DOMAIN stream[p]
                                        /\ stream'[p][i] = stream[p][i + 1]
        /\ Head(stream[p]) = stream[p][1] /\ stream[p] \in Seq(Event)
        /\ Len(stream'[p]) = Len(stream[p]) - 1
    BY <1>1, Reads DEF IInv
  <1>3. OnlyMet(p) /\ ProposesOnce(p)
    BY <1>1 DEF IInv, Busy, Consistent
  <1>4. 1 \in DOMAIN stream[p] /\ stream[p][1].kind = "proposal"
    BY <1>1, <1>2
  <1>5. p \notin scripts /\ \A j \in DOMAIN stream[p] : stream[p][j].kind = "proposal" => j = 1
    BY <1>3, <1>4 DEF ProposesOnce
  <1>6. Pending(p, "proposal") /\ ~Pending(p, "proposal")'
    BY <1>2, <1>4, <1>5, SMTT(40) DEF Pending
  <1>7. Pending(p, "done")' => Pending(p, "done")
    BY <1>2 DEF Pending
  <1>8. Head(stream[p]).server \in Servers
    BY <1>1, <1>2, <1>4, EventsAreEvents
  <1>9. Head(stream[p]).server \in since[p]
    BY <1>2, <1>3, <1>4, <1>8, NoneIsNobody DEF OnlyMet, Met
  <1>10. QED
    BY <1>5, <1>6, <1>7, <1>8, <1>9, NoneIsNobody

LEMMA CreateScriptKeeps ==
    ASSUME IInv, TypeOK', NEW p \in Prompts, CreateScript(p)
    PROVE  IInv'
  <1> USE DEF registry, orchestrator
  <1>1. /\ request[p] = "streaming" /\ request' = [request EXCEPT ![p] = "scripted"]
        /\ stream[p] # <<>> /\ stream' = [stream EXCEPT ![p] = Tail(@)]
        /\ scripts' = scripts \union {p}
        /\ draft' = [draft EXCEPT ![p] = Head(stream[p]).server]
        /\ UNCHANGED <<server, since, run, plan, referenced, final, messages, tasks>>
    BY DEF CreateScript, Take
  <1>2. \A q \in Prompts \ {p} : Same(q)
    BY <1>1 DEF Same, IInv, TypeOK
  <1>3. /\ request'[p] = "scripted" /\ draft'[p] = Head(stream[p]).server
        /\ p \in scripts' /\ OnlyMet(p) /\ Consistent(p)
    BY <1>1 DEF IInv, TypeOK, Busy
  <1>4. /\ \A i \in DOMAIN stream'[p] :
                i + 1 \in DOMAIN stream[p] /\ stream'[p][i] = stream[p][i + 1]
        /\ Len(stream'[p]) = Len(stream[p]) - 1 /\ Len(stream[p]) \in Nat
        /\ DOMAIN stream'[p] = 1 .. Len(stream'[p])
    BY <1>1, Reads DEF IInv
  <1>5. OnlyMet(p)'
    BY <1>1, <1>3, <1>4, ProposalAtHead DEF OnlyMet, Met, Registered
  <1>6. Proposed(p) /\ Proposed(p)' /\ ~Pending(p, "proposal")' /\ p \notin scripts
    BY <1>3, ProposalAtHead DEF Proposed
  <1>7. run'[p] # "over" => Unfinished(p)'
    BY <1>1, <1>3, <1>6, ProposalAtHead DEF Consistent, Unfinished
  <1>8. Halfway(p)' /\ ProposesOnce(p)'
    BY <1>1, <1>3, <1>6, ProposalAtHead DEF Consistent, Halfway, ProposesOnce, Pending
  <1>9. FinalToCome(p)'
    BY <1>1, <1>3, <1>4, <1>6 DEF Consistent, FinalToCome
  <1>10. FinalRead(p)'
    BY <1>1, <1>3, <1>6 DEF Consistent, FinalRead
  <1>11. Consistent(p)'
    BY <1>1, <1>3, <1>7, <1>8, <1>9, <1>10 DEF Consistent
  <1>12. QuestionsAreAsked'
    BY <1>1, NothingAsked DEF IInv, TypeOK
  <1>13. QED
    BY <1>1, <1>2, <1>3, <1>5, <1>11, <1>12, OnePromptMoves

LEMMA RequestExecutionKeeps ==
    ASSUME IInv, TypeOK', NEW p \in Prompts, RequestExecution(p)
    PROVE  IInv'
  <1> USE DEF registry, orchestrator
  <1>1. /\ request[p] = "scripted" /\ request' = [request EXCEPT ![p] = "streaming"]
        /\ tasks' = [tasks EXCEPT ![p] = draft[p]]
        /\ referenced' = [referenced EXCEPT ![p] = draft[p]]
        /\ draft' = [draft EXCEPT ![p] = None]
        /\ UNCHANGED <<server, since, run, plan, stream, final, messages, scripts>>
    BY DEF RequestExecution, Remember
  <1>2. \A q \in Prompts \ {p} : Same(q)
    BY <1>1 DEF Same, IInv, TypeOK
  <1>3. OnlyMet(p) /\ Halfway(p) /\ Consistent(p)
    BY <1>1 DEF IInv, Busy, Consistent
  <1>4. /\ request'[p] = "streaming" /\ tasks'[p] = draft[p] /\ referenced'[p] = draft[p]
        /\ draft'[p] = None
    BY <1>1 DEF IInv, TypeOK
  <1>5. OnlyMet(p)'
    BY <1>1, <1>3, <1>4 DEF OnlyMet, Met, Registered
  <1>6. tasks'[p] # None /\ p \in scripts' /\ Proposed(p) /\ Proposed(p)'
    BY <1>1, <1>3, <1>4 DEF Halfway, Proposed
  <1>7. run'[p] # "over" => Unfinished(p)'
    BY <1>1, <1>3, <1>6 DEF Consistent, Unfinished, Pending
  <1>8. ProposesOnce(p)' /\ FinalToCome(p)' /\ FinalRead(p)'
    BY <1>1, <1>3, <1>6 DEF Consistent, ProposesOnce, FinalToCome, FinalRead
  <1>9. Consistent(p)'
    BY <1>4, <1>6, <1>7, <1>8 DEF Consistent
  <1>10. QuestionsAreAsked'
    BY <1>1, NothingAsked DEF IInv, TypeOK
  <1>11. QED
    BY <1>1, <1>2, <1>4, <1>5, <1>9, <1>10, OnePromptMoves

LEMMA StoreAnswerKeeps ==
    ASSUME IInv, TypeOK', NEW p \in Prompts, StoreAnswer(p)
    PROVE  IInv'
  <1> USE DEF registry, orchestrator
  <1>1. /\ request[p] = "streaming" /\ request' = [request EXCEPT ![p] = "answered"]
        /\ messages' = Append(messages, Talk!Reply(p, referenced[p], final[p]))
        /\ UNCHANGED <<server, since, run, plan, stream, draft, referenced, final,
                       scripts, tasks>>
    BY DEF StoreAnswer
  <1>2. \A q \in Prompts \ {p} : Same(q)
    BY <1>1 DEF Same, IInv, TypeOK
  <1>3. request'[p] = "answered" /\ OnlyMet(p)
    BY <1>1 DEF IInv, TypeOK
  <1>4. OnlyMet(p)' /\ ~Busy(p)'
    BY <1>1, <1>3 DEF OnlyMet, Met, Registered, Busy
  <1>5. ASSUME NEW q \in Prompts, Talk!Asked(q)' PROVE request'[q] # "none"
    <2>1. PICK i \in DOMAIN messages' : messages'[i] = Talk!Question(q)
      BY <1>5 DEF Talk!Asked, Talk!Question
    <2>2. messages \in Seq(Message)
      BY DEF IInv, TypeOK
    <2>3. i # Len(messages) + 1
      BY <1>1, <2>1, <2>2 DEF Talk!Question, Talk!Reply
    <2>4. i \in DOMAIN messages /\ messages[i] = Talk!Question(q)
      BY <1>1, <2>1, <2>2, <2>3
    <2>5. request[q] # "none"
      BY <2>4 DEF IInv, QuestionsAreAsked, Talk!Asked
    <2>6. QED
      BY <1>2, <1>3, <2>5 DEF Same
  <1>6. QuestionsAreAsked'
    BY <1>5 DEF QuestionsAreAsked
  <1>7. QED
    BY <1>1, <1>2, <1>3, <1>4, <1>6, OnePromptMoves

\* The run chooses its server among those registered now.
LEMMA PlanKeeps ==
    ASSUME IInv, TypeOK', NEW p \in Prompts, Plan(p) \/ Retrieve(p)
    PROVE  IInv'
  <1> USE DEF registry, handler, database
  <1>1. PICK s \in Registered \union {None, plan[p]},
             stage \in {"retrieving", "diagnosing", "answering"} :
            /\ run[p] \in {"planning", "retrieving"} /\ run' = [run EXCEPT ![p] = stage]
            /\ plan' = [plan EXCEPT ![p] = s]
            /\ stage = "diagnosing" => s # None
            /\ UNCHANGED <<server, since, request, stream, draft, referenced, final,
                           messages, scripts, tasks>>
    <2>1. CASE Plan(p)
      <3>1. PICK s \in Registered \union {None} :
                /\ plan' = [plan EXCEPT ![p] = s]
                /\ GoTo(p, "retrieving") \/ (s # None /\ GoTo(p, AfterRetrieval(s)))
        BY <2>1, ResolvedIsRegistered DEF Plan
      <3>2. QED
        BY <2>1, <3>1 DEF Plan, GoTo, AfterRetrieval
    <2>2. CASE Retrieve(p)
      <3>1. plan' = [plan EXCEPT ![p] = plan[p]]
        BY <2>2 DEF Retrieve, IInv, TypeOK
      <3>2. QED
        BY <2>2, <3>1 DEF Retrieve, GoTo, AfterRetrieval
    <2>3. QED
      BY <2>1, <2>2
  <1>2. \A q \in Prompts \ {p} : Same(q)
    BY <1>1 DEF Same, IInv, TypeOK
  <1>3. plan'[p] = s /\ run'[p] = stage /\ OnlyMet(p)
    BY <1>1 DEF IInv, TypeOK
  <1>4. request[p] \notin {"none", "asked"}
    BY <1>1 DEF IInv, StartsUntouched, Untouched
  <1>5. OnlyMet(p)'
    BY <1>1, <1>3, <1>4 DEF OnlyMet, Met, Registered
  <1>6. Busy(p) => Consistent(p)'
    BY <1>1, <1>3 DEF IInv, Consistent, Pending, Proposed, Unfinished, Halfway,
                      ProposesOnce, FinalToCome, FinalRead
  <1>7. QuestionsAreAsked'
    BY <1>1, NothingAsked DEF IInv
  <1>8. QED
    BY <1>1, <1>2, <1>4, <1>5, <1>6, <1>7, OnePromptMoves DEF Busy

\* Until it is over a run has left nothing that decides, or its one proposal; so
\* only the last event it adds is to be looked at.
LEMMA SpeakKeeps ==
    ASSUME IInv, TypeOK', NEW p \in Prompts, Speak(p)
    PROVE  IInv'
  <1> USE DEF registry, handler, database
  <1>1. PICK events \in Seq(Event), stage \in {"drafting", "proposed", "over"} :
            /\ Said(p, events, stage) /\ Send(p, events)
            /\ run' = [run EXCEPT ![p] = stage] /\ run[p] \notin {"none", "over"}
            /\ UNCHANGED <<server, since, plan, request, draft, referenced, final,
                           messages, scripts, tasks>>
    BY SpeakSays DEF Said, GoTo, IInv, OnlyMet
  <1> DEFINE old == stream[p]
             now == stream'[p]
             n == Len(now)
  <1>2. /\ n \in DOMAIN now /\ now[n] = events[Len(events)]
        /\ \A i \in DOMAIN old : i \in DOMAIN now /\ now[i] = old[i]
        /\ \A i \in DOMAIN now : \/ i = n \/ now[i].kind = "token"
                                 \/ i \in DOMAIN old
        /\ \A q \in Prompts \ {p} : stream'[q] = stream[q]
    <2>1. /\ old \in Seq(Event) /\ now = old \o events
          /\ \A q \in Prompts \ {p} : stream'[q] = stream[q]
      BY <1>1 DEF Send, IInv, TypeOK
    <2>2. Len(events) \in {1, 2} /\ (Len(events) = 2 => events[1].kind = "token")
      BY <1>1 DEF Said
    <2>3. /\ n \in DOMAIN now /\ now[n] = events[Len(events)]
          /\ \A i \in DOMAIN old : i \in DOMAIN now /\ now[i] = old[i]
      BY <2>1, <2>2, Grows
    <2> HIDE DEF old, now
    <2>4. \A i \in DOMAIN now : i = n \/ now[i].kind = "token" \/ i \in DOMAIN old
      BY <2>1, <2>2, Grows, ZenonT(40)
    <2>5. QED
      BY <2>1, <2>3, <2>4
  <1>3. \A q \in Prompts \ {p} : Same(q)
    BY <1>1, <1>2 DEF Same, IInv, TypeOK
  <1>4. run'[p] = stage /\ OnlyMet(p)
    BY <1>1 DEF IInv, TypeOK
  <1>5. request[p] \notin {"none", "asked"}
    BY <1>1 DEF IInv, StartsUntouched, Untouched
  <1>6. Ends(p, now[n], stage)
    BY <1>1, <1>2 DEF Said
  <1>7. OnlyMet(p)'
    <2>1. ASSUME NEW i \in DOMAIN now, now[i].kind = "proposal" PROVE Met(p, now[i].server)
      BY <1>2, <1>4, <1>6, <2>1 DEF OnlyMet, Ends
    <2>2. stage \in {"diagnosing", "drafting"} => plan[p] # None
      BY <1>4, <1>6 DEF OnlyMet, Ends
    <2>3. QED
      BY <1>1, <1>4, <1>5, <2>1, <2>2 DEF OnlyMet, Met, Registered
  <1>8. ASSUME Busy(p) PROVE Consistent(p)'
    <2>1. Consistent(p) /\ Unfinished(p)
      BY <1>1, <1>8 DEF IInv, Consistent
    <2>2. \A kind \in {"proposal", "done"} :
                Pending(p, kind)' <=> Pending(p, kind) \/ now[n].kind = kind
      BY <1>2 DEF Pending
    <2>3. Proposed(p)' <=> Proposed(p) \/ now[n].kind = "proposal"
      BY <1>1, <2>2 DEF Proposed
    <2>4. stage # "over" => Unfinished(p)'
      BY <1>1, <1>4, <1>6, <2>1, <2>2, <2>3 DEF Unfinished, Ends
    <2>5. ProposesOnce(p)'
      <3>1. now[n].kind = "proposal" => p \notin scripts /\ ~Pending(p, "proposal")
        BY <1>6, <2>1 DEF Ends, Unfinished, Proposed
      <3>2. QED
        BY <1>1, <1>2, <2>1, <3>1 DEF Consistent, ProposesOnce, Pending
    <2>6. FinalToCome(p)'
      <3>1. \A i \in DOMAIN now : now[i].kind = "done" => i = n
        BY <1>2, <2>1 DEF Unfinished, Pending
      <3>2. now[n].kind = "done" => (now[n].says = "drafted" <=> Proposed(p)')
        BY <1>6, <2>1, <2>3 DEF Ends, Unfinished
      <3>3. QED
        BY <1>1, <2>1, <3>1, <3>2 DEF FinalToCome, Unfinished
    <2>7. FinalRead(p)'
      BY <1>1, <2>1 DEF FinalRead, Unfinished
    <2>8. QED
      BY <1>1, <1>4, <2>1, <2>4, <2>5, <2>6, <2>7 DEF Consistent, Halfway
  <1>9. QED
    BY <1>1, <1>3, <1>5, <1>7, <1>8, OnePromptMoves, NothingAsked DEF Busy, IInv

LEMMA IInvStep == IInv /\ [Next]_vars => IInv'
  <1> SUFFICES ASSUME IInv, [Next]_vars PROVE IInv'
    OBVIOUS
  <1>1. TypeOK'
    BY TypeStep DEF IInv, OnlyMet
  <1>2. CASE UNCHANGED vars
    <2>1. \A p \in Prompts : Same(p)
      BY <1>2 DEF vars, Same
    <2>2. QED
      BY <1>1, <1>2, <2>1, SameIsKept, NothingAsked DEF vars, IInv, StartsUntouched
  <1>3. ASSUME NEW p \in Prompts, TimeOut(p) \/ Disconnect(p) PROVE IInv'
    BY <1>1, <1>3, BreakOffKeeps DEF TimeOut, Silent, Disconnect
  <1>4. QED
    BY <1>1, <1>2, <1>3, RegistryKeeps, AskKeeps, ConnectKeeps, ForwardKeeps,
       CreateScriptKeeps, RequestExecutionKeeps, StoreAnswerKeeps, PlanKeeps,
       SpeakKeeps
    DEF Next, Serve, Run, Speak

----------------------------------------------------------------------------
(* Theorems                                                                *)

\* The inductive invariant holds throughout, for any prompts and servers.
THEOREM ChatInvariance == Spec => []IInv
  BY InitIInv, IInvStep, PTL DEF Spec

\* However the prompts overlap and the registry changes, no task targets a server
\* that was gone when its prompt was asked.
THEOREM TargetsWereRegistered == Spec => []TargetWasRegistered
  <1>1. IInv => TargetWasRegistered
    BY DEF IInv, OnlyMet, Met, TargetWasRegistered
  <1>2. QED
    BY <1>1, ChatInvariance, PTL

----------------------------------------------------------------------------
(* Chat implements Conversation                                            *)

Open == {p \in Prompts : request[p] \notin {"none", "answered", "lost"}}

LEMMA StartsAsPromised == Init => Talk!Init
  BY DEF Init, Talk!Init

\* One prompt moves, and stays as open as it was, opens or closes.
LEMMA OpenAfter ==
    ASSUME TypeOK, NEW p \in Prompts, NEW r, request' = [request EXCEPT ![p] = r]
    PROVE  Open' = IF r \in {"none", "answered", "lost"} THEN Open \ {p} ELSE Open \union {p}
  BY DEF TypeOK, Open

\* Every step is a step of the conversation or is not seen there.
LEMMA StepsAsPromised == IInv /\ [Next]_vars => [Talk!Next]_(Talk!vars)
  <1> SUFFICES ASSUME IInv, [Next]_vars PROVE [Talk!Next]_(Talk!vars)
    OBVIOUS
  <1> USE DEF registry, orchestrator, handler, database
  <1> DEFINE Unseen == UNCHANGED <<messages, scripts, tasks>> /\ Open' = Open
  <1>1. Unseen => UNCHANGED Talk!vars
    BY DEF Talk!vars, Open
  <1>2. ASSUME NEW p \in Prompts, Ask(p) PROVE Talk!Ask(p)
    <2>1. ~Talk!Asked(p)
      BY <1>2 DEF Ask, IInv, QuestionsAreAsked
    <2>2. Open' = Open \union {p}
      BY <1>2, OpenAfter DEF Ask, IInv
    <2>3. QED
      BY <1>2, <2>1, <2>2 DEF Ask, Talk!Ask, Open
  <1>3. ASSUME NEW p \in Prompts, Connect(p) PROVE Unseen
    <2>1. p \in Open /\ Open' = Open \union {p}
      BY <1>3, OpenAfter DEF Connect, Open, IInv
    <2>2. QED
      BY <1>3, <2>1 DEF Connect
  <1>4. ASSUME NEW p \in Prompts, CreateScript(p) PROVE Talk!WriteScript(p)
    <2>1. p \in Open /\ Open' = Open \union {p}
      BY <1>4, OpenAfter DEF CreateScript, Take, Open, IInv
    <2>2. p \notin scripts
      BY <1>4, ProposalAtHead
    <2>3. QED
      BY <1>4, <2>1, <2>2 DEF CreateScript, Talk!WriteScript, Open
  <1>5. ASSUME NEW p \in Prompts, RequestExecution(p)
        PROVE  \E s \in Servers : Talk!Propose(p, s)
    <2>1. p \in Open /\ Open' = Open \union {p}
      BY <1>5, OpenAfter DEF RequestExecution, Open, IInv
    <2>2. Halfway(p)
      BY <1>5 DEF RequestExecution, IInv, Busy, Consistent
    <2>3. draft[p] \in Servers
      BY <2>2 DEF Halfway, IInv, TypeOK
    <2>4. Talk!Propose(p, draft[p])
      BY <1>5, <2>1, <2>2 DEF RequestExecution, Halfway, Talk!Propose, Open
    <2>5. QED
      BY <2>3, <2>4
  <1>6. ASSUME NEW p \in Prompts, StoreAnswer(p) PROVE Talk!Close(p)
    <2>1. p \in Open /\ Open' = Open \ {p}
      BY <1>6, OpenAfter DEF StoreAnswer, Open, IInv
    <2>2. Consistent(p)
      BY <1>6 DEF StoreAnswer, IInv, Busy
    <2>3. final[p] \in Talk!Says
      BY DEF IInv, TypeOK
    <2>4. /\ referenced[p] = tasks[p]
          /\ final[p] = "drafted" => tasks[p] # None
          /\ tasks[p] # None => final[p] \in {"drafted", "nothing"}
      BY <2>2, <2>3, SaysAreSays DEF Consistent, FinalRead, Proposed
    <2>5. Talk!Answer(p, final[p])
      BY <1>6, <2>1, <2>4 DEF StoreAnswer, Talk!Answer, Open
    <2>6. QED
      BY <2>3, <2>5 DEF Talk!Close, Talk!Answer, Talk!Says
  <1>7. ASSUME NEW p \in Prompts, TimeOut(p) \/ Disconnect(p) PROVE Talk!Close(p)
    <2>1. p \in Open /\ BreakOff(p)
      BY <1>7 DEF TimeOut, Silent, Disconnect, Open
    <2>2. Open' = Open \ {p}
      BY <2>1, OpenAfter DEF BreakOff, IInv
    <2>3. Talk!LeaveUnanswered(p)
      BY <2>1, <2>2 DEF BreakOff, Talk!LeaveUnanswered, Open
    <2>4. QED
      BY <2>3 DEF Talk!Close
  <1>8. ASSUME NEW p \in Prompts, Forward(p) \/ Run(p) PROVE Unseen
    BY <1>8 DEF Forward, Run, Plan, Retrieve, Diagnose, DraftScript,
                SayDrafted, AnswerFromKnowledge, RunFails, Open
  <1>9. ASSUME NEW s \in Servers, RegisterServer(s) \/ DetachServer(s) PROVE Unseen
    BY <1>9 DEF RegisterServer, DetachServer, Open
  <1>10. CASE UNCHANGED vars
    BY <1>1, <1>10 DEF vars, Open
  <1>11. QED
    BY <1>1, <1>2, <1>3, <1>4, <1>5, <1>6, <1>7, <1>8, <1>9, <1>10
    DEF Next, Serve, Talk!Next

\* The two services together do only what the conversation promises: whatever
\* overlaps, breaks off and fails, an answer comes once, after its prompt, refers to
\* its task if and only if there is one, and then says that or, of a run that failed
\* after its proposal, nothing.
THEOREM ImplementsConversation == Spec => Talk!Spec
  <1>1. Init => Talk!Init
    BY StartsAsPromised
  <1>2. IInv /\ [Next]_vars => [Talk!Next]_(Talk!vars)
    BY StepsAsPromised
  <1>3. QED
    BY <1>1, <1>2, ChatInvariance, PTL DEF Spec, Talk!Spec
=============================================================================
