-------------------------------- MODULE Chat --------------------------------
(***************************************************************************)
(* The AI chat of one conversation, across two services and the browser.   *)
(* The API stores the prompt, asks the orchestrator to run it and reads    *)
(* the events the run streams back; it turns a proposal into a script and  *)
(* a task that waits for approval, and when the stream ends it stores the  *)
(* answer.  The run resolves which server the prompt is about, looks into  *)
(* the knowledge base, diagnoses and may draft a script.  Every statement  *)
(* of the API commits on its own, so a request that breaks off leaves what *)
(* it has committed.  Prompts of one conversation overlap, and servers are *)
(* registered and detached meanwhile.                                      *)
(*                                                                         *)
(* Modelled from apps/api/app/modules/ai_chat and the orchestrator's       *)
(* graph.py.  Events that are only shown (steps, sources) are left out.    *)
(***************************************************************************)
EXTENDS Naturals, Sequences, FiniteSets

CONSTANTS
    Prompts,    \* the prompts sent to the conversation
    Servers,    \* rows of the servers table
    None

ASSUME NoneIsNobody == None \notin Servers

VARIABLES
    server,     \* server[s]: its row is "none", "live" or "detached"
    since,      \* since[p]: servers registered at some time since p was asked
    request,    \* request[p]: how far the API is with p
    run,        \* run[p]: how far the orchestrator is with p
    plan,       \* plan[p]: the server the run is about
    stream,     \* stream[p]: events sent and not yet read
    draft,      \* draft[p]: the server of the proposal that is being stored
    referenced, \* referenced[p]: the task the API remembers for the answer
    final,      \* final[p]: the final message it has read
    messages,   \* ai_messages of the conversation, in order
    scripts,    \* prompts whose proposal has its row in scripts
    tasks       \* tasks[p]: the server of the task of p's proposal

vars == <<server, since, request, run, plan, stream, draft, referenced, final,
          messages, scripts, tasks>>

registry == <<server, since>>
orchestrator == <<run, plan>>
handler == <<request, draft, referenced, final>>
database == <<messages, scripts, tasks>>

Talk == INSTANCE Conversation WITH
            open <- {p \in Prompts : request[p] \notin {"none", "answered", "lost"}}

Event == [kind : {"token", "error"}]
           \union [kind : {"proposal"}, server : Servers]
           \union [kind : {"done"}, says : Talk!Says]

Message == [role : {"user", "assistant"}, prompt : Prompts,
            task : Servers \union {None}, says : Talk!Says \union {"prompt"}]

Init ==
    /\ server \in [Servers -> {"none", "live"}]
    /\ since = [p \in Prompts |-> {}]
    /\ request = [p \in Prompts |-> "none"]
    /\ run = [p \in Prompts |-> "none"]
    /\ plan = [p \in Prompts |-> None]
    /\ stream = [p \in Prompts |-> <<>>]
    /\ draft = [p \in Prompts |-> None]
    /\ referenced = [p \in Prompts |-> None]
    /\ final = [p \in Prompts |-> "nothing"]
    /\ messages = <<>>
    /\ scripts = {}
    /\ tasks = [p \in Prompts |-> None]

----------------------------------------------------------------------------
(* The registry of servers *)

Registered == {s \in Servers : server[s] = "live"}

RegisterServer(s) ==
    /\ server[s] = "none"
    /\ server' = [server EXCEPT ![s] = "live"]
    /\ since' = [p \in Prompts |-> IF request[p] = "none" THEN {} ELSE since[p] \union {s}]
    /\ UNCHANGED <<orchestrator, handler, database, stream>>

\* The row stays, for the tasks and audit entries that refer to it.
DetachServer(s) ==
    /\ server[s] = "live"
    /\ server' = [server EXCEPT ![s] = "detached"]
    /\ UNCHANGED <<since, orchestrator, handler, database, stream>>

----------------------------------------------------------------------------
(* A run of the orchestrator: it reads the database and never writes it    *)

Send(p, events) == stream' = [stream EXCEPT ![p] = @ \o events]

GoTo(p, stage) == run' = [run EXCEPT ![p] = stage]

Token == [kind |-> "token"]

Done(says) == [kind |-> "done", says |-> says]

\* Variant: the lookup does not leave out detached servers.
Candidates_Any == {s \in Servers : server[s] # "none"}

Candidates == Registered

\* The servers a prompt may be resolved to: one it mentions by name, or, if it
\* mentions none, the only one there is.
Resolved(mentioned) ==
    IF mentioned \intersect Candidates # {} THEN mentioned \intersect Candidates
    ELSE IF Cardinality(Candidates) = 1 THEN Candidates
    ELSE {None}

\* The step after the knowledge base has been asked, or has not.
AfterRetrieval(s) == IF s = None THEN "answering" ELSE "diagnosing"

\* Without a server the knowledge base is always asked.
Plan(p) ==
    /\ run[p] = "planning"
    /\ \E mentioned \in SUBSET Servers : \E s \in Resolved(mentioned) :
        /\ plan' = [plan EXCEPT ![p] = s]
        /\ \/ GoTo(p, "retrieving")
           \/ s # None /\ GoTo(p, AfterRetrieval(s))
    /\ UNCHANGED <<registry, handler, database, stream>>

\* A search that fails finds nothing and lets the run go on.
Retrieve(p) ==
    /\ run[p] = "retrieving"
    /\ GoTo(p, AfterRetrieval(plan[p]))
    /\ UNCHANGED <<registry, plan, handler, database, stream>>

\* A server without events, or with nothing to be done about them; a
\* recommendation in words; or one that calls for a script.
Diagnose(p) ==
    /\ run[p] = "diagnosing"
    /\ \/ \E says \in {"finding", "advice"} :
            Send(p, <<Token, Done(says)>>) /\ GoTo(p, "over")
       \/ Send(p, <<Token>>) /\ GoTo(p, "drafting")
    /\ UNCHANGED <<registry, plan, handler, database>>

DraftScript(p) ==
    /\ run[p] = "drafting"
    /\ Send(p, <<[kind |-> "proposal", server |-> plan[p]]>>)
    /\ GoTo(p, "proposed")
    /\ UNCHANGED <<registry, plan, handler, database>>

\* The final message is put together only after the proposal has gone out.
SayDrafted(p) ==
    /\ run[p] = "proposed"
    /\ Send(p, <<Done("drafted")>>)
    /\ GoTo(p, "over")
    /\ UNCHANGED <<registry, plan, handler, database>>

AnswerFromKnowledge(p) ==
    /\ run[p] = "answering"
    /\ Send(p, <<Token, Done("finding")>>)
    /\ GoTo(p, "over")
    /\ UNCHANGED <<registry, plan, handler, database>>

\* No LLM answers, what it answers is not the JSON that was asked for, or a
\* query fails: the stream ends with an error event.  That may be after the
\* proposal, when the recommended action turns out not to be a string.
RunFails(p) ==
    /\ run[p] \in {"planning", "diagnosing", "drafting", "proposed", "answering"}
    /\ Send(p, <<[kind |-> "error"]>>)
    /\ GoTo(p, "over")
    /\ UNCHANGED <<registry, plan, handler, database>>

----------------------------------------------------------------------------
(* POST /ai/conversations/{id}/messages *)

Ask(p) ==
    /\ request[p] = "none"
    /\ messages' = Append(messages, Talk!Question(p))
    /\ request' = [request EXCEPT ![p] = "asked"]
    /\ since' = [since EXCEPT ![p] = Registered]
    /\ UNCHANGED <<server, orchestrator, stream, draft, referenced, final, scripts, tasks>>

Connect(p) ==
    /\ request[p] = "asked"
    /\ request' = [request EXCEPT ![p] = "streaming"]
    /\ GoTo(p, "planning")
    /\ UNCHANGED <<registry, plan, draft, referenced, final, database, stream>>

\* The next event is taken from the stream.
Take(p, kinds) ==
    /\ request[p] = "streaming"
    /\ stream[p] # <<>>
    /\ Head(stream[p]).kind \in kinds
    /\ stream' = [stream EXCEPT ![p] = Tail(@)]

\* It is passed on to the browser; the final message is remembered.
Forward(p) ==
    /\ Take(p, {"token", "done", "error"})
    /\ final' = IF Head(stream[p]).kind = "done"
                THEN [final EXCEPT ![p] = Head(stream[p]).says] ELSE final
    /\ UNCHANGED <<registry, orchestrator, request, draft, referenced, database>>

\* The script of a proposal is stored and committed, ...
CreateScript(p) ==
    /\ Take(p, {"proposal"})
    /\ scripts' = scripts \union {p}
    /\ draft' = [draft EXCEPT ![p] = Head(stream[p]).server]
    /\ request' = [request EXCEPT ![p] = "scripted"]
    /\ UNCHANGED <<registry, orchestrator, referenced, final, messages, tasks>>

\* Variant: the id of the task is not kept for the answer.
Remember_Not(p, task) == UNCHANGED referenced

Remember(p, task) == referenced' = [referenced EXCEPT ![p] = task]

\* ... and then its task, with the entry of the audit log.  The server is not
\* looked at again.
RequestExecution(p) ==
    /\ request[p] = "scripted"
    /\ tasks' = [tasks EXCEPT ![p] = draft[p]]
    /\ Remember(p, draft[p])
    /\ draft' = [draft EXCEPT ![p] = None]
    /\ request' = [request EXCEPT ![p] = "streaming"]
    /\ UNCHANGED <<registry, orchestrator, stream, final, messages, scripts>>

\* The stream has ended.
StoreAnswer(p) ==
    /\ request[p] = "streaming" /\ run[p] = "over" /\ stream[p] = <<>>
    /\ messages' = Append(messages, Talk!Reply(p, referenced[p], final[p]))
    /\ request' = [request EXCEPT ![p] = "answered"]
    /\ UNCHANGED <<registry, orchestrator, stream, draft, referenced, final,
                   scripts, tasks>>

\* Variant: the client waits for the orchestrator without a timeout.
Silent_Forever(p) == FALSE

\* Nothing has come from the orchestrator for 120 seconds.
Silent(p) == request[p] = "streaming" /\ stream[p] = <<>> /\ run[p] # "over"

\* The request breaks off: the open transaction is rolled back, and what was
\* committed stays.  Nobody reads what the run may still send.
BreakOff(p) ==
    /\ request' = [request EXCEPT ![p] = "lost"]
    /\ GoTo(p, "over")
    /\ stream' = [stream EXCEPT ![p] = <<>>]
    /\ draft' = [draft EXCEPT ![p] = None]
    /\ UNCHANGED <<registry, plan, referenced, final, database>>

TimeOut(p) == Silent(p) /\ BreakOff(p)

\* The browser goes away, one of the services dies, they cannot reach each other,
\* or a statement of the handler fails.
Disconnect(p) ==
    /\ request[p] \in {"asked", "streaming", "scripted"}
    /\ BreakOff(p)

----------------------------------------------------------------------------

\* What the API does by itself once it has stored a prompt.
Serve(p) ==
    \/ Connect(p)
    \/ Forward(p)
    \/ CreateScript(p)
    \/ RequestExecution(p)
    \/ StoreAnswer(p)
    \/ TimeOut(p)

Run(p) ==
    \/ Plan(p)
    \/ Retrieve(p)
    \/ Diagnose(p)
    \/ DraftScript(p)
    \/ SayDrafted(p)
    \/ AnswerFromKnowledge(p)
    \/ RunFails(p)

Next ==
    \/ \E s \in Servers : RegisterServer(s) \/ DetachServer(s)
    \/ \E p \in Prompts : Ask(p) \/ Serve(p) \/ Disconnect(p) \/ Run(p)

Spec == Init /\ [][Next]_vars

\* The API's event loop goes on with a request, and its HTTP client times out
\* when the orchestrator stays silent.  Nothing is assumed of the orchestrator.
FairSpec == Spec /\ \A p \in Prompts : WF_vars(Serve(p))

----------------------------------------------------------------------------
(* Properties *)

TypeOK ==
    /\ server \in [Servers -> {"none", "live", "detached"}]
    /\ since \in [Prompts -> SUBSET Servers]
    /\ request \in [Prompts -> {"none", "asked", "streaming", "scripted", "answered", "lost"}]
    /\ run \in [Prompts -> {"none", "planning", "retrieving", "diagnosing",
                            "drafting", "proposed", "answering", "over"}]
    /\ plan \in [Prompts -> Servers \union {None}]
    /\ stream \in [Prompts -> Seq(Event)]
    /\ draft \in [Prompts -> Servers \union {None}]
    /\ referenced \in [Prompts -> Servers \union {None}]
    /\ final \in [Prompts -> Talk!Says]
    /\ messages \in Seq(Message)
    /\ scripts \subseteq Prompts
    /\ tasks \in [Prompts -> Servers \union {None}]

\* The two services together keep the promise of the chat, however the prompts
\* of a conversation overlap, wherever a request breaks off and wherever a run
\* fails: the answer comes after its prompt and at most once, refers to the task
\* if and only if there is one, and speaks of a script only if there is; with a
\* task it says that or, when the run failed after its proposal, nothing.  And
\* every prompt comes to an end, also when the orchestrator falls silent
\* (ai_chat/service.py:76-141, graph.py:107-122).
KeepsPromise == Talk!FairSpec

\* A task never targets a server that was detached before its prompt was asked,
\* although the server is not looked at again when the task is created
\* (mcp_windows.py:43-58, scripts/service.py:78-104).
TargetWasRegistered == \A p \in Prompts : tasks[p] # None => tasks[p] \in since[p]
=============================================================================
