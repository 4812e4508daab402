---------------------------- MODULE Conversation ----------------------------
(***************************************************************************)
(* What the chat of the Copilot promises, with nothing of how it works: a  *)
(* prompt is kept from the moment it is asked; while it is being answered  *)
(* it may leave one script behind, and then one task, for one server; it   *)
(* is answered at most once, after it was asked, and the answer refers to  *)
(* the task if and only if there is one.  It speaks of a drafted script    *)
(* only if there is a task; if there is one and the answer does not speak  *)
(* of it, the run failed and the answer says nothing.  A prompt may also   *)
(* be left without an answer, whatever it has left behind.                 *)
(***************************************************************************)
EXTENDS Sequences

CONSTANTS
    Prompts,    \* the prompts sent to one conversation
    Servers,    \* the servers a task may be for
    None

VARIABLES
    messages,   \* the messages of the conversation, in order
    open,       \* prompts being answered
    scripts,    \* prompts for which a script was written
    tasks       \* tasks[p]: the server of the task prompt p left behind

vars == <<messages, open, scripts, tasks>>

\* What an answer may say.  "nothing" is the answer of a run that failed.
Says == {"nothing", "finding", "advice", "drafted"}

Question(p) == [role |-> "user", prompt |-> p, task |-> None, says |-> "prompt"]

Reply(p, task, says) ==
    [role |-> "assistant", prompt |-> p, task |-> task, says |-> says]

Asked(p) == \E i \in DOMAIN messages : messages[i] = Question(p)

Init ==
    /\ messages = <<>>
    /\ open = {}
    /\ scripts = {}
    /\ tasks = [p \in Prompts |-> None]

Ask(p) ==
    /\ ~Asked(p)
    /\ messages' = Append(messages, Question(p))
    /\ open' = open \union {p}
    /\ UNCHANGED <<scripts, tasks>>

WriteScript(p) ==
    /\ p \in open \ scripts
    /\ scripts' = scripts \union {p}
    /\ UNCHANGED <<messages, open, tasks>>

Propose(p, s) ==
    /\ p \in open \intersect scripts /\ tasks[p] = None
    /\ tasks' = [tasks EXCEPT ![p] = s]
    /\ UNCHANGED <<messages, open, scripts>>

Answer(p, says) ==
    /\ p \in open
    /\ says = "drafted" => tasks[p] # None
    /\ tasks[p] # None => says \in {"drafted", "nothing"}
    /\ messages' = Append(messages, Reply(p, tasks[p], says))
    /\ open' = open \ {p}
    /\ UNCHANGED <<scripts, tasks>>

LeaveUnanswered(p) ==
    /\ p \in open
    /\ open' = open \ {p}
    /\ UNCHANGED <<messages, scripts, tasks>>

Close(p) == (\E says \in Says : Answer(p, says)) \/ LeaveUnanswered(p)

Next ==
    \E p \in Prompts :
        \/ Ask(p)
        \/ WriteScript(p)
        \/ \E s \in Servers : Propose(p, s)
        \/ Close(p)

Spec == Init /\ [][Next]_vars

\* Every prompt comes to an end.
FairSpec == Spec /\ \A p \in Prompts : WF_vars(Close(p))
=============================================================================
