---------------------------- MODULE Conversation ----------------------------
(***************************************************************************)
(* A conversation with an LLM (src/llm/openai.go, src/llm/anthropic.go).   *)
(*                                                                         *)
(* OpenAI keeps an assistant and a thread at the service: SendMessage adds *)
(* the message to the thread, starts a run, polls it, calls the tools the  *)
(* run asks for, and deletes the message again when something goes wrong.  *)
(* Anthropic keeps the messages in the conversation and saves them only    *)
(* when a send succeeded.  Both call the requested tools in parallel.      *)
(*                                                                         *)
(* Any call to a service may fail, or be carried out with its reply lost;  *)
(* a call whose context is done fails.  Message texts, tool inputs and the *)
(* order of messages (that of their numbers) are left out.                 *)
(***************************************************************************)
EXTENDS Naturals

CONSTANTS
  MaxSends,   \* bound: calls of SendMessage
  Calls       \* the IDs of the tool calls that may be requested at once

ASSUME MaxSendsAssumption == MaxSends \in Nat

VARIABLES
  provider,   \* which of the two providers it is
  pc,         \* where the user's goroutine is
  assistant, thread,   \* OpenAI's resources: they exist
  undeleted,  \* history: the resources whose deletion failed, or whose
              \* creation was not acknowledged
  messages,   \* the user's messages in OpenAI's thread, or in c.messages
  draft,      \* Anthropic's updatedMessages
  run,        \* OpenAI's run is going on
  requested, answered, \* the tool calls of this round, and those with a result
  ctxDone,    \* the context of the call is done
  sending,    \* the call in progress, 0 when there is none
  outcome     \* history: what became of each call; "spoiled" is an error that
              \* leaves the message behind

resources == <<assistant, thread, undeleted>>
tools == <<requested, answered>>
sends == <<sending, outcome>>
vars == <<provider, pc, resources, messages, draft, run, tools, ctxDone, sends>>

Sends == 1 .. MaxSends
Sending == {"message", "run", "poll", "list", "ask", "tools", "cleanup"}
Steps == Sending \cup {"assistant", "thread", "undo", "open", "end_thread",
                       "end_assistant", "ended", "refused"}
Results == {"unsent", "pending", "answered", "failed", "spoiled"}

TypeOK ==
  /\ provider \in {"openai", "anthropic"}
  /\ pc \in Steps
  /\ assistant \in BOOLEAN /\ thread \in BOOLEAN
  /\ undeleted \subseteq {"assistant", "thread"}
  /\ messages \subseteq Sends /\ draft \subseteq Sends
  /\ run \in BOOLEAN
  /\ requested \subseteq Calls /\ answered \subseteq requested
  /\ ctxDone \in BOOLEAN
  /\ sending \in 0 .. MaxSends
  /\ outcome \in [Sends -> Results]

Init ==
  /\ provider \in {"openai", "anthropic"}
  /\ pc = IF provider = "openai" THEN "assistant" ELSE "open"
  /\ assistant = FALSE /\ thread = FALSE /\ undeleted = {}
  /\ messages = {} /\ draft = {} /\ run = FALSE
  /\ requested = {} /\ answered = {} /\ ctxDone = FALSE
  /\ sending = 0 /\ outcome = [n \in Sends |-> "unsent"]

----------------------------------------------------------------------------
(* NewConversation of OpenAI. Anthropic's does not call the service.       *)

\* A creation that is acknowledged, one that fails, one whose reply is lost.
CreateAssistant ==
  /\ pc = "assistant"
  /\ \/ assistant' = TRUE /\ pc' = "thread" /\ UNCHANGED undeleted
     \/ pc' = "refused" /\ UNCHANGED <<assistant, undeleted>>
     \/ /\ assistant' = TRUE /\ pc' = "refused"
        /\ undeleted' = undeleted \cup {"assistant"}
  /\ UNCHANGED <<provider, thread, messages, draft, run, tools, ctxDone, sends>>

CreateThread ==
  /\ pc = "thread"
  /\ \/ thread' = TRUE /\ pc' = "open" /\ UNCHANGED undeleted
     \/ pc' = "undo" /\ UNCHANGED <<thread, undeleted>>
     \/ /\ thread' = TRUE /\ pc' = "undo"
        /\ undeleted' = undeleted \cup {"thread"}
  /\ UNCHANGED <<provider, assistant, messages, draft, run, tools, ctxDone,
                 sends>>

DeleteAssistant ==
  \/ assistant' = FALSE /\ UNCHANGED undeleted
  \/ undeleted' = undeleted \cup {"assistant"} /\ UNCHANGED assistant

DeleteThread ==
  \/ thread' = FALSE /\ UNCHANGED undeleted
  \/ undeleted' = undeleted \cup {"thread"} /\ UNCHANGED thread

\* The cleanup tasks of NewConversation.
UndoAssistant ==
  /\ pc = "undo"
  /\ DeleteAssistant
  /\ pc' = "refused"
  /\ UNCHANGED <<provider, thread, messages, draft, run, tools, ctxDone, sends>>

----------------------------------------------------------------------------
(* End deletes the thread and, whether or not that worked, the assistant.  *)

End ==
  /\ pc = "open"
  /\ pc' = IF provider = "openai" THEN "end_thread" ELSE "ended"
  /\ UNCHANGED <<provider, resources, messages, draft, run, tools, ctxDone,
                 sends>>

\* Mutant: an error ends End.
EndAtError ==
  /\ pc = "end_thread"
  /\ DeleteThread
  /\ pc' = IF thread' THEN "ended" ELSE "end_assistant"
  /\ UNCHANGED <<provider, assistant, messages, draft, run, tools, ctxDone,
                 sends>>

EndThread ==
  /\ pc = "end_thread"
  /\ DeleteThread
  /\ pc' = "end_assistant"
  /\ UNCHANGED <<provider, assistant, messages, draft, run, tools, ctxDone,
                 sends>>

EndAssistant ==
  /\ pc = "end_assistant"
  /\ DeleteAssistant
  /\ pc' = "ended"
  /\ UNCHANGED <<provider, thread, messages, draft, run, tools, ctxDone, sends>>

----------------------------------------------------------------------------
(* SendMessage, its beginning and its return. *)

\* Mutant: the outputs of the last round are kept.
SendWithOldOutputs(n) ==
  /\ pc = "open"
  /\ outcome[n] = "unsent" /\ \A m \in Sends : m < n => outcome[m] /= "unsent"
  /\ sending' = n
  /\ outcome' = [outcome EXCEPT ![n] = "pending"]
  /\ ctxDone' = FALSE
  /\ requested' = {}
  /\ IF provider = "openai"
     THEN pc' = "message" /\ UNCHANGED draft
     ELSE pc' = "ask" /\ draft' = messages \cup {n}
  /\ UNCHANGED <<provider, resources, messages, run, answered>>

SendMessage(n) ==
  /\ pc = "open"
  /\ outcome[n] = "unsent" /\ \A m \in Sends : m < n => outcome[m] /= "unsent"
  /\ sending' = n
  /\ outcome' = [outcome EXCEPT ![n] = "pending"]
  /\ ctxDone' = FALSE
  /\ requested' = {} /\ answered' = {}
  /\ IF provider = "openai"
     THEN pc' = "message" /\ UNCHANGED draft
     ELSE pc' = "ask" /\ draft' = messages \cup {n}
  /\ UNCHANGED <<provider, resources, messages, run>>

Return(result) ==
  /\ pc' = "open"
  /\ sending' = 0
  /\ outcome' = [outcome EXCEPT ![sending] = result]

ContextEnds ==
  /\ sending /= 0 /\ ~ ctxDone
  /\ ctxDone' = TRUE
  /\ UNCHANGED <<provider, pc, resources, messages, draft, run, tools, sends>>

----------------------------------------------------------------------------
(* SendMessage of OpenAI. *)

CreateMessage ==
  /\ pc = "message"
  /\ \/ /\ ~ ctxDone
        /\ messages' = messages \cup {sending} /\ pc' = "run"
        /\ UNCHANGED sends
     \/ Return("failed") /\ UNCHANGED messages
     \/ messages' = messages \cup {sending} /\ Return("spoiled")
  /\ UNCHANGED <<provider, resources, draft, run, tools, ctxDone>>

\* Mutant: the error of CreateRun is returned without the cleanup tasks.
CreateRunNoCleanup ==
  /\ pc = "run"
  /\ \/ ~ ctxDone /\ run' = TRUE /\ pc' = "poll" /\ UNCHANGED sends
     \/ Return("failed") /\ run' \in {run, TRUE}
  /\ UNCHANGED <<provider, resources, messages, draft, tools, ctxDone>>

CreateRun ==
  /\ pc = "run"
  /\ \/ ~ ctxDone /\ run' = TRUE /\ pc' = "poll"
     \/ pc' = "cleanup" /\ run' \in {run, TRUE}
  /\ UNCHANGED <<provider, resources, messages, draft, tools, ctxDone, sends>>

\* The select finds the context done: the run is cancelled, if that works.
CancelRun ==
  /\ pc = "poll" /\ ctxDone
  /\ pc' = "cleanup" /\ run' \in {run, FALSE}
  /\ UNCHANGED <<provider, resources, messages, draft, tools, ctxDone, sends>>

\* The select finds the ticker: what RetrieveRun says. It may fail; the run
\* may be on its way (or ask for something the code does not know), want
\* tools, want an action without saying which, be complete, or have failed.
RetrieveRun ==
  /\ pc = "poll"
  /\ \/ pc' = "cleanup" /\ UNCHANGED <<run, tools>>
     \/ /\ ~ ctxDone /\ run
        /\ \/ UNCHANGED <<pc, run, tools>>
           \/ \E calls \in SUBSET Calls :
                 requested' = calls /\ answered' = {} /\ pc' = "tools"
                 /\ UNCHANGED run
           \/ run' = FALSE /\ pc' = "list" /\ UNCHANGED tools
           \/ run' = FALSE /\ pc' = "cleanup" /\ UNCHANGED tools
  /\ UNCHANGED <<provider, resources, messages, draft, ctxDone, sends>>

SubmitToolOutputs ==
  /\ pc = "tools" /\ provider = "openai" /\ answered = requested
  /\ \/ ~ ctxDone /\ pc' = "poll"
     \/ pc' = "cleanup"
  /\ UNCHANGED <<provider, resources, messages, draft, run, tools, ctxDone,
                 sends>>

\* The answer is returned; an answer without messages, or without content, is
\* an error that does not run the cleanup tasks.
ListMessage ==
  /\ pc = "list"
  /\ \/ ~ ctxDone /\ Return("answered")
     \/ ~ ctxDone /\ Return("spoiled")
     \/ pc' = "cleanup" /\ UNCHANGED sends
  /\ UNCHANGED <<provider, resources, messages, draft, run, tools, ctxDone>>

\* cleanupTasks.Run, with a context of its own: DeleteMessage.
Cleanup ==
  /\ pc = "cleanup"
  /\ \/ messages' = messages \ {sending} /\ Return("failed")
     \/ Return("spoiled") /\ UNCHANGED messages
  /\ UNCHANGED <<provider, resources, draft, run, tools, ctxDone>>

----------------------------------------------------------------------------
(* SendMessage of Anthropic. *)

\* Mutant: a request that failed is made again.
AskAgain ==
  /\ pc = "ask"
  /\ \/ UNCHANGED <<pc, messages, tools, sends>>
     \/ /\ ~ ctxDone
        /\ \E calls \in SUBSET Calls \ {{}} :
              requested' = calls /\ answered' = {} /\ pc' = "tools"
        /\ UNCHANGED <<messages, sends>>
     \/ /\ ~ ctxDone
        /\ messages' = draft
        /\ Return("answered")
        /\ UNCHANGED tools
  /\ UNCHANGED <<provider, resources, draft, run, ctxDone>>

\* Messages.New: a failure, an answer that wants tools, the last answer.
Ask ==
  /\ pc = "ask"
  /\ \/ Return("failed") /\ UNCHANGED <<messages, tools>>
     \/ /\ ~ ctxDone
        /\ \E calls \in SUBSET Calls \ {{}} :
              requested' = calls /\ answered' = {} /\ pc' = "tools"
        /\ UNCHANGED <<messages, sends>>
     \/ /\ ~ ctxDone
        /\ messages' = draft
        /\ Return("answered")
        /\ UNCHANGED tools
  /\ UNCHANGED <<provider, resources, draft, run, ctxDone>>

AppendResults ==
  /\ pc = "tools" /\ provider = "anthropic" /\ answered = requested
  /\ pc' = "ask"
  /\ UNCHANGED <<provider, resources, messages, draft, run, tools, ctxDone,
                 sends>>

----------------------------------------------------------------------------
(* callToolsOpenAI, callToolsAnthropic: one goroutine per call writes the  *)
(* output, the error, or that there is no such tool.                       *)

CallTool(i) ==
  /\ pc = "tools" /\ i \in requested \ answered
  /\ answered' = answered \cup {i}
  /\ UNCHANGED <<provider, pc, resources, messages, draft, run, requested,
                 ctxDone, sends>>

----------------------------------------------------------------------------
Stopped == pc \in {"ended", "refused"} /\ UNCHANGED vars

NewConversation == CreateAssistant \/ CreateThread \/ UndoAssistant
SendStep == \/ CreateMessage \/ CreateRun \/ CancelRun \/ RetrieveRun
            \/ SubmitToolOutputs \/ ListMessage \/ Cleanup \/ Ask
            \/ AppendResults \/ \E i \in Calls : CallTool(i)

Next == \/ NewConversation \/ End \/ EndThread \/ EndAssistant
        \/ \E n \in Sends : SendMessage(n)
        \/ ContextEnds \/ SendStep \/ Stopped

Spec == Init /\ [][Next]_vars
\* A call of the service returns (with its context at the latest), and so do
\* the tools; nothing is assumed of what they return, nor of the user.
FairSpec == Spec /\ WF_vars(SendStep)

----------------------------------------------------------------------------
(* Properties *)

\* While a call is in progress its own message is not yet part of anything.
History == INSTANCE ConversationHistory WITH
             history <- messages \ {sending},
             Sends <- Sends, sending <- sending, outcome <- outcome

\* A failed SendMessage leaves no message behind (openai.go:147-150) and an
\* answered one does, whichever step failed, except when the message cannot
\* be deleted, its creation was not acknowledged, or the answer was empty.
KeepsHistory == History!Spec

\* A resource is left at the service only if its own deletion failed or its
\* creation was not acknowledged: NewConversation undoes its first half, and
\* End tries both deletions (openai.go:97 and 118).
NothingLeaks ==
  pc \in {"ended", "refused"} =>
    /\ assistant => "assistant" \in undeleted
    /\ thread => "thread" \in undeleted

\* SendMessage returns once its context is done, whatever the service says.
SendEnds == (sending /= 0 /\ ctxDone) ~> sending = 0
============================================================================
