------------------------ MODULE ConversationHistory ------------------------
(***************************************************************************)
(* What a conversation with an LLM promises (src/llm/main.go:22-27): it    *)
(* tracks the messages back and forth.  A message that was answered is     *)
(* part of the conversation, one whose sending failed is not, so that it   *)
(* can be sent again without a duplicate (src/llm/openai.go:147-150).      *)
(* When the message cannot be taken back the send is spoiled.              *)
(***************************************************************************)
EXTENDS Naturals

CONSTANT Sends   \* the calls of SendMessage, numbered in their order

VARIABLES
  history,   \* the user's messages that are part of the conversation
  sending,   \* the call in progress, 0 when there is none
  outcome    \* what became of each call

vars == <<history, sending, outcome>>

Init == /\ history = {} /\ sending = 0
        /\ outcome = [n \in Sends |-> "unsent"]

Begin(n) == /\ sending = 0 /\ outcome[n] = "unsent"
            /\ \A m \in history : m < n
            /\ sending' = n
            /\ outcome' = [outcome EXCEPT ![n] = "pending"]
            /\ UNCHANGED history

Return(n, result) == /\ sending = n
                     /\ sending' = 0
                     /\ outcome' = [outcome EXCEPT ![n] = result]

Answer(n) == Return(n, "answered") /\ history' = history \cup {n}
Fail(n)   == Return(n, "failed") /\ UNCHANGED history
Spoil(n)  == Return(n, "spoiled") /\ history' = history \cup {n}

Next == \E n \in Sends : Begin(n) \/ Answer(n) \/ Fail(n) \/ Spoil(n)

Spec == Init /\ [][Next]_vars
============================================================================
