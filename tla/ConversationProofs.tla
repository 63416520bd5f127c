------------------------- MODULE ConversationProofs -------------------------
(***************************************************************************)
(* The safety of Conversation, and that it implements ConversationHistory, *)
(* for any number of sends and tool calls.                                 *)
(***************************************************************************)
EXTENDS Conversation, TLAPS

\* Exactly the call in progress is pending; the others are sent in order.
SendInv ==
  /\ sending /= 0 <=> pc \in Sending
  /\ \A n \in Sends : outcome[n] = "pending" <=> n = sending
  /\ \A m, n \in Sends :
        m < n /\ outcome[n] /= "unsent" => outcome[m] /= "unsent"

\* Where each provider can be, and where the message of the call is.
MessageInv ==
  /\ provider = "openai" => pc /= "ask"
  /\ provider = "anthropic" => pc \in {"open", "ask", "tools", "ended"}
  /\ \A n \in messages : outcome[n] /= "unsent"
  /\ provider = "openai" /\ pc \in {"run", "poll", "list", "tools", "cleanup"}
       => sending \in messages
  /\ pc \in {"message", "ask"} => sending \notin messages
  /\ provider = "anthropic" /\ pc \in {"ask", "tools"} =>
       sending \notin messages /\ draft = messages \cup {sending}

\* Which resources there are at each step, and which deletions have failed.
ResourceInv ==
  /\ provider = "anthropic" => ~ assistant /\ ~ thread
  /\ pc = "assistant" => ~ assistant /\ ~ thread
  /\ pc = "thread" => ~ thread
  /\ pc \in {"undo", "end_assistant"} => (thread => "thread" \in undeleted)
  /\ NothingLeaks

Inv == TypeOK /\ SendInv /\ MessageInv /\ ResourceInv

----------------------------------------------------------------------------
LEMMA InitInv == Init => Inv
<1> SUFFICES ASSUME Init PROVE Inv
  OBVIOUS
<1> USE MaxSendsAssumption DEF Init, Sends
<1>1. TypeOK
  <2>1. pc \in Steps /\ outcome \in [Sends -> Results]
    BY DEF Steps, Results, Sending
  <2>2. /\ assistant \in BOOLEAN /\ thread \in BOOLEAN /\ run \in BOOLEAN
        /\ ctxDone \in BOOLEAN /\ provider \in {"openai", "anthropic"}
    OBVIOUS
  <2>3. /\ undeleted \subseteq {"assistant", "thread"} /\ messages \subseteq Sends
        /\ draft \subseteq Sends /\ sending \in 0 .. MaxSends
        /\ requested \subseteq Calls /\ answered \subseteq requested
    OBVIOUS
  <2> HIDE DEF Init
  <2> QED BY <2>1, <2>2, <2>3 DEF TypeOK
<1>2. SendInv BY DEF SendInv, Sending
<1>3. MessageInv BY DEF MessageInv
<1>4. ResourceInv BY DEF ResourceInv, NothingLeaks
<1> QED BY <1>1, <1>2, <1>3, <1>4 DEF Inv

\* What a return does to the outcomes.
LEMMA Returned ==
  ASSUME Inv, NEW result \in Results \ {"unsent", "pending"}, Return(result),
         pc \in Sending
  PROVE  /\ sending \in Sends /\ sending /= 0 /\ sending' = 0 /\ pc' = "open"
         /\ outcome[sending] = "pending" /\ outcome'[sending] = result
         /\ outcome' \in [Sends -> Results]
         /\ \A n \in Sends : n /= sending => outcome'[n] = outcome[n]
         /\ SendInv'
<1> USE MaxSendsAssumption DEF Inv, Return
<1>1. sending \in Sends /\ sending /= 0
  BY DEF SendInv, TypeOK, Sends
<1>2. outcome[sending] = "pending" BY <1>1 DEF SendInv
<1>3. /\ outcome'[sending] = result
      /\ \A n \in Sends : n /= sending => outcome'[n] = outcome[n]
      /\ outcome' \in [Sends -> Results]
  BY <1>1 DEF TypeOK
<1>4. SendInv'
  <2>1. sending' = 0 /\ pc' = "open" OBVIOUS
  <2>2. \A n \in Sends : outcome'[n] /= "pending"
    BY <1>1, <1>3 DEF SendInv
  <2>3. \A n \in Sends : outcome'[n] = "unsent" <=> outcome[n] = "unsent"
    BY <1>2, <1>3
  <2>4. \A n \in Sends : n /= 0 BY DEF Sends
  <2> QED BY <2>1, <2>2, <2>3, <2>4 DEF SendInv, Sending
<1> QED BY <1>1, <1>2, <1>3, <1>4

\* A return with no new message but that of the call keeps MessageInv.
LEMMA ReturnedMessage ==
  ASSUME Inv, NEW result \in Results \ {"unsent", "pending"}, Return(result),
         pc \in Sending, UNCHANGED provider,
         messages' \subseteq messages \cup {sending}
  PROVE  MessageInv' /\ messages' \subseteq Sends
<1>1. sending \in Sends /\ outcome'[sending] /= "unsent" /\ pc' = "open"
  BY Returned
<1>2. \A n \in messages' : n \in Sends /\ outcome'[n] /= "unsent"
  <2> SUFFICES ASSUME NEW n \in messages'
               PROVE  n \in Sends /\ outcome'[n] /= "unsent"
    OBVIOUS
  <2>1. CASE n = sending BY <1>1, <2>1
  <2>2. CASE n /= sending
    <3>1. n \in messages /\ n \in Sends BY <2>2 DEF Inv, TypeOK
    <3>2. outcome[n] /= "unsent" BY <3>1 DEF Inv, MessageInv
    <3> QED BY <2>2, <3>1, <3>2, Returned
  <2> QED BY <2>1, <2>2
<1> QED BY <1>1, <1>2 DEF MessageInv, Inv

\* Every action preserves the parts of the invariant.
LEMMA CreateAssistantInv ==
  ASSUME Inv, CreateAssistant
  PROVE  Inv'
<1> USE MaxSendsAssumption DEF Inv, CreateAssistant, resources, tools, sends
<1>1. TypeOK' BY DEF TypeOK, Steps, Sending
<1>2. SendInv' BY DEF SendInv, Sending
<1>3. MessageInv' BY DEF MessageInv
<1>4. ResourceInv'
  <2>1. provider /= "anthropic" /\ provider' /= "anthropic" BY DEF MessageInv
  <2> QED BY <2>1 DEF ResourceInv, NothingLeaks
<1> QED BY <1>1, <1>2, <1>3, <1>4

LEMMA CreateThreadInv ==
  ASSUME Inv, CreateThread
  PROVE  Inv'
<1> USE MaxSendsAssumption DEF Inv, CreateThread, resources, tools, sends
<1>1. TypeOK' BY DEF TypeOK, Steps, Sending
<1>2. SendInv' BY DEF SendInv, Sending
<1>3. MessageInv' BY DEF MessageInv
<1>4. ResourceInv'
  <2>1. provider /= "anthropic" /\ provider' /= "anthropic" BY DEF MessageInv
  <2> QED BY <2>1 DEF ResourceInv, NothingLeaks
<1> QED BY <1>1, <1>2, <1>3, <1>4

LEMMA UndoAssistantInv ==
  ASSUME Inv, UndoAssistant
  PROVE  Inv'
<1> USE MaxSendsAssumption DEF Inv, UndoAssistant, DeleteAssistant,
      resources, tools, sends
<1>1. TypeOK' BY DEF TypeOK, Steps, Sending
<1>2. SendInv' BY DEF SendInv, Sending
<1>3. MessageInv' BY DEF MessageInv
<1>4. ResourceInv'
  <2>1. provider /= "anthropic" /\ provider' /= "anthropic" BY DEF MessageInv
  <2> QED BY <2>1 DEF ResourceInv, NothingLeaks
<1> QED BY <1>1, <1>2, <1>3, <1>4

LEMMA EndInv ==
  ASSUME Inv, End
  PROVE  Inv'
<1> USE MaxSendsAssumption DEF Inv, End, resources, tools, sends
<1>1. TypeOK' BY DEF TypeOK, Steps, Sending
<1>2. SendInv' BY DEF SendInv, Sending
<1>3. MessageInv' BY DEF MessageInv
<1>4. ResourceInv'
  <2>1. CASE provider = "openai"
    <3>1. pc' = "end_thread" BY <2>1
    <3> QED BY <2>1, <3>1 DEF ResourceInv, NothingLeaks
  <2>2. CASE provider /= "openai"
    <3>1. provider = "anthropic" BY <2>2 DEF TypeOK
    <3>2. pc' = "ended" BY <2>2
    <3>3. ~ assistant /\ ~ thread /\ ~ assistant' /\ ~ thread'
      BY <3>1 DEF ResourceInv
    <3> QED BY <3>2, <3>3 DEF ResourceInv, NothingLeaks
  <2> QED BY <2>1, <2>2
<1> QED BY <1>1, <1>2, <1>3, <1>4

LEMMA EndThreadInv ==
  ASSUME Inv, EndThread
  PROVE  Inv'
<1> USE MaxSendsAssumption DEF Inv, EndThread, DeleteThread,
      resources, tools, sends
<1>1. TypeOK' BY DEF TypeOK, Steps, Sending
<1>2. SendInv' BY DEF SendInv, Sending
<1>3. MessageInv' BY DEF MessageInv
<1>4. ResourceInv'
  <2>1. thread' => "thread" \in undeleted' OBVIOUS
  <2>2. thread' => thread BY DEF TypeOK
  <2> QED BY <2>1, <2>2 DEF ResourceInv, NothingLeaks
<1> QED BY <1>1, <1>2, <1>3, <1>4

LEMMA EndAssistantInv ==
  ASSUME Inv, EndAssistant
  PROVE  Inv'
<1> USE MaxSendsAssumption DEF Inv, EndAssistant, DeleteAssistant,
      resources, tools, sends
<1>1. TypeOK' BY DEF TypeOK, Steps, Sending
<1>2. SendInv' BY DEF SendInv, Sending
<1>3. MessageInv' BY DEF MessageInv
<1>4. ResourceInv' BY DEF ResourceInv, NothingLeaks
<1> QED BY <1>1, <1>2, <1>3, <1>4

LEMMA ContextEndsInv ==
  ASSUME Inv, ContextEnds
  PROVE  Inv'
<1> USE MaxSendsAssumption DEF Inv, ContextEnds, resources, tools, sends
<1>1. TypeOK' BY DEF TypeOK, Steps, Sending
<1>2. SendInv' BY DEF SendInv, Sending
<1>3. MessageInv' BY DEF MessageInv
<1>4. ResourceInv' BY DEF ResourceInv, NothingLeaks
<1> QED BY <1>1, <1>2, <1>3, <1>4

LEMMA CreateMessageInv ==
  ASSUME Inv, CreateMessage
  PROVE  Inv'
<1> USE MaxSendsAssumption DEF Inv, CreateMessage, resources, tools, sends
<1>1. SendInv' /\ outcome' \in [Sends -> Results] /\ sending' \in 0 .. MaxSends
  BY Returned DEF Sending, Results, TypeOK, SendInv, Sends
<1>2. TypeOK'
  <2>1. messages' \subseteq Sends
    <3>1. sending \in Sends BY DEF TypeOK, SendInv, Sends, Sending
    <3>2. messages' \subseteq messages \cup {sending} OBVIOUS
    <3> QED BY <3>1, <3>2 DEF TypeOK
  <2>2. pc' \in Steps BY DEF Steps, Sending, Return
  <2>3. requested' \subseteq Calls /\ answered' \subseteq requested'
    BY DEF TypeOK
  <2> QED BY <1>1, <2>1, <2>2, <2>3 DEF TypeOK
<1>3. MessageInv'
  <2>1. CASE \E result \in Results \ {"unsent", "pending"} : Return(result)
    <3>1. messages' \subseteq messages \cup {sending}
      BY DEF MessageInv, TypeOK
    <3> QED BY <2>1, <3>1, ReturnedMessage DEF Sending
  <2>2. CASE ~ ctxDone /\ messages' = messages \cup {sending} /\ pc' = "run" /\ UNCHANGED sends
    <3>1. sending \in Sends /\ outcome[sending] = "pending"
      BY DEF SendInv, TypeOK, Sends, Sending
    <3> QED BY <2>2, <3>1 DEF MessageInv, TypeOK
  <2> QED BY <2>1, <2>2 DEF Results
<1>4. ResourceInv' BY DEF ResourceInv, NothingLeaks, Return
<1> QED BY <1>1, <1>2, <1>3, <1>4

LEMMA CreateRunInv ==
  ASSUME Inv, CreateRun
  PROVE  Inv'
<1> USE MaxSendsAssumption DEF Inv, CreateRun, resources, tools, sends
<1>1. TypeOK' BY DEF TypeOK, Steps, Sending
<1>2. SendInv' BY DEF SendInv, Sending
<1>3. MessageInv' BY DEF MessageInv
<1>4. ResourceInv' BY DEF ResourceInv, NothingLeaks
<1> QED BY <1>1, <1>2, <1>3, <1>4

LEMMA CancelRunInv ==
  ASSUME Inv, CancelRun
  PROVE  Inv'
<1> USE MaxSendsAssumption DEF Inv, CancelRun, resources, tools, sends
<1>1. TypeOK' BY DEF TypeOK, Steps, Sending
<1>2. SendInv' BY DEF SendInv, Sending
<1>3. MessageInv' BY DEF MessageInv
<1>4. ResourceInv' BY DEF ResourceInv, NothingLeaks
<1> QED BY <1>1, <1>2, <1>3, <1>4

LEMMA RetrieveRunInv ==
  ASSUME Inv, RetrieveRun
  PROVE  Inv'
<1> USE MaxSendsAssumption DEF Inv, RetrieveRun, resources, tools, sends
<1>1. TypeOK' BY DEF TypeOK, Steps, Sending
<1>2. SendInv' BY DEF SendInv, Sending
<1>3. MessageInv' BY DEF MessageInv
<1>4. ResourceInv' BY DEF ResourceInv, NothingLeaks
<1> QED BY <1>1, <1>2, <1>3, <1>4

LEMMA SubmitToolOutputsInv ==
  ASSUME Inv, SubmitToolOutputs
  PROVE  Inv'
<1> USE MaxSendsAssumption DEF Inv, SubmitToolOutputs, resources, tools, sends
<1>1. TypeOK' BY DEF TypeOK, Steps, Sending
<1>2. SendInv' BY DEF SendInv, Sending
<1>3. MessageInv' BY DEF MessageInv
<1>4. ResourceInv' BY DEF ResourceInv, NothingLeaks
<1> QED BY <1>1, <1>2, <1>3, <1>4

LEMMA ListMessageInv ==
  ASSUME Inv, ListMessage
  PROVE  Inv'
<1> USE MaxSendsAssumption DEF Inv, ListMessage, resources, tools, sends
<1>1. SendInv' /\ outcome' \in [Sends -> Results] /\ sending' \in 0 .. MaxSends
  BY Returned DEF Sending, Results, TypeOK, SendInv, Sends
<1>2. TypeOK'
  <2>1. messages' \subseteq Sends
    BY DEF TypeOK, MessageInv, SendInv, Sends, Sending
  <2>2. pc' \in Steps BY DEF Steps, Sending, Return
  <2>3. requested' \subseteq Calls /\ answered' \subseteq requested'
    BY DEF TypeOK
  <2> QED BY <1>1, <2>1, <2>2, <2>3 DEF TypeOK
<1>3. MessageInv'
  <2>1. CASE \E result \in Results \ {"unsent", "pending"} : Return(result)
    <3>1. messages' \subseteq messages \cup {sending}
      BY DEF MessageInv, TypeOK
    <3> QED BY <2>1, <3>1, ReturnedMessage DEF Sending
  <2>2. CASE pc' = "cleanup" /\ UNCHANGED sends
    <3>1. sending \in Sends /\ outcome[sending] = "pending"
      BY DEF SendInv, TypeOK, Sends, Sending
    <3> QED BY <2>2, <3>1 DEF MessageInv, TypeOK
  <2> QED BY <2>1, <2>2 DEF Results
<1>4. ResourceInv' BY DEF ResourceInv, NothingLeaks, Return
<1> QED BY <1>1, <1>2, <1>3, <1>4

LEMMA CleanupInv ==
  ASSUME Inv, Cleanup
  PROVE  Inv'
<1> USE MaxSendsAssumption DEF Inv, Cleanup, resources, tools, sends
<1>1. SendInv' /\ outcome' \in [Sends -> Results] /\ sending' \in 0 .. MaxSends
  BY Returned DEF Sending, Results, TypeOK, SendInv, Sends
<1>2. TypeOK'
  <2>1. messages' \subseteq Sends
    BY DEF TypeOK, MessageInv, SendInv, Sends, Sending
  <2>2. pc' \in Steps BY DEF Steps, Sending, Return
  <2>3. requested' \subseteq Calls /\ answered' \subseteq requested'
    BY DEF TypeOK
  <2> QED BY <1>1, <2>1, <2>2, <2>3 DEF TypeOK
<1>3. MessageInv'
  <2>1. CASE \E result \in Results \ {"unsent", "pending"} : Return(result)
    <3>1. messages' \subseteq messages \cup {sending}
      BY DEF MessageInv, TypeOK
    <3> QED BY <2>1, <3>1, ReturnedMessage DEF Sending
  <2> QED BY <2>1 DEF Results
<1>4. ResourceInv' BY DEF ResourceInv, NothingLeaks, Return
<1> QED BY <1>1, <1>2, <1>3, <1>4

LEMMA AskInv ==
  ASSUME Inv, Ask
  PROVE  Inv'
<1> USE MaxSendsAssumption DEF Inv, Ask, resources, tools, sends
<1>1. SendInv' /\ outcome' \in [Sends -> Results] /\ sending' \in 0 .. MaxSends
  BY Returned DEF Sending, Results, TypeOK, SendInv, Sends
<1>2. TypeOK'
  <2>1. messages' \subseteq Sends
    BY DEF TypeOK, MessageInv, SendInv, Sends, Sending
  <2>2. pc' \in Steps BY DEF Steps, Sending, Return
  <2>3. requested' \subseteq Calls /\ answered' \subseteq requested'
    BY DEF TypeOK
  <2> QED BY <1>1, <2>1, <2>2, <2>3 DEF TypeOK
<1>3. MessageInv'
  <2>1. CASE \E result \in Results \ {"unsent", "pending"} : Return(result)
    <3>1. messages' \subseteq messages \cup {sending}
      BY DEF MessageInv, TypeOK
    <3> QED BY <2>1, <3>1, ReturnedMessage DEF Sending
  <2>2. CASE pc' = "tools" /\ UNCHANGED <<messages, sends>>
    <3>1. sending \in Sends /\ outcome[sending] = "pending"
      BY DEF SendInv, TypeOK, Sends, Sending
    <3> QED BY <2>2, <3>1 DEF MessageInv, TypeOK
  <2> QED BY <2>1, <2>2 DEF Results
<1>4. ResourceInv' BY DEF ResourceInv, NothingLeaks, Return
<1> QED BY <1>1, <1>2, <1>3, <1>4

LEMMA AppendResultsInv ==
  ASSUME Inv, AppendResults
  PROVE  Inv'
<1> USE MaxSendsAssumption DEF Inv, AppendResults, resources, tools, sends
<1>1. TypeOK' BY DEF TypeOK, Steps, Sending
<1>2. SendInv' BY DEF SendInv, Sending
<1>3. MessageInv' BY DEF MessageInv
<1>4. ResourceInv' BY DEF ResourceInv, NothingLeaks
<1> QED BY <1>1, <1>2, <1>3, <1>4

LEMMA CallToolInv ==
  ASSUME Inv, NEW i \in Calls, CallTool(i)
  PROVE  Inv'
<1> USE MaxSendsAssumption DEF Inv, CallTool, resources, sends
<1>1. TypeOK' BY DEF TypeOK
<1>2. SendInv' BY DEF SendInv
<1>3. MessageInv' BY DEF MessageInv
<1>4. ResourceInv' BY DEF ResourceInv, NothingLeaks
<1> QED BY <1>1, <1>2, <1>3, <1>4

LEMMA SendMessageInv ==
  ASSUME Inv, NEW n \in Sends, SendMessage(n)
  PROVE  Inv'
<1> USE MaxSendsAssumption DEF Inv, SendMessage, resources
<1>1. n \in 0 .. MaxSends /\ n /= 0 BY DEF Sends
<1>2. /\ outcome'[n] = "pending" /\ outcome' \in [Sends -> Results]
      /\ \A m \in Sends : m /= n => outcome'[m] = outcome[m]
  BY DEF TypeOK, Results
<1>3. TypeOK'
  <2>1. messages \cup {n} \subseteq Sends BY DEF TypeOK
  <2>2. draft' \subseteq Sends /\ pc' \in Steps
    BY <2>1 DEF TypeOK, Steps, Sending
  <2> QED BY <1>1, <1>2, <2>2 DEF TypeOK
<1>4. SendInv'
  <2>1. sending = 0 BY DEF SendInv, Sending
  <2>2. \A m \in Sends : outcome[m] /= "pending" BY <2>1 DEF SendInv, Sends
  <2>3. \A m \in Sends : outcome'[m] = "pending" <=> m = n BY <1>2, <2>2
  <2>4. pc' \in Sending /\ sending' = n BY DEF Sending
  <2>5. ASSUME NEW k \in Sends, NEW m \in Sends, k < m, outcome'[m] /= "unsent"
        PROVE  outcome'[k] /= "unsent"
    <3>1. CASE m = n BY <1>2, <2>5, <3>1
    <3>2. CASE m /= n BY <1>2, <2>5, <3>2 DEF SendInv
    <3> QED BY <3>1, <3>2
  <2> QED BY <1>1, <2>3, <2>4, <2>5 DEF SendInv
<1>5. MessageInv'
  <2>1. n \notin messages BY DEF MessageInv
  <2>2. \A m \in messages : m /= n /\ outcome'[m] /= "unsent"
    BY <1>2, <2>1 DEF MessageInv, TypeOK
  <2> QED BY <2>1, <2>2 DEF MessageInv, TypeOK
<1>6. ResourceInv' BY DEF ResourceInv, NothingLeaks
<1> QED BY <1>3, <1>4, <1>5, <1>6

LEMMA StutterInv == Inv /\ UNCHANGED vars => Inv'
BY DEF Inv, TypeOK, SendInv, MessageInv, ResourceInv, NothingLeaks, vars,
       resources, tools, sends

LEMMA NextInv == Inv /\ [Next]_vars => Inv'
<1> SUFFICES ASSUME Inv, [Next]_vars PROVE Inv'
  OBVIOUS
<1>1. CASE NewConversation
  BY <1>1, CreateAssistantInv, CreateThreadInv, UndoAssistantInv
  DEF NewConversation
<1>2. CASE End \/ EndThread \/ EndAssistant
  BY <1>2, EndInv, EndThreadInv, EndAssistantInv
<1>3. CASE \E n \in Sends : SendMessage(n) BY <1>3, SendMessageInv
<1>4. CASE SendStep
  BY <1>4, CreateMessageInv, CreateRunInv, CancelRunInv, RetrieveRunInv,
     SubmitToolOutputsInv, ListMessageInv, CleanupInv, AskInv,
     AppendResultsInv, CallToolInv DEF SendStep
<1>5. CASE ContextEnds BY <1>5, ContextEndsInv
<1>6. CASE Stopped \/ UNCHANGED vars BY <1>6, StutterInv DEF Stopped
<1> QED BY <1>1, <1>2, <1>3, <1>4, <1>5, <1>6 DEF Next

LEMMA Invariance == Spec => []Inv
BY InitInv, NextInv, PTL DEF Spec

----------------------------------------------------------------------------
(* The refinement. *)

LEMMA InitHistory == Init => History!Init
BY DEF Init, History!Init

\* A step that keeps messages, call and outcomes is a stutter.
LEMMA Stutters == UNCHANGED <<messages, sends>> => UNCHANGED History!vars
BY DEF sends, History!vars

\* Every step of a call is a step of the history or a stutter.
LEMMA CallHistory ==
  ASSUME Inv, CreateMessage \/ ListMessage \/ Cleanup \/ Ask
  PROVE  [History!Next]_(History!vars)
<1> USE MaxSendsAssumption DEF Inv
<1>1. pc \in Sending BY DEF CreateMessage, ListMessage, Cleanup, Ask, Sending
<1>2. sending \in Sends /\ sending /= 0 BY <1>1 DEF SendInv, TypeOK, Sends
<1>3. 0 \notin messages BY DEF TypeOK, Sends
<1>4. ASSUME NEW result, Return(result)
      PROVE  /\ History!Return(sending, result)
             /\ messages' \ {sending'} = messages' \ {0}
  BY <1>2, <1>4 DEF Return, History!Return
<1>5. ASSUME Return("answered"), messages' = messages \cup {sending}
      PROVE  History!Answer(sending)
  <2>1. messages' \ {sending'} = (messages \ {sending}) \cup {sending}
    BY <1>2, <1>3, <1>4, <1>5
  <2> QED BY <1>4, <1>5, <2>1 DEF History!Answer
<1>6. ASSUME Return("failed"), messages' = messages \ {sending}
      PROVE  History!Fail(sending)
  <2>1. messages' \ {sending'} = messages \ {sending}
    BY <1>3, <1>4, <1>6
  <2> QED BY <1>4, <1>6, <2>1 DEF History!Fail
<1>7. ASSUME Return("spoiled"), messages' = messages \cup {sending}
      PROVE  History!Spoil(sending)
  <2>1. messages' \ {sending'} = (messages \ {sending}) \cup {sending}
    BY <1>2, <1>3, <1>4, <1>7
  <2> QED BY <1>4, <1>7, <2>1 DEF History!Spoil
<1>8. CASE CreateMessage
  <2>1. sending \notin messages BY <1>8 DEF CreateMessage, MessageInv
  <2>2. CASE messages' = messages \cup {sending} /\ UNCHANGED sends
    BY <2>2 DEF sends, History!vars
  <2>3. CASE Return("failed") /\ UNCHANGED messages
    <3>1. messages' = messages \ {sending} BY <2>1, <2>3
    <3> QED BY <1>2, <1>6, <2>3, <3>1 DEF History!Next
  <2>4. CASE messages' = messages \cup {sending} /\ Return("spoiled")
    BY <1>2, <1>7, <2>4 DEF History!Next
  <2> QED BY <1>8, <2>2, <2>3, <2>4 DEF CreateMessage
<1>9. CASE ListMessage
  <2>1. sending \in messages /\ UNCHANGED messages
    BY <1>9 DEF ListMessage, MessageInv, TypeOK
  <2>2. messages' = messages \cup {sending} BY <2>1
  <2>3. CASE Return("answered") BY <1>2, <1>5, <2>2, <2>3 DEF History!Next
  <2>4. CASE Return("spoiled") BY <1>2, <1>7, <2>2, <2>4 DEF History!Next
  <2>5. CASE UNCHANGED sends BY <2>1, <2>5, Stutters
  <2> QED BY <1>9, <2>3, <2>4, <2>5 DEF ListMessage
<1>10. CASE Cleanup
  <2>1. sending \in messages BY <1>10 DEF Cleanup, MessageInv, TypeOK
  <2>2. CASE messages' = messages \ {sending} /\ Return("failed")
    BY <1>2, <1>6, <2>2 DEF History!Next
  <2>3. CASE Return("spoiled") /\ UNCHANGED messages
    <3>1. messages' = messages \cup {sending} BY <2>1, <2>3
    <3> QED BY <1>2, <1>7, <2>3, <3>1 DEF History!Next
  <2> QED BY <1>10, <2>2, <2>3 DEF Cleanup
<1>11. CASE Ask
  <2>1. sending \notin messages /\ draft = messages \cup {sending}
    BY <1>11 DEF Ask, MessageInv, TypeOK
  <2>2. CASE Return("failed") /\ UNCHANGED messages
    <3>1. messages' = messages \ {sending} BY <2>1, <2>2
    <3> QED BY <1>2, <1>6, <2>2, <3>1 DEF History!Next
  <2>3. CASE UNCHANGED <<messages, sends>> BY <2>3, Stutters
  <2>4. CASE messages' = draft /\ Return("answered")
    BY <1>2, <1>5, <2>1, <2>4 DEF History!Next
  <2> QED BY <1>11, <2>2, <2>3, <2>4 DEF Ask, sends
<1> QED BY <1>8, <1>9, <1>10, <1>11

\* SendMessage begins a call of the history.
LEMMA BeginHistory ==
  ASSUME Inv, NEW n \in Sends, SendMessage(n)
  PROVE  History!Begin(n)
<1> USE MaxSendsAssumption DEF Inv
<1>1. sending = 0 BY DEF SendMessage, SendInv, Sending
<1>2. n \notin messages /\ 0 \notin messages
  BY DEF SendMessage, MessageInv, TypeOK, Sends
<1>3. \A m \in messages : m < n
  <2> SUFFICES ASSUME NEW m \in messages PROVE m < n
    OBVIOUS
  <2>1. m \in Sends /\ outcome[m] /= "unsent" BY DEF TypeOK, MessageInv
  <2>2. ~ n < m BY <2>1 DEF SendInv, SendMessage
  <2> QED BY <1>2, <2>1, <2>2 DEF Sends
<1>4. messages' \ {sending'} = messages \ {sending}
  BY <1>1, <1>2 DEF SendMessage
<1> QED BY <1>1, <1>2, <1>3, <1>4 DEF SendMessage, History!Begin

LEMMA NextHistory == Inv /\ [Next]_vars => [History!Next]_(History!vars)
<1> SUFFICES ASSUME Inv, [Next]_vars PROVE [History!Next]_(History!vars)
  OBVIOUS
<1>1. CASE \E n \in Sends : SendMessage(n)
  BY <1>1, BeginHistory DEF History!Next
<1>2. CASE CreateMessage \/ ListMessage \/ Cleanup \/ Ask
  BY <1>2, CallHistory
<1>3. CASE \/ NewConversation \/ End \/ EndThread \/ EndAssistant
            \/ ContextEnds \/ Stopped \/ UNCHANGED vars
  <2>1. UNCHANGED <<messages, sends>>
    BY <1>3 DEF NewConversation, CreateAssistant, CreateThread, UndoAssistant,
       End, EndThread, EndAssistant, ContextEnds, Stopped, vars
  <2> QED BY <2>1, Stutters
<1>4. CASE \/ CreateRun \/ CancelRun \/ RetrieveRun \/ SubmitToolOutputs
            \/ AppendResults \/ \E i \in Calls : CallTool(i)
  <2>1. UNCHANGED <<messages, sends>>
    BY <1>4 DEF CreateRun, CancelRun, RetrieveRun, SubmitToolOutputs,
       AppendResults, CallTool
  <2> QED BY <2>1, Stutters
<1> QED BY <1>1, <1>2, <1>3, <1>4 DEF Next, SendStep

----------------------------------------------------------------------------
\* Every variable of a conversation keeps its type.
THEOREM TypeCorrect == Spec => []TypeOK
<1>1. Inv => TypeOK BY DEF Inv
<1> QED BY <1>1, Invariance, PTL

\* A resource is left at the service only if its own deletion failed or its
\* creation was not acknowledged.
THEOREM NoLeaks == Spec => []NothingLeaks
<1>1. Inv => NothingLeaks BY DEF Inv, ResourceInv
<1> QED BY <1>1, Invariance, PTL

\* The conversation implements ConversationHistory: a failed call leaves the
\* history as it was, an answered one adds its message.
THEOREM ImplementsHistory == Spec => KeepsHistory
<1>1. Spec => []Inv BY Invariance
<1>2. Init => History!Init BY InitHistory
<1>3. Inv /\ [Next]_vars => [History!Next]_(History!vars) BY NextHistory
<1> QED BY <1>1, <1>2, <1>3, PTL DEF Spec, KeepsHistory, History!Spec
============================================================================
