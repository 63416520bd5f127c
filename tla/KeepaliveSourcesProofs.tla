----------------------- MODULE KeepaliveSourcesProofs -----------------------
(***************************************************************************)
(* The safety of KeepaliveSources for any number of contexts, however they  *)
(* are nested, and of accounts and waiters.                                 *)
(***************************************************************************)
EXTENDS KeepaliveSources, TLAPS

\* A call for the account has ended with or without an error.
Ended(a) == \E c \in Contexts : account[c] = a /\ result[c] \in {"ok", "error"}

\* Somebody has been given the error of the call that s started.
Told(s) == \E c \in Contexts, w \in Waiters : func[c] = s /\ wait[c][w] = "error"

\* Contexts are made of those that handlers have, and have their functions.
\* Nobody waits before the interceptor has passed the context on.
ChainInv ==
    \A c \in Contexts :
        /\ pc[c] \in {"unused", "rejected"} =>
              outer[c] = NoContext /\ account[c] = NoAccount /\ func[c] = NoContext
        /\ pc[c] \in {"entering", "waking"} => outer[c] # NoContext
        /\ pc[c] = "waking" => Screened(c) /\ func[c] = NoContext
        /\ pc[c] # "handling" => \A w \in Waiters : wait[c][w] = "idle"
        /\ outer[c] # NoContext =>
              /\ pc[outer[c]] = "handling"
              /\ func[outer[c]] # NoContext => func[c] = func[outer[c]]

\* Who has a function has that of a waker that was started.
WakerInv ==
    \A c \in Contexts :
        /\ waker[c] # "none" <=> func[c] = c
        /\ waker[c] # "none" => Screened(c)
        /\ func[c] # NoContext => waker[func[c]] # "none"

\* How far the waker is tells what is known of its call and its channel.
ResultInv ==
    \A c \in Contexts :
        /\ waker[c] \in {"none", "calling"} <=> result[c] = "none"
        /\ waker[c] \in {"stamping", "sending"} => result[c] # "panic"
        /\ ready[c] = {} \/ (ready[c] = {result[c]} /\ waker[c] \in {"closing", "done"})
        /\ closed[c] <=> waker[c] = "done"

\* An error that left the channel was given to one waiter.
ReportInv ==
    /\ \A s \in Contexts :
          /\ (waker[s] \in {"closing", "done"} /\ result[s] = "error" /\ ready[s] = {})
                => Told(s)
          /\ Told(s) =>
                waker[s] \in {"closing", "done"} /\ result[s] = "error" /\ ready[s] = {}
    /\ \A c \in Contexts, w \in Waiters :
          /\ wait[c][w] \in {"waiting", "nil", "error"} => func[c] # NoContext
          /\ wait[c][w] = "nil" =>
                /\ waker[func[c]] \in {"closing", "done"}
                /\ result[func[c]] = "error" => Told(func[c])
    /\ \A c, d \in Contexts, w, v \in Waiters :
          SameWaker(c, d) /\ wait[c][w] = "error" /\ wait[d][v] = "error"
              => c = d /\ w = v

\* A time in the cache, and a context that was let through without a function,
\* stand for a call that ended.
CoverInv ==
    /\ \A a \in Accounts : lastCalled[a] # "never" => Ended(a)
    /\ \A c \in Contexts :
          Screened(c) =>
              /\ (pc[c] = "handling" /\ func[c] = NoContext) => Ended(account[c])
              /\ \A w \in Waiters : wait[c][w] = "unset" => Ended(account[c])

Inv == TypeOK /\ ChainInv /\ WakerInv /\ ResultInv /\ ReportInv /\ CoverInv

-----------------------------------------------------------------------------
LEMMA InitInv == Init => Inv
<1> SUFFICES ASSUME Init PROVE Inv
    OBVIOUS
<1> USE ContextsAssumption DEF Init
<1>1. TypeOK BY DEF TypeOK, Names, Configs
<1>2. ChainInv BY DEF ChainInv
<1>3. WakerInv BY DEF WakerInv
<1>4. ResultInv BY DEF ResultInv
<1>5. ReportInv BY DEF ReportInv, Told, SameWaker
<1>6. CoverInv BY DEF CoverInv, Screened
<1> QED BY <1>1, <1>2, <1>3, <1>4, <1>5, <1>6 DEF Inv

(* The interceptor makes and changes contexts nobody waits with yet: what the *)
(* wakers' channels held and whoever was told remain.                         *)

\* What such a step has to keep for the wakers' part of the invariant.
ContextsKept ==
    /\ UNCHANGED <<config, lastCalled, result, closed, ready, wait>>
    /\ \A c \in Contexts : pc[c] = "handling" => pc'[c] = "handling" /\ func'[c] = func[c]
    /\ \A c \in Contexts :
          waker'[c] = waker[c] \/ (waker[c] = "none" /\ waker'[c] = "calling")
    /\ \A c \in Contexts : waker[c] # "none" => account'[c] = account[c]

LEMMA ContextsKeep ==
  ASSUME Inv, ContextsKept, TypeOK'
  PROVE  /\ ResultInv' /\ ReportInv'
         /\ \A a : Ended(a) => Ended(a)'
<1> USE DEF Inv, ContextsKept
<1>1. ResultInv'
  BY DEF TypeOK, ResultInv
<1>2. \A c \in Contexts, w \in Waiters :
         wait[c][w] # "idle" => func'[c] = func[c]
  BY DEF ChainInv
<1>3. \A s : Told(s)' <=> Told(s)
  BY <1>2 DEF Told
<1>4. \A c, d \in Contexts, w, v \in Waiters :
         wait[c][w] = "error" /\ wait[d][v] = "error" => (SameWaker(c, d)' <=> SameWaker(c, d))
  BY <1>2 DEF SameWaker
<1>5. \A s \in Contexts :
         waker[s] \in {"closing", "done"} <=> waker'[s] \in {"closing", "done"}
  OBVIOUS
<1>6. \A s \in Contexts :
          /\ (waker'[s] \in {"closing", "done"} /\ result'[s] = "error" /\ ready'[s] = {})
                => Told(s)'
          /\ Told(s)' =>
                waker'[s] \in {"closing", "done"} /\ result'[s] = "error" /\ ready'[s] = {}
  BY <1>3, <1>5 DEF ReportInv
<1>7. ASSUME NEW c \in Contexts, NEW w \in Waiters
      PROVE  /\ wait'[c][w] \in {"waiting", "nil", "error"} => func'[c] # NoContext
             /\ wait'[c][w] = "nil" =>
                   /\ waker'[func'[c]] \in {"closing", "done"}
                   /\ result'[func'[c]] = "error" => Told(func[c])'
  <2>1. CASE wait[c][w] = "idle" BY <2>1
  <2>2. CASE wait[c][w] # "idle"
    BY <1>2, <1>3, <1>5, <2>2 DEF ReportInv, TypeOK
  <2> QED BY <2>1, <2>2
<1>8. ASSUME NEW c \in Contexts, NEW d \in Contexts, NEW w \in Waiters, NEW v \in Waiters,
             SameWaker(c, d)', wait'[c][w] = "error", wait'[d][v] = "error"
      PROVE  c = d /\ w = v
  BY <1>4, <1>8 DEF ReportInv
<1>9. ReportInv'
  <2>1. \A c \in Contexts, w \in Waiters :
            wait'[c][w] = "nil" => func'[c] = func[c]
    BY <1>2
  <2> QED BY <1>6, <1>7, <1>8, <2>1, <1>3 DEF ReportInv
<1>10. \A a : Ended(a) => Ended(a)'
  BY DEF Ended, ResultInv
<1> QED BY <1>1, <1>9, <1>10

LEMMA RejectInv ==
  ASSUME Inv, NEW c \in Contexts, Reject(c)
  PROVE  Inv'
<1> USE DEF Inv, Reject, wakerVars
<1>1. TypeOK' BY DEF TypeOK
<1>2. ContextsKept BY <1>1 DEF ContextsKept, TypeOK
<1>3. ResultInv' /\ ReportInv' /\ \A a : Ended(a) => Ended(a)' BY <1>1, <1>2, ContextsKeep
<1>4. ChainInv' BY DEF TypeOK, ChainInv, Screened
<1>5. WakerInv' BY DEF WakerInv, Screened
<1>6. CoverInv' BY <1>3 DEF TypeOK, CoverInv, Screened, ChainInv
<1> QED BY <1>1, <1>3, <1>4, <1>5, <1>6

LEMMA AdmitInv ==
  ASSUME Inv, NEW c \in Contexts, Admit(c)
  PROVE  Inv'
<1> USE ContextsAssumption DEF Inv, Admit, AccountOf, wakerVars
<1>1. PICK a \in Names : account' = [account EXCEPT ![c] = a]
  BY AccountsAssumption DEF TypeOK, Configs, Names
<1>2. TypeOK' BY <1>1 DEF TypeOK
<1>3. func[c] = NoContext /\ outer[c] = NoContext /\ waker[c] = "none"
  BY DEF ChainInv, WakerInv
<1>4. ContextsKept BY <1>1, <1>3 DEF ContextsKept, TypeOK
<1>5. ResultInv' /\ ReportInv' /\ \A b : Ended(b) => Ended(b)' BY <1>2, <1>4, ContextsKeep
<1>6. \A d \in Contexts : d # c => account'[d] = account[d] BY <1>1 DEF TypeOK
<1>7. ChainInv' BY <1>3, <1>6 DEF TypeOK, ChainInv, Screened
<1>8. WakerInv' BY <1>3, <1>6 DEF WakerInv, Screened
<1>9. CoverInv' BY <1>3, <1>5, <1>6 DEF TypeOK, CoverInv, Screened
<1> QED BY <1>2, <1>5, <1>7, <1>8, <1>9

LEMMA PassOnInv ==
  ASSUME Inv, NEW c \in Contexts, NEW d \in Contexts, PassOn(c, d)
  PROVE  Inv'
<1> USE ContextsAssumption DEF Inv, PassOn, wakerVars
<1>1. TypeOK' BY DEF TypeOK
<1>2. func[d] = NoContext /\ outer[d] = NoContext /\ waker[d] = "none" /\ c # d
  BY DEF ChainInv, WakerInv
<1>3. ContextsKept BY <1>2 DEF ContextsKept, TypeOK
<1>4. ResultInv' /\ ReportInv' /\ \A a : Ended(a) => Ended(a)' BY <1>1, <1>3, ContextsKeep
<1>5. /\ pc'[d] = "entering" /\ outer'[d] = c /\ account'[d] = account[c] /\ func'[d] = func[c]
      /\ \A e \in Contexts \ {d} : /\ pc'[e] = pc[e] /\ outer'[e] = outer[e]
                                   /\ account'[e] = account[e] /\ func'[e] = func[e]
      /\ \A e \in Contexts : outer[e] # d
  BY DEF TypeOK, ChainInv
<1> HIDE DEF PassOn
<1>6. UNCHANGED <<config, wait, waker, lastCalled>> BY DEF PassOn
<1>7. pc[c] = "handling" /\ pc[d] = "unused" BY DEF PassOn
<1>8. ChainInv'
  <2> SUFFICES ASSUME NEW e \in Contexts
               PROVE  (/\ pc[e] \in {"unused", "rejected"} =>
                             outer[e] = NoContext /\ account[e] = NoAccount /\ func[e] = NoContext
                       /\ pc[e] \in {"entering", "waking"} => outer[e] # NoContext
                       /\ pc[e] = "waking" => Screened(e) /\ func[e] = NoContext
                       /\ pc[e] # "handling" => \A w \in Waiters : wait[e][w] = "idle"
                       /\ outer[e] # NoContext =>
                             /\ pc[outer[e]] = "handling"
                             /\ func[outer[e]] # NoContext => func[e] = func[outer[e]])'
    BY DEF ChainInv
  <2>1. CASE e = d BY <1>2, <1>5, <1>6, <1>7, <2>1 DEF ChainInv
  <2>2. CASE e # d BY <1>2, <1>5, <1>6, <1>7, <2>2 DEF ChainInv, Screened, TypeOK
  <2> QED BY <2>1, <2>2
<1>9. WakerInv'
  BY <1>2, <1>5, <1>6, <1>7 DEF WakerInv, Screened, TypeOK
<1>10. CoverInv' BY <1>2, <1>4, <1>5, <1>6, <1>7 DEF CoverInv, Screened, ChainInv
<1> QED BY <1>1, <1>4, <1>8, <1>9, <1>10

LEMMA CheckLastCalledInv ==
  ASSUME Inv, NEW d \in Contexts, CheckLastCalled(d)
  PROVE  Inv'
<1> USE DEF Inv, CheckLastCalled, wakerVars
<1>1. TypeOK' BY DEF TypeOK
<1>2. ContextsKept BY <1>1 DEF ContextsKept, TypeOK
<1>3. ResultInv' /\ ReportInv' /\ \A a : Ended(a) => Ended(a)' BY <1>1, <1>2, ContextsKeep
<1>4. ChainInv' BY DEF TypeOK, ChainInv, Screened, Wakes, ShouldCall
<1>5. WakerInv' BY DEF WakerInv, Screened
<1>6. CoverInv'
  <2>1. ASSUME Screened(d), pc'[d] = "handling", func[d] = NoContext
        PROVE  Ended(account[d])
    <3>1. account[d] \in Accounts BY <2>1 DEF TypeOK, Names, Screened
    <3>2. lastCalled[account[d]] = "recent"
      BY <2>1, <3>1 DEF Wakes, ShouldCall, Screened, TypeOK
    <3> QED BY <3>1, <3>2 DEF CoverInv
  <2> QED BY <1>3, <2>1 DEF TypeOK, CoverInv, Screened
<1> QED BY <1>1, <1>3, <1>4, <1>5, <1>6

LEMMA SpawnWakerInv ==
  ASSUME Inv, NEW d \in Contexts, SpawnWaker(d)
  PROVE  Inv'
<1> USE ContextsAssumption DEF Inv, SpawnWaker
<1>1. TypeOK' BY DEF TypeOK
<1>2. func[d] = NoContext /\ waker[d] = "none" /\ Screened(d)
  BY DEF ChainInv, WakerInv
<1>3. ContextsKept BY <1>2 DEF ContextsKept, TypeOK
<1>4. ResultInv' /\ ReportInv' /\ \A a : Ended(a) => Ended(a)' BY <1>1, <1>3, ContextsKeep
<1>5. ChainInv' BY <1>2 DEF TypeOK, ChainInv, Screened
<1>6. WakerInv' BY <1>2 DEF TypeOK, WakerInv, Screened
<1>7. CoverInv' BY <1>4 DEF TypeOK, CoverInv, Screened
<1> QED BY <1>1, <1>4, <1>5, <1>6, <1>7

(* A waker leaves the contexts, and what was told, as they are.              *)
LEMMA WakerStepKeeps ==
  ASSUME Inv, UNCHANGED <<config, contextVars, wait>>, NEW c \in Contexts, waker[c] # "none",
         waker'[c] # "none", \A d \in Contexts \ {c} : waker'[d] = waker[d]
  PROVE  ChainInv' /\ WakerInv' /\ \A s : Told(s)' <=> Told(s)
<1> USE DEF Inv, contextVars
<1>1. ChainInv' BY DEF ChainInv, Screened
<1>2. WakerInv' BY DEF WakerInv, Screened, TypeOK
<1>3. \A s : Told(s)' <=> Told(s) BY DEF Told
<1> QED BY <1>1, <1>2, <1>3

\* The same of the calls that ended, as long as the results stay.
LEMMA SameResultsKeepCover ==
  ASSUME Inv, UNCHANGED <<config, contextVars, lastCalled, result>>,
         \A c \in Contexts, w \in Waiters : wait'[c][w] = "unset" => wait[c][w] = "unset"
  PROVE  CoverInv'
<1>1. \A a : Ended(a) => Ended(a)' BY DEF Ended, contextVars
<1> QED BY <1>1 DEF Inv, CoverInv, Screened, contextVars

LEMMA KeepaliveReturnsInv ==
  ASSUME Inv, NEW c \in Contexts, KeepaliveReturns(c)
  PROVE  Inv'
<1> USE DEF Inv, KeepaliveReturns
<1>1. PICK res \in {"ok", "error"} : result' = [result EXCEPT ![c] = res]
  OBVIOUS
<1>2. TypeOK' BY <1>1 DEF TypeOK, contextVars
<1>3. /\ waker'[c] = "stamping" /\ result'[c] = res
      /\ \A d \in Contexts \ {c} : waker'[d] = waker[d] /\ result'[d] = result[d]
  BY <1>1 DEF TypeOK
<1>4. ChainInv' /\ WakerInv' /\ \A s : Told(s)' <=> Told(s) BY <1>3, WakerStepKeeps
<1>5. ResultInv' BY <1>3 DEF ResultInv
<1>6. ~Told(c) BY DEF ReportInv
<1>7. ReportInv' BY <1>3, <1>4, <1>6 DEF ReportInv, SameWaker, contextVars, TypeOK
<1>8. \A a : Ended(a) => Ended(a)' BY <1>1, <1>3 DEF Ended, contextVars
<1>9. CoverInv' BY <1>8 DEF CoverInv, Screened, contextVars
<1> QED BY <1>2, <1>4, <1>5, <1>7, <1>9

LEMMA KeepalivePanicsInv ==
  ASSUME Inv, NEW c \in Contexts, KeepalivePanics(c)
  PROVE  Inv'
<1> USE DEF Inv, KeepalivePanics
<1>1. TypeOK' BY DEF TypeOK, contextVars
<1>2. /\ waker'[c] = "closing" /\ result'[c] = "panic" /\ result[c] = "none"
      /\ \A d \in Contexts \ {c} : waker'[d] = waker[d] /\ result'[d] = result[d]
  BY DEF TypeOK, ResultInv
<1>3. ChainInv' /\ WakerInv' /\ \A s : Told(s)' <=> Told(s) BY <1>2, WakerStepKeeps
<1>4. ResultInv' BY <1>2 DEF ResultInv
<1>5. ~Told(c) BY DEF ReportInv
<1>6. ReportInv' BY <1>2, <1>3, <1>5 DEF ReportInv, SameWaker, contextVars, TypeOK
<1>7. \A a : Ended(a) => Ended(a)' BY <1>2 DEF Ended, contextVars
<1>8. CoverInv' BY <1>7 DEF CoverInv, Screened, contextVars
<1> QED BY <1>1, <1>3, <1>4, <1>6, <1>8

LEMMA UpdateLastCalledInv ==
  ASSUME Inv, NEW c \in Contexts, UpdateLastCalled(c)
  PROVE  Inv'
<1> USE DEF Inv, UpdateLastCalled
<1>1. TypeOK' BY DEF TypeOK, contextVars
<1>2. waker'[c] = "sending" /\ \A d \in Contexts \ {c} : waker'[d] = waker[d]
  BY DEF TypeOK
<1>3. ChainInv' /\ WakerInv' /\ \A s : Told(s)' <=> Told(s) BY <1>2, WakerStepKeeps
<1>4. ResultInv' BY <1>2 DEF ResultInv
<1>5. ~Told(c) BY DEF ReportInv
<1>6. ReportInv' BY <1>2, <1>3, <1>5 DEF ReportInv, SameWaker, contextVars, TypeOK
<1>7. CoverInv'
  <2>1. result[c] \in {"ok", "error"} BY DEF ResultInv, TypeOK
  <2>2. Ended(account[c]) BY <2>1 DEF Ended
  <2>3. \A a : Ended(a) => Ended(a)' BY DEF Ended, contextVars
  <2>4. \A a \in Accounts : a # account[c] => lastCalled'[a] = lastCalled[a] BY DEF TypeOK
  <2> QED BY <2>2, <2>3, <2>4 DEF CoverInv, Screened, contextVars
<1> QED BY <1>1, <1>3, <1>4, <1>6, <1>7

LEMMA SendResultInv ==
  ASSUME Inv, NEW c \in Contexts, SendResult(c)
  PROVE  Inv'
<1> USE DEF Inv, SendResult
<1>1. result[c] \in {"ok", "error"} BY DEF ResultInv, TypeOK
<1>2. TypeOK' BY <1>1 DEF TypeOK, contextVars
<1>3. /\ waker'[c] = "closing" /\ ready'[c] = {result[c]}
      /\ \A d \in Contexts \ {c} : waker'[d] = waker[d] /\ ready'[d] = ready[d]
  BY DEF TypeOK
<1>4. ChainInv' /\ WakerInv' /\ \A s : Told(s)' <=> Told(s) BY <1>3, WakerStepKeeps
<1>5. ResultInv' BY <1>1, <1>3 DEF ResultInv
<1>6. ~Told(c) BY DEF ReportInv
<1>7. ReportInv'
  <2>1. \A d \in Contexts : waker[d] \in {"closing", "done"} => waker'[d] = waker[d]
    BY <1>3
  <2>2. UNCHANGED <<func, result, wait>> BY DEF contextVars
  <2>3. \A d \in Contexts : func[d] # NoContext => func[d] \in Contexts BY DEF TypeOK
  <2>4. ReportInv OBVIOUS
  <2> HIDE DEF SendResult, Inv
  <2> QED BY <1>3, <1>4, <1>6, <2>1, <2>2, <2>3, <2>4 DEF ReportInv, SameWaker
<1>8. CoverInv' BY SameResultsKeepCover
<1> QED BY <1>2, <1>4, <1>5, <1>7, <1>8

LEMMA CloseReadyInv ==
  ASSUME Inv, NEW c \in Contexts, CloseReady(c)
  PROVE  Inv'
<1> USE DEF Inv, CloseReady
<1>1. TypeOK' BY DEF TypeOK, contextVars
<1>2. /\ waker'[c] = "done" /\ closed'[c]
      /\ \A d \in Contexts \ {c} : waker'[d] = waker[d] /\ closed'[d] = closed[d]
  BY DEF TypeOK
<1>3. ChainInv' /\ WakerInv' /\ \A s : Told(s)' <=> Told(s) BY <1>2, WakerStepKeeps
<1>4. ResultInv' BY <1>2 DEF ResultInv
<1>5. ReportInv'
  <2>1. \A d \in Contexts : waker'[d] \in {"closing", "done"} <=> waker[d] \in {"closing", "done"}
    BY <1>2
  <2>2. UNCHANGED <<func, result, ready, wait>> BY DEF contextVars
  <2>3. \A d \in Contexts : func[d] # NoContext => func[d] \in Contexts BY DEF TypeOK
  <2> HIDE DEF CloseReady
  <2> QED BY <1>3, <2>1, <2>2, <2>3 DEF ReportInv, SameWaker
<1>6. CoverInv' BY SameResultsKeepCover
<1> QED BY <1>1, <1>3, <1>4, <1>5, <1>6

-----------------------------------------------------------------------------
(* WaitForSources                                                           *)

LEMMA CallWaitInv ==
  ASSUME Inv, NEW c \in Contexts, NEW w \in Waiters, CallWait(c, w)
  PROVE  Inv'
<1> USE DEF Inv, CallWait, contextVars, wakerVars
<1>1. TypeOK' BY DEF TypeOK
<1>2. /\ wait[c][w] = "idle" /\ pc[c] = "handling"
      /\ wait'[c][w] = IF func[c] # NoContext THEN "waiting" ELSE "unset"
      /\ \A d \in Contexts, v \in Waiters : d # c \/ v # w => wait'[d][v] = wait[d][v]
  BY DEF TypeOK
<1> HIDE DEF CallWait
<1>3. UNCHANGED <<config, lastCalled, pc, outer, account, func, waker, result, closed, ready>>
  BY DEF CallWait
<1>4. ChainInv' BY <1>2, <1>3 DEF ChainInv, Screened
<1>5. WakerInv' /\ ResultInv' BY <1>3 DEF WakerInv, ResultInv, Screened
<1>6. \A d \in Contexts, v \in Waiters : wait'[d][v] = "error" <=> wait[d][v] = "error"
  BY <1>2
<1>7. \A s : Told(s)' <=> Told(s) BY <1>3, <1>6 DEF Told
<1>8. ReportInv' BY <1>2, <1>3, <1>6, <1>7 DEF ReportInv, SameWaker
<1>9. \A a : Ended(a)' <=> Ended(a) BY <1>3 DEF Ended
<1>10. CoverInv' BY <1>2, <1>3, <1>9 DEF CoverInv, Screened
<1> QED BY <1>1, <1>4, <1>5, <1>8, <1>10

LEMMA ReceiveResultInv ==
  ASSUME Inv, NEW c \in Contexts, NEW w \in Waiters, ReceiveResult(c, w)
  PROVE  Inv'
<1> USE DEF Inv, contextVars, wakerVars
<1> DEFINE s == func[c]
<1>1. s \in Contexts
  BY DEF ReceiveResult, ReportInv, TypeOK
<1>2. PICK res \in ready[s] : wait' = [wait EXCEPT ![c][w] = IF res = "ok" THEN "nil" ELSE "error"]
  BY DEF ReceiveResult
<1>3. ready[s] = {result[s]} /\ res = result[s] /\ res \in {"ok", "error"}
  <2>1. ready[s] = {result[s]} BY <1>1, <1>2 DEF ResultInv
  <2>2. ready[s] \subseteq {"ok", "error"} BY <1>1 DEF TypeOK
  <2> QED BY <1>2, <2>1, <2>2
<1>4. waker[s] \in {"closing", "done"} /\ ~Told(s)
  BY <1>1, <1>2, <1>3 DEF ResultInv, ReportInv
<1>5. /\ wait[c][w] = "waiting"
      /\ wait'[c][w] = IF res = "ok" THEN "nil" ELSE "error"
      /\ \A d \in Contexts, v \in Waiters : d # c \/ v # w => wait'[d][v] = wait[d][v]
      /\ ready'[s] = {} /\ \A d \in Contexts \ {s} : ready'[d] = ready[d]
  BY <1>1, <1>2 DEF ReceiveResult, TypeOK
<1>6. TypeOK' BY <1>2 DEF ReceiveResult, TypeOK
<1>7. UNCHANGED <<config, lastCalled, pc, outer, account, func, waker, result, closed>>
  BY DEF ReceiveResult
<1>8. ChainInv' BY <1>5, <1>7 DEF ChainInv, Screened
<1>9. WakerInv' BY <1>7 DEF WakerInv, Screened
<1>10. ResultInv' BY <1>5, <1>7 DEF ResultInv
<1>11. \A d \in Contexts : d # s => (Told(d)' <=> Told(d))
  BY <1>5, <1>7 DEF Told
<1>12. res = "error" <=> Told(s)'
  BY <1>3, <1>4, <1>5, <1>7 DEF Told
<1>13. ReportInv'
  <2>1. ASSUME NEW d \in Contexts
        PROVE  ( /\ (waker[d] \in {"closing", "done"} /\ result[d] = "error" /\ ready[d] = {})
                     => Told(d)
                 /\ Told(d) =>
                     waker[d] \in {"closing", "done"} /\ result[d] = "error" /\ ready[d] = {})'
    BY <1>3, <1>4, <1>5, <1>7, <1>11, <1>12 DEF ReportInv
  <2>2. ASSUME NEW d \in Contexts, NEW v \in Waiters
        PROVE  ( /\ wait[d][v] \in {"waiting", "nil", "error"} => func[d] # NoContext
                 /\ wait[d][v] = "nil" =>
                      /\ waker[func[d]] \in {"closing", "done"}
                      /\ result[func[d]] = "error" => Told(func[d]))'
    <3>1. CASE d = c /\ v = w
      BY <1>3, <1>4, <1>5, <1>7, <3>1, ContextsAssumption, <1>1
    <3>2. CASE d # c \/ v # w
      <4>1. wait'[d][v] = wait[d][v] BY <1>5, <3>2
      <4>2. func[d] # NoContext => func[d] \in Contexts BY DEF TypeOK
      <4>3. wait[d][v] = "nil" => /\ waker[func[d]] \in {"closing", "done"}
                                  /\ result[func[d]] = "error" => Told(func[d])
        BY DEF ReportInv
      <4>4. func[d] = s => (result[s] = "error" => Told(s)')
        BY <1>3, <1>12
      <4> QED BY <1>7, <1>11, <4>1, <4>2, <4>3, <4>4 DEF ReportInv
    <3> QED BY <3>1, <3>2
  <2>3. ASSUME NEW d \in Contexts, NEW e \in Contexts, NEW v \in Waiters, NEW x \in Waiters,
               SameWaker(d, e)', wait'[d][v] = "error", wait'[e][x] = "error"
        PROVE  d = e /\ v = x
    <3>1. SameWaker(d, e) BY <1>7, <2>3 DEF SameWaker
    <3>2. \A f \in Contexts, y \in Waiters : func[f] = s => wait[f][y] # "error"
      BY <1>4 DEF Told
    <3>3. CASE (d = c /\ v = w) \/ (e = c /\ x = w)
      BY <1>5, <2>3, <3>1, <3>2, <3>3 DEF SameWaker
    <3>4. CASE ~((d = c /\ v = w) \/ (e = c /\ x = w))
      <4>1. wait[d][v] = "error" /\ wait[e][x] = "error" BY <1>5, <2>3, <3>4
      <4> QED BY <3>1, <4>1 DEF ReportInv
    <3> QED BY <3>3, <3>4
  <2> QED BY <2>1, <2>2, <2>3 DEF ReportInv
<1>14. CoverInv' BY <1>5, <1>7, SameResultsKeepCover
<1> QED BY <1>6, <1>8, <1>9, <1>10, <1>13, <1>14

LEMMA ReceiveClosedInv ==
  ASSUME Inv, NEW c \in Contexts, NEW w \in Waiters, ReceiveClosed(c, w)
  PROVE  Inv'
<1> USE DEF Inv, contextVars, wakerVars
<1>1. TypeOK' BY DEF ReceiveClosed, TypeOK
<1>2. /\ wait[c][w] = "waiting" /\ wait'[c][w] = "nil"
      /\ \A d \in Contexts, v \in Waiters : d # c \/ v # w => wait'[d][v] = wait[d][v]
  BY DEF ReceiveClosed, TypeOK
<1>3. UNCHANGED <<config, lastCalled, pc, outer, account, func, waker, result, closed, ready>>
  BY DEF ReceiveClosed
<1>4. func[c] \in Contexts /\ waker[func[c]] = "done" /\ ready[func[c]] = {}
  BY <1>2 DEF ReceiveClosed, ReportInv, TypeOK, ResultInv
<1>5. ChainInv' BY <1>2, <1>3 DEF ChainInv, Screened
<1>6. WakerInv' /\ ResultInv' BY <1>3 DEF WakerInv, ResultInv, Screened
<1>7. \A d \in Contexts, v \in Waiters : wait'[d][v] = "error" <=> wait[d][v] = "error"
  BY <1>2
<1>8. \A s : Told(s)' <=> Told(s) BY <1>3, <1>7 DEF Told
<1>9. ReportInv' BY <1>2, <1>3, <1>4, <1>7, <1>8 DEF ReportInv, SameWaker
<1>10. CoverInv' BY <1>2, <1>3, SameResultsKeepCover
<1> QED BY <1>1, <1>5, <1>6, <1>9, <1>10

-----------------------------------------------------------------------------
LEMMA TenMinutesPassInv ==
  ASSUME Inv, NEW a \in Accounts, TenMinutesPass(a)
  PROVE  Inv'
<1> USE DEF Inv, TenMinutesPass, contextVars, wakerVars
<1>1. TypeOK' BY DEF TypeOK
<1>2. ChainInv' /\ WakerInv' /\ ResultInv' BY DEF ChainInv, WakerInv, ResultInv, Screened
<1>3. ReportInv' BY DEF ReportInv, Told, SameWaker
<1>4. \A b : Ended(b)' <=> Ended(b) BY DEF Ended
<1>5. \A b \in Accounts : lastCalled'[b] # "never" => lastCalled[b] # "never" BY DEF TypeOK
<1>6. CoverInv' BY <1>4, <1>5 DEF CoverInv, Screened
<1> QED BY <1>1, <1>2, <1>3, <1>6

LEMMA StutterInv == Inv /\ UNCHANGED vars => Inv'
<1> SUFFICES ASSUME Inv, UNCHANGED vars PROVE Inv'
    OBVIOUS
<1> USE DEF Inv, vars, contextVars, wakerVars
<1>1. TypeOK' BY DEF TypeOK
<1>2. ChainInv' /\ WakerInv' /\ ResultInv' BY DEF ChainInv, WakerInv, ResultInv, Screened
<1>3. ReportInv' BY DEF ReportInv, Told, SameWaker
<1>4. CoverInv' BY SameResultsKeepCover
<1> QED BY <1>1, <1>2, <1>3, <1>4

LEMMA NextInv == Inv /\ [Next]_vars => Inv'
<1> SUFFICES ASSUME Inv, [Next]_vars PROVE Inv'
    OBVIOUS
<1>1. ASSUME NEW c \in Contexts, Request(c) PROVE Inv'
  BY <1>1, RejectInv, AdmitInv, PassOnInv, CheckLastCalledInv, SpawnWakerInv DEF Request
<1>2. ASSUME NEW c \in Contexts, Waker(c) PROVE Inv'
  BY <1>2, KeepaliveReturnsInv, KeepalivePanicsInv, UpdateLastCalledInv, SendResultInv,
     CloseReadyInv DEF Waker
<1>3. ASSUME NEW c \in Contexts, NEW w \in Waiters, CallWait(c, w) \/ WaitForSources(c, w)
      PROVE  Inv'
  BY <1>3, CallWaitInv, ReceiveResultInv, ReceiveClosedInv DEF WaitForSources
<1>4. ASSUME NEW a \in Accounts, TenMinutesPass(a) PROVE Inv'
  BY <1>4, TenMinutesPassInv
<1>5. CASE AllDone BY <1>5, StutterInv DEF AllDone
<1>6. CASE UNCHANGED vars BY <1>6, StutterInv
<1> QED BY <1>1, <1>2, <1>3, <1>4, <1>5, <1>6 DEF Next

LEMMA Invariance == Spec => []Inv
<1>1. Init => Inv BY InitInv
<1>2. Inv /\ [Next]_vars => Inv' BY NextInv
<1> QED BY <1>1, <1>2, PTL DEF Spec

-----------------------------------------------------------------------------
\* Every variable of the middleware and the interceptor keeps its type.
THEOREM TypeCorrect == Spec => []TypeOK
BY Invariance, PTL DEF Inv

\* A context with a function gives it to all the contexts made of it, and none
\* of those starts a waker of its own (keepalive_interceptor.go:139-143).
THEOREM NestedContextsShareWaker == Spec => []NestedShareWaker
<1>1. Inv => NestedShareWaker BY DEF Inv, ChainInv, WakerInv, NestedShareWaker
<1> QED BY <1>1, Invariance, PTL

\* An error of the call is returned once, and before WaitForSources returns nil
\* to another that waits for the call (keepalive_interceptor.go:160, 167, 179).
THEOREM ErrorsComeFirst == Spec => []ErrorComesFirst
<1>1. ASSUME Inv, NEW c \in Contexts, NEW w \in Waiters
      PROVE  /\ wait[c][w] = "error" => result[func[c]] = "error"
             /\ wait[c][w] = "nil" =>
                   /\ result[func[c]] # "none"
                   /\ result[func[c]] = "error" =>
                         \E d \in Contexts, v \in Waiters :
                             SameWaker(c, d) /\ wait[d][v] = "error"
  <2>1. wait[c][w] \in {"nil", "error"} => func[c] \in Contexts
    BY <1>1 DEF Inv, ReportInv, TypeOK
  <2>2. wait[c][w] = "error" => Told(func[c])
    BY DEF Told
  <2> QED BY <1>1, <2>1, <2>2, ContextsAssumption
          DEF Inv, ReportInv, ResultInv, Told, SameWaker
<1>2. Inv => ErrorComesFirst
  BY <1>1 DEF Inv, ReportInv, SameWaker, ErrorComesFirst
<1> QED BY <1>2, Invariance, PTL

\* Behind the interceptor WaitForSources returns at once only when a call for
\* the account ended before (keepalive_interceptor.go:70-89).
THEOREM SkipsAreCovered == Spec => []SkipsOnlyAfterCall
<1>1. Inv => SkipsOnlyAfterCall
  BY DEF Inv, CoverInv, Ended, SkipsOnlyAfterCall
<1> QED BY <1>1, Invariance, PTL

\* A waker can always hand its result over and closes its channel once; who
\* waits always has somebody or something to wait for
\* (keepalive_interceptor.go:155, 160, 165-179).
THEOREM NobodyIsLeftBehind == Spec => []NobodyIsLeft
<1>1. ASSUME Inv, NEW c \in Contexts, NEW w \in Waiters, wait[c][w] = "waiting"
      PROVE  /\ func[c] # NoContext
             /\ \/ waker[func[c]] \in {"calling", "stamping", "sending", "closing"}
                \/ ready[func[c]] # {}
                \/ closed[func[c]]
  <2>1. func[c] \in Contexts /\ waker[func[c]] # "none"
    BY <1>1 DEF Inv, ReportInv, TypeOK, WakerInv
  <2> QED BY <1>1, <2>1, ContextsAssumption DEF Inv, TypeOK, ResultInv
<1>2. ASSUME Inv, NEW c \in Contexts
      PROVE  /\ waker[c] = "sending" => ready[c] = {}
             /\ waker[c] \in {"sending", "closing"} => ~closed[c]
  BY <1>2 DEF Inv, ResultInv
<1>3. Inv => NobodyIsLeft
  <2> SUFFICES ASSUME Inv PROVE NobodyIsLeft
      OBVIOUS
  <2> QED BY <1>1, <1>2 DEF NobodyIsLeft
<1> QED BY <1>3, Invariance, PTL

-----------------------------------------------------------------------------
(* The refinement: what the contract calls a call, and what it calls told.   *)

Calls == [c \in Contexts |-> CallOf(c)]
Tellings == [c \in Contexts |-> [w \in Waiters |-> Heard(c, w)]]

LEMMA SameCalls == UNCHANGED <<waker, result>> => UNCHANGED Calls
BY DEF Calls, CallOf

LEMMA SameTellings == UNCHANGED wait => UNCHANGED Tellings
BY DEF Tellings, Heard

LEMMA CallFacts ==
  ASSUME Inv
  PROVE  /\ \A c \in Contexts :
               /\ Calls[c] = "none" <=> waker[c] = "none"
               /\ Calls[c] = "running" <=> waker[c] = "calling"
               /\ waker[c] \notin {"none", "calling"} => Calls[c] = result[c]
         /\ \A a : Contract!Covered(a) <=> Ended(a)
<1>1. \A c \in Contexts :
         /\ Calls[c] = "none" <=> waker[c] = "none"
         /\ Calls[c] = "running" <=> waker[c] = "calling"
         /\ waker[c] \notin {"none", "calling"} => Calls[c] = result[c]
  BY DEF Calls, CallOf, Inv, TypeOK, ResultInv
<1>2. \A c \in Contexts : Calls[c] \in {"ok", "error"} <=> result[c] \in {"ok", "error"}
  BY <1>1 DEF Inv, ResultInv
<1> QED BY <1>1, <1>2 DEF Calls, Contract!Covered, Ended

LEMMA TellingFacts ==
  ASSUME Inv
  PROVE  /\ \A s : Contract!ErrorTold(s) <=> Told(s)
         /\ \A c \in Contexts, w \in Waiters :
               Tellings[c][w] = "nothing" <=> wait[c][w] \in {"idle", "waiting"}
<1>1. \A c \in Contexts, w \in Waiters :
         /\ Tellings[c][w] = "nothing" <=> wait[c][w] \in {"idle", "waiting"}
         /\ Tellings[c][w] = "error" <=> wait[c][w] = "error"
  BY DEF Tellings, Heard, Inv, TypeOK
<1> QED BY <1>1 DEF Tellings, Contract!ErrorTold, Told

\* With a context that no handler has, nobody was told anything, and nobody has
\* made another of it.
LEMMA UnheardFacts ==
  ASSUME Inv, NEW c \in Contexts, pc[c] # "handling"
  PROVE  Contract!Unheard(c)
<1>1. \A w \in Waiters : Tellings[c][w] = "nothing"
  BY TellingFacts DEF Inv, ChainInv
<1>2. \A d \in Contexts : outer[d] # c
  BY ContextsAssumption DEF Inv, ChainInv
<1> QED BY <1>1, <1>2 DEF Contract!Unheard, Tellings

LEMMA FreshFacts ==
  ASSUME Inv, NEW c \in Contexts, pc[c] = "unused"
  PROVE  Contract!Fresh(c)
BY UnheardFacts DEF Contract!Fresh, Inv, ChainInv

\* The middleware gives a name, the interceptor makes contexts and starts
\* calls.
LEMMA RequestKeeps ==
  ASSUME Inv, NEW c \in Contexts, Request(c)
  PROVE  Contract!Next \/ UNCHANGED Contract!vars
<1> USE DEF wakerVars
<1>1. UNCHANGED <<config, wait>> /\ UNCHANGED Tellings
  BY SameTellings DEF Request, Reject, Admit, CheckLastCalled, SpawnWaker, PassOn
<1>2. CASE Reject(c) \/ CheckLastCalled(c)
  <2>1. UNCHANGED <<outer, account, func>> /\ UNCHANGED Calls
    BY <1>2, SameCalls DEF Reject, CheckLastCalled
  <2> QED BY <1>1, <2>1 DEF Contract!vars, Calls, Tellings
<1>3. CASE Admit(c)
  <2>1. UNCHANGED <<outer, func>> /\ UNCHANGED Calls
    BY <1>3, SameCalls DEF Admit
  <2>2. PICK a \in Names : account' = [account EXCEPT ![c] = a]
    BY <1>3, AccountsAssumption DEF Admit, AccountOf, Inv, TypeOK, Configs, Names
  <2>3. account[c] = NoAccount /\ account \in [Contexts -> Names]
    BY <1>3 DEF Admit, Inv, TypeOK, ChainInv
  <2>4. CASE a = NoAccount
    <3>1. UNCHANGED account BY <2>2, <2>3, <2>4
    <3> QED BY <1>1, <2>1, <3>1 DEF Contract!vars, Calls, Tellings
  <2>5. CASE a \in Accounts
    <3>1. Contract!Fresh(c)
      BY <1>3, FreshFacts DEF Admit
    <3>2. Contract!Name(c)
      BY <1>1, <2>1, <2>2, <2>5, <3>1 DEF Contract!Name, Calls, Tellings
    <3> QED BY <3>2 DEF Contract!Next
  <2> QED BY <2>4, <2>5 DEF Names
<1>4. CASE SpawnWaker(c)
  <2>1. /\ config.client /\ account[c] # NoAccount /\ outer[c] # NoContext
        /\ func[c] = NoContext /\ waker[c] = "none"
    BY <1>4, ContextsAssumption DEF SpawnWaker, Inv, ChainInv, WakerInv, Screened
  <2>2. Contract!Unheard(c)
    BY <1>4, UnheardFacts DEF SpawnWaker
  <2>3. Calls' = [Calls EXCEPT ![c] = "running"]
    BY <1>4 DEF SpawnWaker, Calls, CallOf, Inv, TypeOK
  <2>4. UNCHANGED <<outer, account>> /\ func' = [func EXCEPT ![c] = c]
    BY <1>4 DEF SpawnWaker
  <2>5. Contract!Wake(c)
    BY <1>1, <2>1, <2>2, <2>3, <2>4, CallFacts DEF Contract!Wake, Calls, Tellings
  <2> QED BY <2>5 DEF Contract!Next
<1>5. ASSUME NEW d \in Contexts, PassOn(c, d)
      PROVE  Contract!Next
  <2>1. Contract!Fresh(d)
    BY <1>5, FreshFacts DEF PassOn
  <2>2. UNCHANGED Calls
    BY <1>5, SameCalls DEF PassOn
  <2>3. Contract!Nest(c, d)
    BY <1>1, <1>5, <2>1, <2>2 DEF PassOn, Contract!Nest, Calls, Tellings
  <2> QED BY <2>3 DEF Contract!Next
<1> QED BY <1>2, <1>3, <1>4, <1>5 DEF Request

\* The call ends when KeepaliveSources returns or panics; what its waker does
\* then is its own affair.
LEMMA WakerKeeps ==
  ASSUME Inv, NEW c \in Contexts, Waker(c)
  PROVE  Contract!Next \/ UNCHANGED Contract!vars
<1> USE DEF contextVars
<1>1. UNCHANGED <<config, outer, account, func, wait>> /\ UNCHANGED Tellings
  BY SameTellings DEF Waker, KeepaliveReturns, KeepalivePanics, UpdateLastCalled,
                      SendResult, CloseReady
<1>2. CASE KeepaliveReturns(c) \/ KeepalivePanics(c)
  <2>1. PICK res \in {"ok", "error", "panic"} :
           result' = [result EXCEPT ![c] = res]
    BY <1>2 DEF KeepaliveReturns, KeepalivePanics
  <2>2. PICK at \in {"stamping", "closing"} : waker' = [waker EXCEPT ![c] = at]
    BY <1>2 DEF KeepaliveReturns, KeepalivePanics
  <2>3. Calls' = [Calls EXCEPT ![c] = res]
    BY <2>1, <2>2 DEF Calls, CallOf, Inv, TypeOK
  <2>4. waker[c] = "calling"
    BY <1>2 DEF KeepaliveReturns, KeepalivePanics
  <2>5. Contract!End(c)
    BY <1>1, <2>3, <2>4, CallFacts DEF Contract!End, Calls, Tellings
  <2> QED BY <2>5 DEF Contract!Next
<1>3. CASE UpdateLastCalled(c) \/ SendResult(c) \/ CloseReady(c)
  <2>1. UNCHANGED result
    BY <1>3 DEF UpdateLastCalled, SendResult, CloseReady
  <2>2. PICK at \in {"sending", "closing", "done"} :
           waker[c] \notin {"none", "calling"} /\ waker' = [waker EXCEPT ![c] = at]
    BY <1>3 DEF UpdateLastCalled, SendResult, CloseReady
  <2>3. UNCHANGED Calls
    BY <2>1, <2>2 DEF Calls, CallOf, Inv, TypeOK
  <2> QED BY <1>1, <2>3 DEF Contract!vars, Calls, Tellings
<1> QED BY <1>2, <1>3 DEF Waker

\* What WaitForSources returns is what the contract lets a waiter be told.
LEMMA WaitKeeps ==
  ASSUME Inv, NEW c \in Contexts, NEW w \in Waiters,
         CallWait(c, w) \/ WaitForSources(c, w)
  PROVE  Contract!Next \/ UNCHANGED Contract!vars
<1> USE DEF contextVars, wakerVars
<1>1. UNCHANGED <<config, outer, account, func, waker, result>> /\ UNCHANGED Calls
  BY SameCalls DEF CallWait, WaitForSources, ReceiveResult, ReceiveClosed
<1>2. ASSUME NEW v \in {"unset", "nil", "error"}, wait' = [wait EXCEPT ![c][w] = v],
             NEW what \in {"pass", "over", "error"},
             v = "unset" <=> what = "pass", v = "error" <=> what = "error"
      PROVE  Tellings' = [Tellings EXCEPT ![c][w] = what]
  <2>1. /\ wait'[c][w] = v
        /\ \A d \in Contexts, x \in Waiters : d # c \/ x # w => wait'[d][x] = wait[d][x]
    BY <1>2 DEF Inv, TypeOK
  <2>2. \A d \in Contexts, x \in Waiters : d # c \/ x # w => Heard(d, x)' = Heard(d, x)
    BY <2>1 DEF Heard
  <2>3. Heard(c, w)' = what
    <3>1. Heard(c, w)' = CASE v \in {"idle", "waiting"} -> "nothing"
                           [] v = "unset" -> "pass"
                           [] v = "error" -> "error"
                           [] OTHER -> "over"
      BY <2>1 DEF Heard
    <3> QED BY <1>2, <3>1
  <2> QED BY <2>2, <2>3 DEF Tellings
<1>3. wait[c][w] \in {"idle", "waiting"}
  BY DEF CallWait, WaitForSources, ReceiveResult, ReceiveClosed
<1>4. Tellings[c][w] = "nothing"
  BY <1>3, TellingFacts
<1>5. ASSUME NEW what \in {"pass", "error", "over"},
             Tellings' = [Tellings EXCEPT ![c][w] = what]
      PROVE  Contract!Tell(c, w, what)
  BY <1>1, <1>4, <1>5 DEF Contract!Tell, Calls, Tellings
<1>6. CASE CallWait(c, w) /\ func[c] # NoContext
  <2>1. wait' = [wait EXCEPT ![c][w] = "waiting"]
    BY <1>6 DEF CallWait
  <2>2. \A d \in Contexts, x \in Waiters :
           \/ wait'[d][x] = wait[d][x]
           \/ {wait'[d][x], wait[d][x]} \subseteq {"idle", "waiting"}
    BY <1>3, <2>1 DEF Inv, TypeOK
  <2>3. UNCHANGED Tellings
    BY <2>2 DEF Tellings, Heard
  <2> QED BY <1>1, <2>3 DEF Contract!vars, Calls, Tellings
<1>7. CASE CallWait(c, w) /\ func[c] = NoContext
  <2>1. wait' = [wait EXCEPT ![c][w] = "unset"]
    BY <1>7 DEF CallWait
  <2>2. Screened(c) => Ended(account[c])
    BY <1>7 DEF CallWait, Inv, CoverInv
  <2>3. Contract!LetPass(c, w)
    BY <1>2, <1>5, <1>7, <2>1, <2>2, CallFacts DEF Contract!LetPass, Screened
  <2> QED BY <2>3 DEF Contract!Next
<1>8. CASE WaitForSources(c, w)
  <2> DEFINE s == func[c]
  <2>1. s \in Contexts /\ s # NoContext
    BY <1>8, ContextsAssumption
       DEF WaitForSources, ReceiveResult, ReceiveClosed, Inv, ReportInv, TypeOK
  <2>2. CASE ReceiveResult(c, w)
    <3>1. /\ ready[s] = {result[s]} /\ waker[s] \in {"closing", "done"}
          /\ result[s] \in {"ok", "error"} /\ ~Told(s)
      BY <2>1, <2>2 DEF ReceiveResult, Inv, TypeOK, ResultInv, ReportInv
    <3>2. wait' = [wait EXCEPT ![c][w] = IF result[s] = "ok" THEN "nil" ELSE "error"]
      BY <2>2, <3>1 DEF ReceiveResult
    <3>3. Calls[s] = result[s]
      BY <2>1, <3>1, CallFacts
    <3>4. CASE result[s] = "ok"
      <4>1. Contract!Release(c, w)
        BY <1>2, <1>5, <2>1, <3>2, <3>3, <3>4 DEF Contract!Release, Calls
      <4> QED BY <4>1 DEF Contract!Next
    <3>5. CASE result[s] = "error"
      <4>1. Contract!Report(c, w)
        BY <1>2, <1>5, <2>1, <3>1, <3>2, <3>3, <3>5, TellingFacts DEF Contract!Report, Calls
      <4> QED BY <4>1 DEF Contract!Next
    <3> QED BY <3>1, <3>4, <3>5
  <2>3. CASE ReceiveClosed(c, w)
    <3>1. /\ waker[s] = "done" /\ ready[s] = {}
          /\ wait' = [wait EXCEPT ![c][w] = "nil"]
      BY <2>1, <2>3 DEF ReceiveClosed, Inv, ResultInv
    <3>2. result[s] \in {"ok", "panic"} \/ Told(s)
      BY <2>1, <3>1 DEF Inv, TypeOK, ResultInv, ReportInv
    <3>3. Calls[s] = result[s]
      BY <2>1, <3>1, CallFacts
    <3>4. Contract!Release(c, w)
      BY <1>2, <1>5, <2>1, <3>1, <3>2, <3>3, TellingFacts DEF Contract!Release, Calls
    <3> QED BY <3>4 DEF Contract!Next
  <2> QED BY <1>8, <2>2, <2>3 DEF WaitForSources
<1> QED BY <1>6, <1>7, <1>8

\* A context made by the interceptor starts a call, or waits for the one of the
\* context outside of it, or is let through for a reason; and whoever waits for
\* a call hears once that it is over, of its error first, however contexts are
\* nested and wakers and waiters interleave (keepalive_interceptor.go:36-49,
\* 134-183).
THEOREM ImplementsContract == Spec => KeepsContract
<1>1. Init => Contract!Init
  BY DEF Init, Contract!Init, Configs, CallOf, Heard
<1>2. Inv /\ [Next]_vars => [Contract!Next]_(Contract!vars)
  <2> SUFFICES ASSUME Inv, [Next]_vars
               PROVE  Contract!Next \/ UNCHANGED Contract!vars
      OBVIOUS
  <2>1. CASE UNCHANGED vars \/ \E a \in Accounts : TenMinutesPass(a)
    <3>1. UNCHANGED <<config, outer, account, func, waker, result, wait>>
      BY <2>1 DEF vars, TenMinutesPass, contextVars, wakerVars
    <3>2. UNCHANGED Calls /\ UNCHANGED Tellings
      BY <3>1, SameCalls, SameTellings
    <3> QED BY <3>1, <3>2 DEF Contract!vars, Calls, Tellings
  <2> QED BY <2>1, RequestKeeps, WakerKeeps, WaitKeeps DEF Next, AllDone
<1> QED BY <1>1, <1>2, Invariance, PTL DEF Spec, KeepsContract, Contract!Spec
=============================================================================
