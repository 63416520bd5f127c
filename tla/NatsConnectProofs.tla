------------------------- MODULE NatsConnectProofs -------------------------
(***************************************************************************)
(* The safety of NatsConnect for any values of NumRetries and MaxReconnects *)
(* and any number of faults.                                               *)
(***************************************************************************)
EXTENDS NatsConnect, TLAPS

\* The tries that are left and the attempts made add up, and Connect goes
\* round only while a try is left.
LoopInv ==
  /\ numRetries >= 0 => triesLeft >= 0 /\ attempts + triesLeft = numRetries + 1
  /\ numRetries < 0 => triesLeft = -1
  /\ pc \in {"connecting", "sleep"} => triesLeft /= 0
  /\ pc = "failed" => triesLeft = 0

\* From the moment a JWT is minted the keys stay the ones it was minted for.
KeyInv ==
  /\ pc \in {"token", "request"} => keys /= 0
  /\ jwtState /= "none" => jwtKey = keys /\ keys /= 0
  /\ pc \in {"sign", "verify"} => jwtKey = keys /\ keys /= 0
  /\ pc = "verify" => signature = keys

\* generateJWT runs only when there is no JWT worth keeping, and each token
\* that is not worth keeping has been counted.
CountInv ==
  /\ pc \in {"keys", "token", "request"} => jwtState \in {"none", "expired"}
  /\ jwtState \in {"none", "expired"} => mints <= jwtFaults
  /\ access /= "live" => exchanges <= accessFaults
  /\ NothingAskedTwice

Inv == TypeOK /\ LoopInv /\ KeyInv /\ NothingStaleSent /\ CountInv

----------------------------------------------------------------------------
LEMMA InitInv == Init => Inv
<1> SUFFICES ASSUME Init PROVE Inv
  OBVIOUS
<1> USE RetriesAssumption, MaxFaultsAssumption DEF Init
<1>1. TypeOK
  <2>1. numRetries \in Int BY DEF Init
  <2>2. triesLeft \in Int
    <3>1. CASE numRetries >= 0 BY <2>1, <3>1
    <3>2. CASE ~ numRetries >= 0 BY <3>2
    <3> QED BY <3>1, <3>2
  <2>3. pc \in Steps /\ jwtState \in JwtStates /\ access \in AccessStates
    BY DEF Steps, JwtStates, AccessStates
  <2>4. /\ reconnecting \in BOOLEAN /\ renewing \in BOOLEAN
        /\ apiUp \in BOOLEAN /\ natsUp \in BOOLEAN /\ agedNow \in BOOLEAN
    OBVIOUS
  <2>5. faults \in 0 .. MaxFaults OBVIOUS
  <2>6. /\ keys \in Nat /\ jwtKey \in Nat /\ signature \in Nat
        /\ attempts \in Nat /\ mints \in Nat /\ exchanges \in Nat
        /\ jwtFaults \in Nat /\ accessFaults \in Nat
    OBVIOUS
  <2>7. /\ numRetries \in Retries /\ maxReconnects \in Reconnects
        /\ reconnects \in Nat /\ refusals \in Nat
    OBVIOUS
  <2> HIDE DEF Init
  <2> QED BY <2>2, <2>3, <2>4, <2>5, <2>6, <2>7 DEF TypeOK
<1>2. LoopInv BY DEF LoopInv
<1>3. KeyInv BY DEF KeyInv
<1>4. NothingStaleSent BY DEF NothingStaleSent
<1>5. CountInv BY DEF CountInv, NothingAskedTwice
<1> QED BY <1>1, <1>2, <1>3, <1>4, <1>5 DEF Inv

\* Every action preserves the parts of the invariant.
LEMMA StartAttemptInv ==
  ASSUME Inv, StartAttempt
  PROVE  Inv'
<1> USE RetriesAssumption, MaxFaultsAssumption
      DEF Inv, TypeOK, StartAttempt, loop, conn, client, env, history,
          tokenHistory
<1>1. TypeOK'
  <2>1. triesLeft' \in Int /\ attempts' \in Nat OBVIOUS
  <2> QED BY <2>1 DEF Steps
<1>2. LoopInv' BY DEF LoopInv
<1>3. KeyInv' BY DEF KeyInv
<1>4. NothingStaleSent' BY DEF NothingStaleSent
<1>5. CountInv' BY DEF CountInv, NothingAskedTwice, JwtStates
<1> QED BY <1>1, <1>2, <1>3, <1>4, <1>5

LEMMA WakeUpInv ==
  ASSUME Inv, WakeUp
  PROVE  Inv'
<1> USE RetriesAssumption, MaxFaultsAssumption
      DEF Inv, TypeOK, WakeUp, loop, conn, client, env, history, tokenHistory
<1>1. TypeOK' BY DEF Steps, JwtStates, AccessStates
<1>2. LoopInv' BY DEF LoopInv
<1>3. KeyInv' BY DEF KeyInv
<1>4. NothingStaleSent' BY DEF NothingStaleSent
<1>5. CountInv' BY DEF CountInv, NothingAskedTwice, JwtStates
<1> QED BY <1>1, <1>2, <1>3, <1>4, <1>5

LEMMA DialInv ==
  ASSUME Inv, Dial
  PROVE  Inv'
<1> USE RetriesAssumption, MaxFaultsAssumption
      DEF Inv, TypeOK, Dial, Fails, loop, conn, client, env, history,
          tokenHistory
<1>1. TypeOK' BY DEF Steps, JwtStates, AccessStates
<1>2. LoopInv' BY DEF LoopInv
<1>3. KeyInv' BY DEF KeyInv
<1>4. NothingStaleSent' BY DEF NothingStaleSent
<1>5. CountInv' BY DEF CountInv, NothingAskedTwice, JwtStates
<1> QED BY <1>1, <1>2, <1>3, <1>4, <1>5

LEMMA VerifyInv ==
  ASSUME Inv, Verify
  PROVE  Inv'
<1> USE RetriesAssumption, MaxFaultsAssumption
      DEF Inv, TypeOK, Verify, Fails, loop, conn, client, env, history,
          tokenHistory
<1>1. TypeOK' BY DEF Steps, JwtStates, AccessStates
<1>2. LoopInv' BY DEF LoopInv
<1>3. KeyInv' BY DEF KeyInv
<1>4. NothingStaleSent' BY DEF NothingStaleSent
<1>5. CountInv' BY DEF CountInv, NothingAskedTwice, JwtStates
<1> QED BY <1>1, <1>2, <1>3, <1>4, <1>5

LEMMA ReconnectInv ==
  ASSUME Inv, Reconnect
  PROVE  Inv'
<1> USE RetriesAssumption, MaxFaultsAssumption
      DEF Inv, TypeOK, Reconnect, loop, conn, client, env, history, tokenHistory
<1>1. TypeOK'
  <2>1. reconnects' \in Nat OBVIOUS
  <2>2. pc' \in Steps /\ agedNow' \in BOOLEAN BY DEF Steps
  <2>3. UNCHANGED <<numRetries, maxReconnects, refusals, triesLeft, reconnecting,
                    renewing, signature, client, env, attempts, tokenHistory>>
    OBVIOUS
  <2> HIDE DEF Reconnect
  <2> QED BY <2>1, <2>2, <2>3
<1>2. LoopInv' BY DEF LoopInv
<1>3. KeyInv' BY DEF KeyInv
<1>4. NothingStaleSent' BY DEF NothingStaleSent
<1>5. CountInv' BY DEF CountInv, NothingAskedTwice, JwtStates
<1> QED BY <1>1, <1>2, <1>3, <1>4, <1>5

LEMMA CloseInv ==
  ASSUME Inv, Close
  PROVE  Inv'
<1> USE RetriesAssumption, MaxFaultsAssumption
      DEF Inv, TypeOK, Close, loop, conn, client, env, history, tokenHistory
<1>1. TypeOK' BY DEF Steps, JwtStates, AccessStates
<1>2. LoopInv' BY DEF LoopInv
<1>3. KeyInv' BY DEF KeyInv
<1>4. NothingStaleSent' BY DEF NothingStaleSent
<1>5. CountInv' BY DEF CountInv, NothingAskedTwice, JwtStates
<1> QED BY <1>1, <1>2, <1>3, <1>4, <1>5

LEMMA GetJWTInv ==
  ASSUME Inv, GetJWT
  PROVE  Inv'
<1> USE RetriesAssumption, MaxFaultsAssumption
      DEF Inv, TypeOK, GetJWT, loop, conn, client, env, history, tokenHistory
<1>1. TypeOK' BY DEF Steps, JwtStates, AccessStates
<1>2. LoopInv' BY DEF LoopInv
<1>3. KeyInv' BY DEF KeyInv
<1>4. NothingStaleSent' BY DEF NothingStaleSent
<1>5. CountInv' BY DEF CountInv, NothingAskedTwice, JwtStates
<1> QED BY <1>1, <1>2, <1>3, <1>4, <1>5

LEMMA VetInv ==
  ASSUME Inv, Vet
  PROVE  Inv'
<1> USE RetriesAssumption, MaxFaultsAssumption
      DEF Inv, TypeOK, Vet, Fails, loop, conn, client, env, history,
          tokenHistory
<1>1. TypeOK' BY DEF Steps, JwtStates, AccessStates
<1>2. LoopInv' BY DEF LoopInv
<1>3. KeyInv' BY DEF KeyInv
<1>4. NothingStaleSent' BY DEF NothingStaleSent
<1>5. CountInv' BY DEF CountInv, NothingAskedTwice, JwtStates
<1> QED BY <1>1, <1>2, <1>3, <1>4, <1>5

LEMMA PrepareKeysInv ==
  ASSUME Inv, PrepareKeys
  PROVE  Inv'
<1> USE RetriesAssumption, MaxFaultsAssumption
      DEF Inv, TypeOK, PrepareKeys, KeepOrGenerateKeys, generateKeys,
          loop, conn, client, env, history, tokenHistory
<1>1. TypeOK' BY DEF Steps, JwtStates, AccessStates
<1>2. LoopInv' BY DEF LoopInv
<1>3. KeyInv' BY DEF KeyInv
<1>4. NothingStaleSent' BY DEF NothingStaleSent
<1>5. CountInv' BY DEF CountInv, NothingAskedTwice, JwtStates
<1> QED BY <1>1, <1>2, <1>3, <1>4, <1>5

LEMMA RequestInv ==
  ASSUME Inv, Request
  PROVE  Inv'
<1> USE RetriesAssumption, MaxFaultsAssumption
      DEF Inv, TypeOK, Request, Fails, Minted, loop, conn, client, env, history,
          tokenHistory
<1>1. TypeOK' BY DEF Steps, JwtStates, AccessStates
<1>2. LoopInv' BY DEF LoopInv
<1>3. KeyInv' BY DEF KeyInv
<1>4. NothingStaleSent' BY DEF NothingStaleSent
<1>5. CountInv' BY DEF CountInv, NothingAskedTwice, JwtStates
<1> QED BY <1>1, <1>2, <1>3, <1>4, <1>5

LEMMA SignInv ==
  ASSUME Inv, Sign
  PROVE  Inv'
<1> USE RetriesAssumption, MaxFaultsAssumption
      DEF Inv, TypeOK, Sign, KeepOrGenerateKeys, generateKeys, loop, conn,
          client, env, history, tokenHistory
<1>1. TypeOK' BY DEF Steps, JwtStates, AccessStates
<1>2. LoopInv' BY DEF LoopInv
<1>3. KeyInv' BY DEF KeyInv
<1>4. NothingStaleSent' BY DEF NothingStaleSent
<1>5. CountInv' BY DEF CountInv, NothingAskedTwice, JwtStates
<1> QED BY <1>1, <1>2, <1>3, <1>4, <1>5

LEMMA TokenInv ==
  ASSUME Inv, Token
  PROVE  Inv'
<1> USE RetriesAssumption, MaxFaultsAssumption
      DEF Inv, TypeOK, Token, Fails, Exchanged, loop, conn, client, env,
          history, tokenHistory
<1>1. TypeOK' BY DEF Steps, JwtStates, AccessStates
<1>2. LoopInv' BY DEF LoopInv
<1>3. KeyInv' BY DEF KeyInv
<1>4. NothingStaleSent' BY DEF NothingStaleSent
<1>5. CountInv' BY DEF CountInv, NothingAskedTwice, JwtStates
<1> QED BY <1>1, <1>2, <1>3, <1>4, <1>5

LEMMA ApiFailsInv ==
  ASSUME Inv, ApiFails
  PROVE  Inv'
<1> USE RetriesAssumption, MaxFaultsAssumption
      DEF Inv, TypeOK, ApiFails, Fault, loop, conn, client, env, history,
          tokenHistory
<1>1. TypeOK'
  <2>1. faults' \in 0 .. MaxFaults OBVIOUS
  <2>2. apiUp' \in BOOLEAN /\ natsUp' \in BOOLEAN OBVIOUS
  <2>3. UNCHANGED <<loop, conn, client, history>> OBVIOUS
  <2> QED BY <2>1, <2>2, <2>3
<1>2. LoopInv' BY DEF LoopInv
<1>3. KeyInv' BY DEF KeyInv
<1>4. NothingStaleSent' BY DEF NothingStaleSent
<1>5. CountInv' BY DEF CountInv, NothingAskedTwice, JwtStates
<1> QED BY <1>1, <1>2, <1>3, <1>4, <1>5

LEMMA NatsFailsInv ==
  ASSUME Inv, NatsFails
  PROVE  Inv'
<1> USE RetriesAssumption, MaxFaultsAssumption
      DEF Inv, TypeOK, NatsFails, Fault, loop, conn, client, env, history,
          tokenHistory
<1>1. TypeOK'
  <2>1. faults' \in 0 .. MaxFaults OBVIOUS
  <2>2. apiUp' \in BOOLEAN /\ natsUp' \in BOOLEAN OBVIOUS
  <2>3. UNCHANGED <<loop, conn, client, history>> OBVIOUS
  <2> QED BY <2>1, <2>2, <2>3
<1>2. LoopInv' BY DEF LoopInv
<1>3. KeyInv' BY DEF KeyInv
<1>4. NothingStaleSent' BY DEF NothingStaleSent
<1>5. CountInv' BY DEF CountInv, NothingAskedTwice, JwtStates
<1> QED BY <1>1, <1>2, <1>3, <1>4, <1>5

LEMMA RecoverInv ==
  ASSUME Inv, Recover
  PROVE  Inv'
<1> USE RetriesAssumption, MaxFaultsAssumption
      DEF Inv, TypeOK, Recover, loop, conn, client, env, history, tokenHistory
<1>1. TypeOK' BY DEF Steps, JwtStates, AccessStates
<1>2. LoopInv' BY DEF LoopInv
<1>3. KeyInv' BY DEF KeyInv
<1>4. NothingStaleSent' BY DEF NothingStaleSent
<1>5. CountInv' BY DEF CountInv, NothingAskedTwice, JwtStates
<1> QED BY <1>1, <1>2, <1>3, <1>4, <1>5

LEMMA JwtExpiresInv ==
  ASSUME Inv, JwtExpires
  PROVE  Inv'
<1> USE RetriesAssumption, MaxFaultsAssumption
      DEF Inv, TypeOK, JwtExpires, Fault, loop, conn, client, env, history,
          tokenHistory
<1>1. TypeOK'
  <2>1. faults' \in 0 .. MaxFaults OBVIOUS
  <2>2. jwtFaults' \in Nat /\ accessFaults' \in Nat OBVIOUS
  <2>3. jwtState' \in JwtStates /\ access' \in AccessStates
    BY DEF JwtStates, AccessStates
  <2> QED BY <2>1, <2>2, <2>3
<1>2. LoopInv' BY DEF LoopInv
<1>3. KeyInv' BY DEF KeyInv
<1>4. NothingStaleSent' BY DEF NothingStaleSent
<1>5. CountInv' BY DEF CountInv, NothingAskedTwice, JwtStates
<1> QED BY <1>1, <1>2, <1>3, <1>4, <1>5

LEMMA AccessExpiresInv ==
  ASSUME Inv, AccessExpires
  PROVE  Inv'
<1> USE RetriesAssumption, MaxFaultsAssumption
      DEF Inv, TypeOK, AccessExpires, Fault, loop, conn, client, env, history,
          tokenHistory
<1>1. TypeOK'
  <2>1. faults' \in 0 .. MaxFaults OBVIOUS
  <2>2. jwtFaults' \in Nat /\ accessFaults' \in Nat OBVIOUS
  <2>3. jwtState' \in JwtStates /\ access' \in AccessStates
    BY DEF JwtStates, AccessStates
  <2> QED BY <2>1, <2>2, <2>3
<1>2. LoopInv' BY DEF LoopInv
<1>3. KeyInv' BY DEF KeyInv
<1>4. NothingStaleSent' BY DEF NothingStaleSent
<1>5. CountInv' BY DEF CountInv, NothingAskedTwice, JwtStates
<1> QED BY <1>1, <1>2, <1>3, <1>4, <1>5

LEMMA DisconnectInv ==
  ASSUME Inv, Disconnect
  PROVE  Inv'
<1> USE RetriesAssumption, MaxFaultsAssumption
      DEF Inv, TypeOK, Disconnect, Fault, loop, conn, client, env, history,
          tokenHistory
<1>1. TypeOK' BY DEF Steps, JwtStates, AccessStates
<1>2. LoopInv' BY DEF LoopInv
<1>3. KeyInv' BY DEF KeyInv
<1>4. NothingStaleSent' BY DEF NothingStaleSent
<1>5. CountInv' BY DEF CountInv, NothingAskedTwice, JwtStates
<1> QED BY <1>1, <1>2, <1>3, <1>4, <1>5

LEMMA StutterInv == Inv /\ UNCHANGED vars => Inv'
BY DEF Inv, TypeOK, LoopInv, KeyInv, NothingStaleSent, CountInv,
       NothingAskedTwice, vars, loop, conn, client, env, history, tokenHistory

LEMMA NextInv == Inv /\ [Next]_vars => Inv'
<1> SUFFICES ASSUME Inv, [Next]_vars PROVE Inv'
  OBVIOUS
<1>1. CASE Program
  BY <1>1, StartAttemptInv, WakeUpInv, DialInv, VerifyInv, ReconnectInv,
     CloseInv, GetJWTInv, VetInv, PrepareKeysInv, RequestInv, SignInv, TokenInv DEF Program
<1>2. CASE Environment
  BY <1>2, ApiFailsInv, NatsFailsInv, JwtExpiresInv, AccessExpiresInv,
     DisconnectInv DEF Environment
<1>3. CASE Recover BY <1>3, RecoverInv
<1>4. CASE Finished \/ UNCHANGED vars BY <1>4, StutterInv DEF Finished
<1> QED BY <1>1, <1>2, <1>3, <1>4 DEF Next

LEMMA Invariance == Spec => []Inv
BY InitInv, NextInv, PTL DEF Spec

----------------------------------------------------------------------------
\* Every variable of the loop, conn, the token client and the token source keeps
\* its type.
THEOREM TypeCorrect == Spec => []TypeOK
<1>1. Inv => TypeOK BY DEF Inv
<1> QED BY <1>1, Invariance, PTL

\* Connect gives up after NumRetries + 1 attempts and never when NumRetries
\* is negative.
THEOREM RetriesAreExact == Spec => []RetriesExactly
<1>1. Inv => RetriesExactly
  BY RetriesAssumption DEF Inv, TypeOK, LoopInv, RetriesExactly
<1> QED BY <1>1, Invariance, PTL

\* The nonce is signed with the keys the JWT was minted for.
THEOREM SignaturesMatch == Spec => []SignatureMatchesToken
<1>1. Inv => SignatureMatchesToken BY DEF Inv, KeyInv, SignatureMatchesToken
<1> QED BY <1>1, Invariance, PTL

\* No token that was stale when the attempt began is sent.
THEOREM NoStaleToken == Spec => []NothingStaleSent
<1>1. Inv => NothingStaleSent BY DEF Inv
<1> QED BY <1>1, Invariance, PTL

\* Each token after the first replaces one that was bad or went stale.
THEOREM TokensAreReused == Spec => []NothingAskedTwice
<1>1. Inv => NothingAskedTwice BY DEF Inv, CountInv
<1> QED BY <1>1, Invariance, PTL
============================================================================
