---------------------------- MODULE NatsConnect ----------------------------
(***************************************************************************)
(* Connecting to NATS with a token that is fetched on the way              *)
(* (src/auth/nats.go, src/auth/auth.go).                                   *)
(*                                                                         *)
(* NATSOptions.Connect loops over attempts.  In each one nats.go dials the *)
(* server, asks the natsTokenClient for a JWT (GetJWT), has it sign the    *)
(* server's nonce (Sign) and lets the server verify both.  GetJWT may have *)
(* to mint a JWT (generateJWT), which needs a bearer token, for which the  *)
(* APIKeyTokenSource exchanges the API key (Token).  The same callbacks    *)
(* run again whenever nats.go reconnects.  Everything happens in one       *)
(* goroutine; tokens age and services fail while it runs.                  *)
(***************************************************************************)
EXTENDS Integers

CONSTANTS
  Retries,    \* the values of NumRetries a program may start with
  Reconnects, \* and of MaxReconnects
  MaxFaults   \* bound: outages, expiries, bad answers and disconnects in all

ASSUME RetriesAssumption == Retries \subseteq Int
ASSUME ReconnectsAssumption == Reconnects \subseteq Int
ASSUME MaxFaultsAssumption == MaxFaults \in Nat

VARIABLES
  numRetries,   \* NATSOptions.NumRetries
  maxReconnects, \* NATSOptions.MaxReconnects
  reconnects,   \* attempts since the connection was lost, when limited
  refusals,     \* of those, the ones the server refused
  triesLeft,    \* the loop's local variable; every negative value is -1
  pc,           \* where the goroutine is
  reconnecting, \* TRUE when nats.go, not Connect, makes the attempt
  renewing,     \* which of its two calls GetJWT makes of generateJWT
  keys,         \* natsTokenClient.keys: 0 for nil, else the number of the pair
  jwtState,     \* natsTokenClient.jwt: its state ...
  jwtKey,       \* ... and the key pair it was minted for
  signature,    \* the key pair that signed the nonce
  access,       \* APIKeyTokenSource.token
  apiUp, natsUp, \* the Overmind API and the NATS server answer
  faults,       \* the faults so far
  attempts,     \* history: the attempts Connect made, when they are limited
  agedNow,      \* history: a token aged since the attempt began
  mints, exchanges, \* history: the tokens each service handed out ...
  jwtFaults, accessFaults \* ... and those that were bad or went stale

client == <<keys, jwtState, jwtKey, access>>
env == <<apiUp, natsUp, faults>>
tokenHistory == <<mints, exchanges, jwtFaults, accessFaults>>
history == <<attempts, agedNow, tokenHistory>>
conn == <<maxReconnects, reconnects, refusals>>
loop == <<numRetries, conn, triesLeft, pc, reconnecting, renewing, signature>>
vars == <<loop, client, env, history>>

Steps == {"connecting", "dial", "getjwt", "vet", "keys", "token", "request",
          "sign", "verify", "sleep", "lost", "connected", "closed", "failed"}
JwtStates == {"none", "live", "expired", "garbled"}
AccessStates == {"none", "live", "expired"}

TypeOK ==
  /\ numRetries \in Retries /\ triesLeft \in Int
  /\ maxReconnects \in Reconnects /\ reconnects \in Nat /\ refusals \in Nat
  /\ pc \in Steps /\ reconnecting \in BOOLEAN /\ renewing \in BOOLEAN
  /\ keys \in Nat /\ jwtKey \in Nat /\ signature \in Nat
  /\ jwtState \in JwtStates /\ access \in AccessStates
  /\ apiUp \in BOOLEAN /\ natsUp \in BOOLEAN /\ faults \in 0 .. MaxFaults
  /\ attempts \in Nat /\ agedNow \in BOOLEAN
  /\ mints \in Nat /\ exchanges \in Nat
  /\ jwtFaults \in Nat /\ accessFaults \in Nat

Init ==
  /\ numRetries \in Retries
  /\ maxReconnects \in Reconnects /\ reconnects = 0 /\ refusals = 0
  /\ triesLeft = IF numRetries >= 0 THEN numRetries + 1 ELSE -1
  /\ pc = "connecting"
  /\ reconnecting = FALSE /\ renewing = FALSE
  /\ keys = 0 /\ jwtState = "none" /\ jwtKey = 0 /\ signature = 0
  /\ access = "none"
  /\ apiUp \in BOOLEAN /\ natsUp \in BOOLEAN /\ faults = 0
  /\ attempts = 0 /\ agedNow = FALSE /\ mints = 0 /\ exchanges = 0
  /\ jwtFaults = 0 /\ accessFaults = 0

----------------------------------------------------------------------------
(* The retry loop of Connect. *)

StartAttempt ==
  /\ pc = "connecting"
  /\ pc' = "dial"
  /\ triesLeft' = IF triesLeft > 0 THEN triesLeft - 1 ELSE -1
  /\ attempts' = IF numRetries >= 0 THEN attempts + 1 ELSE attempts
  /\ agedNow' = FALSE
  /\ UNCHANGED <<numRetries, conn, reconnecting, renewing, signature, client, env,
                 tokenHistory>>

\* Mutant: the loop takes a negative number of tries for none.
FailsEarly == pc' = IF reconnecting THEN "lost"
                    ELSE IF triesLeft > 0 THEN "sleep" ELSE "failed"

\* Where an attempt that failed leaves the goroutine: Connect sleeps while
\* tries are left and else gives up with MaxRetriesError, nats.go goes on.
Fails == pc' = IF reconnecting THEN "lost"
               ELSE IF triesLeft /= 0 THEN "sleep" ELSE "failed"

WakeUp ==
  /\ pc = "sleep"
  /\ pc' = "connecting"
  /\ UNCHANGED <<numRetries, conn, triesLeft, reconnecting, renewing, signature,
                 client, env, history>>

----------------------------------------------------------------------------
(* nats.go (external): dial, the two callbacks, the server's verdict.      *)

Dial ==
  /\ pc = "dial"
  /\ IF natsUp THEN pc' = "getjwt" ELSE Fails
  /\ UNCHANGED <<numRetries, conn, triesLeft, reconnecting, renewing, signature,
                 client, env, history>>

Verify ==
  /\ pc = "verify"
  /\ IF natsUp /\ jwtState = "live" /\ signature = jwtKey
     THEN pc' = "connected" /\ reconnects' = 0 /\ refusals' = 0
     ELSE /\ Fails /\ UNCHANGED reconnects
          /\ refusals' = IF natsUp /\ reconnecting THEN refusals + 1 ELSE refusals
  /\ UNCHANGED <<numRetries, maxReconnects, triesLeft, reconnecting, renewing,
                 signature, client, env, history>>

MaxReconnectsDefault == -1

\* Mutant: MaxReconnects is passed on as it is.
ReconnectsAsGiven == maxReconnects

\* ToNatsOptions: for ever unless the program says otherwise.
ReconnectsAllowed ==
  IF maxReconnects /= 0 THEN maxReconnects ELSE MaxReconnectsDefault

\* nats.go gives up after that many attempts, or when the server refused two.
MayReconnect ==
  /\ refusals < 2
  /\ ReconnectsAllowed < 0 \/ reconnects < ReconnectsAllowed

Reconnect ==
  /\ pc = "lost" /\ MayReconnect
  /\ pc' = "dial" /\ agedNow' = FALSE
  /\ reconnects' = IF ReconnectsAllowed < 0 THEN reconnects ELSE reconnects + 1
  /\ UNCHANGED <<numRetries, maxReconnects, refusals, triesLeft, reconnecting,
                 renewing, signature, client, env, attempts, tokenHistory>>

\* ClosedHandler runs; nobody connects again.
Close ==
  /\ pc = "lost" /\ ~ MayReconnect
  /\ pc' = "closed"
  /\ UNCHANGED <<numRetries, conn, triesLeft, reconnecting, renewing, signature,
                 client, env, history>>

----------------------------------------------------------------------------
(* natsTokenClient *)

\* Mutant: a JWT is minted for every attempt.
MintAlways ==
  /\ pc = "getjwt"
  /\ pc' = "keys"
  /\ renewing' = FALSE
  /\ UNCHANGED <<numRetries, conn, triesLeft, reconnecting, signature, client, env,
                 history>>

\* Mutant: a JWT there is goes out as it is.
TrustJWT ==
  /\ pc = "getjwt"
  /\ pc' = IF jwtState = "none" THEN "keys" ELSE "sign"
  /\ renewing' = FALSE
  /\ UNCHANGED <<numRetries, conn, triesLeft, reconnecting, signature, client, env,
                 history>>

\* GetJWT, its beginning: without a JWT it mints one.
GetJWT ==
  /\ pc = "getjwt"
  /\ pc' = IF jwtState = "none" THEN "keys" ELSE "vet"
  /\ renewing' = FALSE
  /\ UNCHANGED <<numRetries, conn, triesLeft, reconnecting, signature, client, env,
                 history>>

\* Mutant: a JWT that no longer validates is an error, and kept.
VetNoRenewal ==
  /\ pc = "vet"
  /\ IF jwtState = "live" THEN pc' = "sign" ELSE Fails
  /\ UNCHANGED <<numRetries, conn, triesLeft, reconnecting, renewing, signature,
                 client, env, history>>

\* GetJWT, the rest: a JWT that cannot be decoded (the empty one too) is an
\* error and is kept; one that no longer validates is minted again, and the
\* new one is returned as it is.
Vet ==
  /\ pc = "vet"
  /\ \/ jwtState \in {"none", "garbled"} /\ Fails /\ UNCHANGED renewing
     \/ jwtState = "expired" /\ pc' = "keys" /\ renewing' = TRUE
     \/ jwtState = "live" /\ pc' = "sign" /\ UNCHANGED renewing
  /\ UNCHANGED <<numRetries, conn, triesLeft, reconnecting, signature, client, env,
                 history>>

\* generateKeys replaces whatever pair there was.
generateKeys == keys' = keys + 1
\* Mutant: the keys there are do not stop the creation of others.
AlwaysGenerateKeys == generateKeys

KeepOrGenerateKeys == IF keys = 0 THEN generateKeys ELSE UNCHANGED keys

\* generateJWT, up to the request.
PrepareKeys ==
  /\ pc = "keys"
  /\ KeepOrGenerateKeys
  /\ pc' = "token"
  /\ UNCHANGED <<numRetries, conn, triesLeft, reconnecting, renewing, signature,
                 jwtState, jwtKey, access, env, history>>

\* generateJWT, the request: the answer replaces the JWT whatever it is; an
\* error leaves it.  The empty answer is the absent JWT.
Minted(answer) ==
  /\ jwtState' = answer /\ jwtKey' = keys
  /\ mints' = mints + 1
  /\ jwtFaults' = IF answer = "live" THEN jwtFaults ELSE jwtFaults + 1
  /\ agedNow' = (agedNow \/ answer = "expired")
  /\ pc' = IF renewing THEN "sign" ELSE "vet"

Request ==
  /\ pc = "request"
  /\ \/ apiUp /\ access = "live" /\ Minted("live") /\ UNCHANGED faults
     \/ /\ apiUp /\ access = "live" /\ faults < MaxFaults
        /\ \E answer \in JwtStates \ {"live"} : Minted(answer)
        /\ faults' = faults + 1
     \/ /\ \/ ~ apiUp \/ access /= "live"
           \/ faults < MaxFaults
        /\ Fails
        /\ faults' = IF apiUp /\ access = "live" THEN faults + 1 ELSE faults
        /\ UNCHANGED <<jwtState, jwtKey, mints, jwtFaults, agedNow>>
  /\ UNCHANGED <<numRetries, conn, triesLeft, reconnecting, renewing, signature,
                 keys, access, apiUp, natsUp, attempts, exchanges, accessFaults>>

Sign ==
  /\ pc = "sign"
  /\ KeepOrGenerateKeys
  /\ signature' = keys'
  /\ pc' = "verify"
  /\ UNCHANGED <<numRetries, conn, triesLeft, reconnecting, renewing, jwtState,
                 jwtKey, access, env, history>>

----------------------------------------------------------------------------
(* APIKeyTokenSource.Token, called by the HTTP transport of the request.   *)

\* Mutant: the answer is stored before it is parsed.
ExchangedUnparsed(answer) ==
  /\ access' \in {answer, "garbled"}
  /\ exchanges' = exchanges + 1
  /\ accessFaults' = IF answer = "live" THEN accessFaults ELSE accessFaults + 1
  /\ agedNow' = (agedNow \/ answer = "expired")
  /\ pc' = "request"

Exchanged(answer) ==
  /\ access' = answer
  /\ exchanges' = exchanges + 1
  /\ accessFaults' = IF answer = "live" THEN accessFaults ELSE accessFaults + 1
  /\ agedNow' = (agedNow \/ answer = "expired")
  /\ pc' = "request"

\* A valid token is reused; an error, an empty answer and one that does not
\* parse change nothing; a token that is past its expiry is stored and sent.
Token ==
  /\ pc = "token"
  /\ \/ access = "live" /\ pc' = "request"
        /\ UNCHANGED <<access, exchanges, accessFaults, agedNow, faults>>
     \/ access /= "live" /\ apiUp /\ Exchanged("live") /\ UNCHANGED faults
     \/ /\ access /= "live" /\ apiUp /\ faults < MaxFaults
        /\ Exchanged("expired")
        /\ faults' = faults + 1
     \/ /\ access /= "live" /\ (~ apiUp \/ faults < MaxFaults)
        /\ Fails
        /\ faults' = IF apiUp THEN faults + 1 ELSE faults
        /\ UNCHANGED <<access, exchanges, accessFaults, agedNow>>
  /\ UNCHANGED <<numRetries, conn, triesLeft, reconnecting, renewing, signature,
                 keys, jwtState, jwtKey, apiUp, natsUp, attempts, mints,
                 jwtFaults>>

----------------------------------------------------------------------------
(* The environment (external).  Each fault counts towards MaxFaults.       *)

Fault == faults < MaxFaults /\ faults' = faults + 1

ApiFails  == apiUp /\ Fault /\ apiUp' = FALSE
             /\ UNCHANGED <<loop, client, natsUp, history>>
NatsFails == natsUp /\ Fault /\ natsUp' = FALSE
             /\ UNCHANGED <<loop, client, apiUp, history>>
Recover == /\ ~ apiUp \/ ~ natsUp
           /\ apiUp' = TRUE /\ natsUp' = TRUE
           /\ UNCHANGED <<loop, client, faults, history>>
JwtExpires == /\ jwtState = "live" /\ Fault
              /\ jwtState' = "expired" /\ agedNow' = TRUE
              /\ jwtFaults' = jwtFaults + 1
              /\ UNCHANGED <<loop, keys, jwtKey, access, apiUp, natsUp,
                             attempts, mints, exchanges, accessFaults>>
AccessExpires == /\ access = "live" /\ Fault
                 /\ access' = "expired" /\ agedNow' = TRUE
                 /\ accessFaults' = accessFaults + 1
                 /\ UNCHANGED <<loop, keys, jwtState, jwtKey, apiUp, natsUp,
                                attempts, mints, exchanges, jwtFaults>>
Disconnect == /\ pc = "connected" /\ Fault
              /\ pc' = "lost" /\ reconnecting' = TRUE
              /\ UNCHANGED <<numRetries, conn, triesLeft, renewing, signature,
                             client, apiUp, natsUp, history>>

Finished == pc \in {"connected", "closed", "failed"} /\ UNCHANGED vars

Program == StartAttempt \/ WakeUp \/ Dial \/ Verify \/ Reconnect \/ Close
           \/ GetJWT \/ Vet \/ PrepareKeys \/ Request \/ Sign \/ Token
Environment == ApiFails \/ NatsFails \/ JwtExpires \/ AccessExpires
               \/ Disconnect

Next == Program \/ Environment \/ Recover \/ Finished

Spec == Init /\ [][Next]_vars
\* The goroutine runs, and what is down comes back.
FairSpec == Spec /\ WF_vars(Program) /\ WF_vars(Recover)

----------------------------------------------------------------------------
(* Properties *)

\* Connect gives up (nats.go:237) after exactly NumRetries + 1 attempts, and
\* with a negative NumRetries never ("use -1 to retry indefinitely", 99).
RetriesExactly ==
  pc = "failed" => numRetries >= 0 /\ attempts = numRetries + 1

\* Whatever failed before, the nonce is signed with the keys the presented
\* JWT was minted for (auth.go:177 and 273 both create keys when there are
\* none): token and signature never come from different pairs.
SignatureMatchesToken == pc = "verify" => signature = jwtKey

\* A token that was already stale when the attempt began is never sent: not
\* the JWT to the server (auth.go:258), nor the bearer token to the API
\* (auth.go:312).
NothingStaleSent ==
  ~ agedNow => /\ pc \in {"sign", "verify"} => jwtState /= "expired"
               /\ pc = "request" => access = "live"

\* Retrying asks for nothing that is still good: each token after the first
\* replaces one that went stale or was bad, however often Connect and nats.go
\* go round (auth.go:236, 258 and 312).
NothingAskedTwice == mints <= 1 + jwtFaults /\ exchanges <= 1 + accessFaults

\* Once the faults end, the connection stands: Connect or the reconnects of
\* nats.go get there, unless the tries ran out, the program limited the
\* reconnects (nats.go:134) and those ran out, the server refused two of them,
\* or the API handed out a JWT that cannot be decoded, which GetJWT keeps for
\* ever (auth.go:245).
Settles ==
  <>[]\/ pc \in {"connected", "failed"}
      \/ pc = "closed" /\ (maxReconnects > 0 \/ refusals = 2)
      \/ jwtState = "garbled"
============================================================================
