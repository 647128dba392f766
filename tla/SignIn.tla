------------------------------- MODULE SignIn -------------------------------
(***************************************************************************)
(* Signing in with a wallet: the nonce and session tables of the API        *)
(* (auth/siwe.ts, routes/auth.ts, the session hook of app.ts) and one       *)
(* browser that signs in, switches accounts, calls and signs out            *)
(* (client/src/lib/session.ts, lib/api.ts, useSession of useProofRelay.ts). *)
(*                                                                         *)
(* A nonce is a number and a token never issued twice, as its random bytes  *)
(* are: here the nonce it answers and how many sessions there were then; a  *)
(* signature is the wallet that made it.                                    *)
(* The domain, the chain and the text that is signed are those of the one   *)
(* deployment, so the checks of them never fail and are left out.           *)
(***************************************************************************)
EXTENDS Integers, FiniteSets

CONSTANTS
  Wallets, NoWallet,
  ChallengeSlots,                \* bound: requests in flight
  NonceTtl, SessionTtl, AuthRetain,
  MaxNonces, MaxClock   \* bounds

ASSUME SignInAssumption ==
  /\ {NonceTtl, SessionTtl, AuthRetain, MaxNonces, MaxClock} \subseteq Nat
  /\ NoWallet \notin Wallets

VARIABLES
  authClock,
  nonces,      \* auth_nonces: [owner, expires, consumed], by nonce
  sessions,    \* sessions: [nonce, owner, expires, revoked], by token
  inFlight,    \* the requests
  browser      \* connected wallet, stored token, the sign-in under way

signVars == <<authClock, nonces, sessions, inFlight, browser>>

NoToken == <<0, 0>>
Free == [kind |-> "none"]
NoFlow == [at |-> "idle"]

SignInInit ==
  /\ authClock = 0 /\ nonces = <<>> /\ sessions = <<>>
  /\ inFlight = [q \in ChallengeSlots |-> Free]
  /\ browser = [wallet |-> NoWallet, stored |-> NoToken, flow |-> NoFlow, issued |-> 0]

With(f, k, value) == [x \in DOMAIN f \cup {k} |-> IF x = k THEN value ELSE f[x]]
Without(f, S) == [x \in DOMAIN f \ S |-> f[x]]
Put(q, request) == inFlight' = [inFlight EXCEPT ![q] = request]

-----------------------------------------------------------------------------
(* The browser.  Storage holds one session, of the wallet that signed for it; *)
(* a token is its own key in `sessions`, here and after the row is purged.    *)
OwnerOf(token) == IF token \in DOMAIN sessions THEN sessions[token].owner ELSE NoWallet

(* readSession drops what has expired by the browser's clock.                 *)
ReadSession ==
  IF /\ browser.stored \in DOMAIN sessions
     /\ sessions[browser.stored].expires > authClock
  THEN browser.stored ELSE NoToken

(* The token a request carries: only if the connected wallet signed for it.   *)
TokenFor(wallet) ==
  IF wallet # NoWallet /\ OwnerOf(ReadSession) = wallet THEN ReadSession ELSE NoToken

(* The connected account changes, and what it did not sign for is forgotten;  *)
(* no account is not a foreign one.                                           *)
ForgetForeignSession(wallet) ==
  IF wallet # NoWallet /\ OwnerOf(ReadSession) # wallet THEN NoToken ELSE browser.stored

SwitchAccount(wallet) ==
  /\ wallet # browser.wallet
  /\ browser' = [browser EXCEPT !.wallet = wallet, !.stored = ForgetForeignSession(wallet)]
  /\ UNCHANGED <<authClock, nonces, sessions, inFlight>>

(* useSession's signIn: the nonce, the signature over the server's message    *)
(* by the account it began with, the verification.                            *)
CreateChallenge ==
  /\ browser.flow = NoFlow /\ browser.wallet # NoWallet /\ browser.issued < MaxNonces
  /\ LET n == browser.issued + 1
     IN /\ nonces' = With(nonces, n, [owner |-> browser.wallet, consumed |-> FALSE,
                                      expires |-> authClock + NonceTtl])
        /\ browser' = [browser EXCEPT !.issued = n,
                         !.flow = [at |-> "challenged", account |-> browser.wallet, nonce |-> n]]
  /\ UNCHANGED <<authClock, sessions, inFlight>>

SignChallenge ==
  /\ browser.flow.at = "challenged"
  /\ browser' = [browser EXCEPT !.flow.at = "signed"]
  /\ UNCHANGED <<authClock, nonces, sessions, inFlight>>

DeclineChallenge ==
  /\ browser.flow.at = "challenged"
  /\ browser' = [browser EXCEPT !.flow = NoFlow]
  /\ UNCHANGED <<authClock, nonces, sessions, inFlight>>

(* Sent once by the page, and perhaps again by something on the way.          *)
SendVerify(q) ==
  /\ inFlight[q] = Free /\ browser.flow.at \in {"signed", "verifying"}
  /\ Put(q, [kind |-> "verify", at |-> "read", nonce |-> browser.flow.nonce,
             address |-> browser.flow.account, now |-> authClock, token |-> NoToken])
  /\ browser' = [browser EXCEPT !.flow.at = "verifying"]
  /\ UNCHANGED <<authClock, nonces, sessions>>

SendLogout(q) ==
  /\ inFlight[q] = Free /\ browser.flow = NoFlow /\ browser.stored # NoToken
  /\ Put(q, [kind |-> "logout", at |-> "revoke", token |-> TokenFor(browser.wallet)])
  /\ browser' = [browser EXCEPT !.flow = [at |-> "leaving"]]
  /\ UNCHANGED <<authClock, nonces, sessions>>

(* Any other request; a preparation names the connected wallet in its body.   *)
SendCall(q) ==
  /\ inFlight[q] = Free /\ browser.wallet # NoWallet /\ browser.flow = NoFlow
  /\ Put(q, [kind |-> "call", at |-> "resolve", token |-> TokenFor(browser.wallet),
             body |-> browser.wallet, now |-> authClock, acts |-> NoWallet])
  /\ UNCHANGED <<authClock, nonces, sessions, browser>>

-----------------------------------------------------------------------------
(* The API.  verifyChallenge reads the nonce, verifies the signature in a     *)
(* step of its own, then consumes and issues in one transaction.              *)
Acceptable(n, address, now) ==
  /\ n \in DOMAIN nonces /\ nonces[n].owner = address
  /\ ~nonces[n].consumed /\ nonces[n].expires > now

CheckChallenge(q) ==
  /\ inFlight[q].kind = "verify" /\ inFlight[q].at = "read"
  /\ Put(q, [inFlight[q] EXCEPT !.at =
        IF Acceptable(inFlight[q].nonce, inFlight[q].address, inFlight[q].now)
        THEN "consume" ELSE "rejected"])
  /\ UNCHANGED <<authClock, nonces, sessions, browser>>

(* Mutant: the transaction trusts what was read before it. *)
Unspent_Unchecked(n) == n \in DOMAIN nonces

Unspent(n) == n \in DOMAIN nonces /\ ~nonces[n].consumed

VerifyChallenge(q) ==
  /\ inFlight[q].kind = "verify" /\ inFlight[q].at = "consume"
  /\ LET request == inFlight[q]
         token == <<request.nonce, Cardinality(DOMAIN sessions)>>
     IN IF Unspent(request.nonce)
        THEN /\ nonces' = [nonces EXCEPT ![request.nonce].consumed = TRUE]
             /\ sessions' = With(sessions, token,
                  [nonce |-> request.nonce, owner |-> request.address, revoked |-> FALSE,
                   expires |-> request.now + SessionTtl])
             /\ Put(q, [request EXCEPT !.at = "issued", !.token = token])
        ELSE /\ Put(q, [request EXCEPT !.at = "rejected"])
             /\ UNCHANGED <<nonces, sessions>>
  /\ UNCHANGED <<authClock, browser>>

RevokeSession(q) ==
  /\ inFlight[q].kind = "logout" /\ inFlight[q].at = "revoke"
  /\ sessions' = [t \in DOMAIN sessions |->
        IF t = inFlight[q].token THEN [sessions[t] EXCEPT !.revoked = TRUE] ELSE sessions[t]]
  /\ Put(q, [inFlight[q] EXCEPT !.at = "done"])
  /\ UNCHANGED <<authClock, nonces, browser>>

(* The session hook: unknown, revoked and expired tokens identify nobody.     *)
ResolveSession(token, now) ==
  IF token \in DOMAIN sessions /\ ~sessions[token].revoked /\ sessions[token].expires > now
  THEN sessions[token].owner ELSE NoWallet

(* A session wins over the body.                                              *)
ActingAddress(identity, body) == IF identity # NoWallet THEN identity ELSE body

ServeCall(q) ==
  /\ inFlight[q].kind = "call" /\ inFlight[q].at = "resolve"
  /\ LET identity == ResolveSession(inFlight[q].token, inFlight[q].now)
     IN Put(q, [inFlight[q] EXCEPT !.at = "done", !.acts = ActingAddress(identity, inFlight[q].body)])
  /\ UNCHANGED <<authClock, nonces, sessions, browser>>

-----------------------------------------------------------------------------
(* What comes back, or does not.  A sign-in stores its session whatever the   *)
(* wallet is by then; a refusal, a 401, clears what is stored; signing out    *)
(* clears it whatever the server said.                                        *)
HearVerify(q) ==
  /\ inFlight[q].kind = "verify" /\ inFlight[q].at \in {"issued", "rejected"}
  /\ browser' = IF browser.flow.at = "verifying" /\ browser.flow.nonce = inFlight[q].nonce
                THEN [browser EXCEPT !.flow = NoFlow, !.stored = inFlight[q].token]
                ELSE browser
  /\ Put(q, Free)
  /\ UNCHANGED <<authClock, nonces, sessions>>

HearOther(q) ==
  /\ inFlight[q].kind \in {"logout", "call"} /\ inFlight[q].at = "done"
  /\ browser' = IF inFlight[q].kind = "logout"
                THEN [browser EXCEPT !.flow = NoFlow, !.stored = NoToken] ELSE browser
  /\ Put(q, Free)
  /\ UNCHANGED <<authClock, nonces, sessions>>

LoseRequest(q) ==
  /\ inFlight[q].kind \in {"verify", "logout"}
  /\ Put(q, Free)
  /\ browser' =
       CASE inFlight[q].kind = "logout" -> [browser EXCEPT !.flow = NoFlow, !.stored = NoToken]
         [] /\ inFlight[q].kind = "verify" /\ browser.flow.at = "verifying"
            /\ browser.flow.nonce = inFlight[q].nonce -> [browser EXCEPT !.flow = NoFlow]
         [] OTHER -> browser
  /\ UNCHANGED <<authClock, nonces, sessions>>

AuthTime ==
  /\ authClock < MaxClock /\ authClock' = authClock + 1
  /\ UNCHANGED <<nonces, sessions, inFlight, browser>>

PurgeExpiredAuth ==
  LET old(table) == {x \in DOMAIN table : table[x].expires < authClock - AuthRetain}
  IN /\ old(nonces) # {} \/ old(sessions) # {}
     /\ nonces' = Without(nonces, old(nonces))
     /\ sessions' = Without(sessions, old(sessions))
     /\ UNCHANGED <<authClock, inFlight, browser>>

SignInNext ==
  \/ \E wallet \in Wallets \cup {NoWallet} : SwitchAccount(wallet)
  \/ CreateChallenge \/ SignChallenge \/ DeclineChallenge \/ AuthTime \/ PurgeExpiredAuth
  \/ \E q \in ChallengeSlots :
        \/ SendVerify(q) \/ SendLogout(q) \/ SendCall(q)
        \/ CheckChallenge(q) \/ VerifyChallenge(q) \/ RevokeSession(q) \/ ServeCall(q)
        \/ HearVerify(q) \/ HearOther(q) \/ LoseRequest(q)

SignInSpec == SignInInit /\ [][SignInNext]_signVars

-----------------------------------------------------------------------------
(* "A valid signature presented twice is still rejected": however the copies  *)
(* of a verification interleave, a challenge issues one session, and the      *)
(* session is of the wallet it was issued to.                                 *)
OneSessionPerNonce ==
  /\ \A s, t \in DOMAIN sessions : sessions[s].nonce = sessions[t].nonce => s = t
  /\ \A s \in DOMAIN sessions :
        sessions[s].nonce \in DOMAIN nonces => nonces[sessions[s].nonce].owner = sessions[s].owner

(* "A wallet that switches accounts must not keep acting as the previous      *)
(* one": over sign-ins that end after a switch, expiries and sign-outs, a     *)
(* request acts for the wallet that was connected when it was sent.           *)
ActsAsConnected ==
  \A q \in ChallengeSlots :
    (inFlight[q].kind = "call" /\ inFlight[q].at = "done") => inFlight[q].acts = inFlight[q].body
=============================================================================
