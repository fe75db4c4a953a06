----------------------------- MODULE MerchantAuth -----------------------------
(***************************************************************************)
(* The authentication of merchants (backend/src/auth.ts): a challenge      *)
(* stores a nonce for a public key, a signature of that nonce is exchanged *)
(* for a token, and a token opens the merchant routes until it expires.    *)
(* The nonces, and the secret when none is configured, live in the memory  *)
(* of the process.  The handlers are synchronous: each is one step.        *)
(*                                                                         *)
(* A signature is the nonce it signs, a token the fields of its payload    *)
(* with the secret that signed it; both are unforgeable.                   *)
(***************************************************************************)
EXTENDS Integers, FiniteSets

CONSTANTS Key,               \* merchants' public keys
          NonceTTL,          \* NONCE_TTL_MS
          JwtExpiry,         \* JWT_EXPIRY_SECONDS
          SecretConfigured,  \* JWT_SECRET is set
          MaxTime            \* bound: the last time of the clock

ASSUME AuthAssumption ==
    /\ NonceTTL \in Nat /\ JwtExpiry \in Nat /\ MaxTime \in Nat
    /\ SecretConfigured \in BOOLEAN

VARIABLES now,       \* the clock
          nonces,    \* nonceStore: entries of this process, by key
          issued,    \* history: the nonces answered to each key
          tokens,    \* history: the tokens answered
          process    \* which incarnation of the process runs

auth == <<now, nonces, issued, tokens, process>>

NoEntry == [nonce |-> 0, expiresAt |-> 0]

Entry == [nonce : Nat, expiresAt : Nat]

Token == [seq : Nat, sub : Key, exp : Nat, nonce : Nat, secret : Nat]

AuthTypeOK ==
    /\ now \in 0..MaxTime
    /\ nonces \in [Key -> Entry]
    /\ issued \in [Key -> SUBSET Nat]
    /\ tokens \in SUBSET Token
    /\ process \in Nat

AuthInit ==
    /\ now = 0
    /\ nonces = [k \in Key |-> NoEntry]
    /\ issued = [k \in Key |-> {}]
    /\ tokens = {}
    /\ process = 0

AuthTick ==
    /\ now < MaxTime
    /\ now' = now + 1
    /\ UNCHANGED <<nonces, issued, tokens, process>>

FreshNonce == 1 + Cardinality(UNION {issued[k] : k \in Key})

\* pruneExpiredNonces, then the new nonce replaces the one of the key
Challenge(key) ==
    /\ nonces' = [k \in Key |->
           IF k = key THEN [nonce |-> FreshNonce, expiresAt |-> now + NonceTTL]
           ELSE IF nonces[k].expiresAt < now THEN NoEntry ELSE nonces[k]]
    /\ issued' = [issued EXCEPT ![key] = @ \cup {FreshNonce}]
    /\ UNCHANGED <<now, tokens, process>>

Secret == IF SecretConfigured THEN 0 ELSE process

\* The entry is there and current, and the signature is of its nonce
SignatureAccepted(key, signed) ==
    /\ nonces[key] # NoEntry
    /\ nonces[key].expiresAt >= now
    /\ signed = nonces[key].nonce

Sign(key) ==
    [seq |-> Cardinality(tokens), sub |-> key, exp |-> now + JwtExpiry,
     nonce |-> nonces[key].nonce, secret |-> Secret]

\* mutant: the nonce is not consumed
VerifyKeepsNonce(key, signed) ==
    /\ SignatureAccepted(key, signed)
    /\ tokens' = tokens \cup {Sign(key)}
    /\ UNCHANGED <<now, nonces, issued, process>>

\* The nonce is consumed and a token answered
Verify(key, signed) ==
    /\ SignatureAccepted(key, signed)
    /\ nonces' = [nonces EXCEPT ![key] = NoEntry]
    /\ tokens' = tokens \cup {Sign(key)}
    /\ UNCHANGED <<now, issued, process>>

\* verifyJwt, in requireAuth
TokenAccepted(t) == t.secret = Secret /\ ~(t.exp < now)

\* The memory of the process goes with it
ForgetAuth ==
    /\ process' = process + 1
    /\ nonces' = [k \in Key |-> NoEntry]
    /\ UNCHANGED <<now, issued, tokens>>

-----------------------------------------------------------------------------
(* Properties *)

\* One signature buys one token, however requests for one key interleave and
\* whenever the process restarts (verifyHandler, "Consume nonce (one-time
\* use)"); and the nonce was issued to the token's key
OneTokenPerNonce ==
    \A t \in tokens :
        /\ t.nonce \in issued[t.sub]
        /\ \A other \in tokens : other.nonce = t.nonce => other = t
=============================================================================
