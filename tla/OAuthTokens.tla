------------------------------ MODULE OAuthTokens ------------------------------
(***************************************************************************)
(* The OAuth2 tokens that the gateway fetches for tools.  A token is kept  *)
(* by its URL and client; a call reads it under the read lock and, when it *)
(* is missing or about to expire, fetches a new one while it holds the     *)
(* write lock, after a second look.  The token expires at its server from  *)
(* the time it was issued, and in the cache from the time it arrived.      *)
(***************************************************************************)
EXTENDS Integers, Sequences

CONSTANTS
    TokenCalls,
    OAuthTools,     \* tools that share a client
    ScopeOf(_),     \* scope in a tool's credential configuration
    Lives,          \* lifetimes that the server reports; 0 is none
    CacheTTL,       \* lifetime in the configuration
    Buffer,         \* tokenExpiryBuffer
    Timeout,        \* httpTimeout
    MaxTokenTime,
    MaxTokens,
    NoCall

ASSUME OAuthTokensAssumption ==
    /\ Lives \subseteq Nat /\ CacheTTL \in Nat \ {0}
    /\ Timeout \in Nat /\ Buffer \in Nat
    /\ Timeout <= Buffer
    /\ NoCall \notin TokenCalls \cup OAuthTools

VARIABLES
    tokenClock,
    tokenCache,     \* the cached token and its time of expiry
    writer,         \* holder of the write lock, or NoCall
    issued,         \* tokens of the server, in the order they were issued
    tokenCall

oauthVars == <<tokenClock, tokenCache, writer, issued, tokenCall>>

NoToken == [token |-> 0, expiresAt |-> 0]

\* A call at a step, with nothing found yet.
CallAt(pc, tool) == [pc |-> pc, tool |-> tool, got |-> 0, cached |-> FALSE, start |-> 0]

OAuthInit ==
    /\ tokenClock = 0
    /\ tokenCache = NoToken
    /\ writer = NoCall
    /\ issued = <<>>
    /\ tokenCall = [c \in TokenCalls |-> CallAt("idle", NoCall)]

FreshEnoughExact == tokenCache.token # 0 /\ tokenClock < tokenCache.expiresAt
FreshEnough == tokenCache.token # 0 /\ tokenClock < tokenCache.expiresAt - Buffer

ReturnToken(c, token, cached) ==
    tokenCall' = [tokenCall EXCEPT ![c].pc = "done", ![c].got = token, ![c].cached = cached]

GetToken(c, tool) ==
    /\ tokenCall[c].pc \in {"idle", "done"}
    /\ tokenCall' = [tokenCall EXCEPT ![c] = CallAt("read", tool)]
    /\ UNCHANGED <<tokenClock, tokenCache, writer, issued>>

\* Readers wait for the writer, and so for its fetch.
ReadCache(c) ==
    /\ tokenCall[c].pc = "read" /\ writer = NoCall
    /\ IF FreshEnough THEN ReturnToken(c, tokenCache.token, TRUE)
       ELSE tokenCall' = [tokenCall EXCEPT ![c].pc = "lock"]
    /\ UNCHANGED <<tokenClock, tokenCache, writer, issued>>

LockAndFetchBlind(c) ==
    /\ tokenCall[c].pc = "lock" /\ writer = NoCall
    /\ writer' = c
    /\ tokenCall' = [tokenCall EXCEPT ![c].pc = "ask", ![c].start = tokenClock]
    /\ UNCHANGED <<tokenClock, tokenCache, issued>>
LockAndFetch(c) ==
    /\ tokenCall[c].pc = "lock" /\ writer = NoCall
    /\ IF FreshEnough THEN ReturnToken(c, tokenCache.token, TRUE) /\ UNCHANGED writer
       ELSE /\ writer' = c
            /\ tokenCall' = [tokenCall EXCEPT ![c].pc = "ask", ![c].start = tokenClock]
    /\ UNCHANGED <<tokenClock, tokenCache, issued>>

\* The server, external.
Issue(c) ==
    /\ tokenCall[c].pc = "ask" /\ Len(issued) < MaxTokens
    /\ \E life \in Lives :
         issued' = Append(issued, [at |-> tokenClock, life |-> life, kept |-> {},
                                   scope |-> ScopeOf(tokenCall[c].tool),
                                   asked |-> tokenCall[c].start])
    /\ tokenCall' = [tokenCall EXCEPT ![c].pc = "receive", ![c].got = Len(issued) + 1]
    /\ UNCHANGED <<tokenClock, tokenCache, writer>>

\* The shorter of the configured and the reported lifetime, from now.
Receive(c) ==
    LET life == issued[tokenCall[c].got].life
        ttl == IF life > 0 /\ life < CacheTTL THEN life ELSE CacheTTL
    IN  /\ tokenCall[c].pc = "receive"
        /\ tokenCache' = [token |-> tokenCall[c].got, expiresAt |-> tokenClock + ttl]
        /\ issued' = [issued EXCEPT ![tokenCall[c].got].kept = {tokenClock + ttl}]
        /\ writer' = NoCall
        /\ ReturnToken(c, tokenCall[c].got, FALSE)
        /\ UNCHANGED tokenClock

\* No connection, another status, an empty token, or the time is over.
FetchFailsLocked(c) ==
    /\ tokenCall[c].pc \in {"ask", "receive"}
    /\ ReturnToken(c, 0, FALSE)
    /\ UNCHANGED <<tokenClock, tokenCache, writer, issued>>
FetchFails(c) ==
    /\ tokenCall[c].pc \in {"ask", "receive"}
    /\ writer' = NoCall
    /\ ReturnToken(c, 0, FALSE)
    /\ UNCHANGED <<tokenClock, tokenCache, issued>>

\* The client gives up when the time of a fetch is over.
TokenTick ==
    /\ tokenClock < MaxTokenTime
    /\ \A c \in TokenCalls :
         tokenCall[c].pc \in {"ask", "receive"} => tokenClock < tokenCall[c].start + Timeout
    /\ tokenClock' = tokenClock + 1
    \* What a call got, it has used before.
    /\ tokenCall' = [c \in TokenCalls |->
                       IF tokenCall[c].pc = "done" THEN [tokenCall[c] EXCEPT !.pc = "idle"]
                       ELSE tokenCall[c]]
    /\ UNCHANGED <<tokenCache, writer, issued>>

OAuthNext ==
    \/ TokenTick
    \/ \E c \in TokenCalls :
         \/ \E tool \in OAuthTools : GetToken(c, tool)
         \/ ReadCache(c) \/ LockAndFetch(c) \/ Issue(c) \/ Receive(c) \/ FetchFails(c)

OAuthSpec == OAuthInit /\ [][OAuthNext]_oauthVars

\* A fetch ends, by its answer or by the time limit, and calls go on.  A
\* reader that waits is admitted when the writer unlocks, and a writer is not
\* overtaken by later readers: sync.RWMutex.
OAuthFairness ==
    /\ WF_oauthVars(TokenTick)
    /\ \A c \in TokenCalls :
         /\ SF_oauthVars(ReadCache(c))
         /\ SF_oauthVars(LockAndFetch(c))
         /\ WF_oauthVars(Receive(c) \/ FetchFails(c))
OAuthFairSpec == OAuthSpec /\ OAuthFairness

-----------------------------------------------------------------------------
(* Properties. *)

\* A token from the cache has not expired at its server, although its time
\* there began before it arrived: a fetch takes no longer than the buffer.
CachedTokenIsLive ==
    \A c \in TokenCalls : tokenCall[c].pc = "done" /\ tokenCall[c].cached =>
        LET t == issued[tokenCall[c].got] IN t.life = 0 \/ tokenClock < t.at + t.life

\* Calls that miss together share one fetch: a token is asked for only when
\* every token that was kept before is about to expire.
NoNeedlessFetch ==
    \A i, j \in DOMAIN issued : i < j =>
        \A end \in issued[i].kept : issued[j].asked >= end - Buffer

\* A token from the cache has not expired at its server, and is asked for
\* only when every token kept before is about to expire
\* (OAuth2Provider.getToken).
TokensAreCurrent == CachedTokenIsLive /\ NoNeedlessFetch

\* A call that begins is answered, however many wait for the same fetch.
CallEnds == \A c \in TokenCalls : []<>(tokenCall[c].pc \in {"done", "idle"})

\* internal/credential/resolver.go: "Resolve returns the credential for a tool
\* based on its auth type and credential config."  The configuration names a
\* scope, and the token that is returned was issued for it.
TokenHasScope ==
    \A c \in TokenCalls : tokenCall[c].pc = "done" /\ tokenCall[c].got # 0 =>
        issued[tokenCall[c].got].scope = ScopeOf(tokenCall[c].tool)
=============================================================================
