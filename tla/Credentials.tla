------------------------------ MODULE Credentials ------------------------------
(***************************************************************************)
(* What the gateway keeps for a while of what others know: the OAuth2      *)
(* tokens of tools and the secrets behind references.                      *)
(***************************************************************************)
EXTENDS OAuthTokens, SecretCache

\* A token from the cache has not expired at its server, and is asked for
\* only when every token kept before is about to expire; a secret that was
\* replaced is not used by a call that begins the lifetime of the cache or
\* more later, however slow providers are and in whatever order calls store
\* what they got (OAuth2Provider.getToken, CompositeResolver.Resolve).
CredentialsAreCurrent == TokensAreCurrent /\ SecretsAreCurrent
=============================================================================
