---------------------------- MODULE MCAgentQuery ----------------------------
(* AgentQuery for TLC: two users with ordinary tokens, and tokens the issuer *)
(* gave fewer scopes.                                                        *)
EXTENDS AgentQuery, TLC

CONSTANTS ada, bob, adaToken, bobToken, narrowToken, barredToken

\* Each user has an ordinary token and one that /agent/query refuses.
TokenSub == (adaToken :> ada) @@ (bobToken :> bob)
            @@ (narrowToken :> ada) @@ (barredToken :> bob)

TokenScope == (adaToken :> Scopes) @@ (bobToken :> Scopes)
              @@ (narrowToken :> Scopes \ {"ai:agent"})
              @@ (barredToken :> Scopes \ {"ai:agent"})

\* Without the scope of search_documents, and without that of the transport.
ScarceSub == (adaToken :> ada) @@ (narrowToken :> ada) @@ (barredToken :> bob)

ScarceScope == (adaToken :> Scopes)
               @@ (narrowToken :> {"mcp:invoke", "documents:read"})
               @@ (barredToken :> Scopes \ {"mcp:invoke"})

\* The two users of TokenSub change places, each with the tokens.
Swap == (ada :> bob) @@ (bob :> ada)
        @@ (adaToken :> bobToken) @@ (bobToken :> adaToken)
        @@ (narrowToken :> barredToken) @@ (barredToken :> narrowToken)

\* Queries, calls and users with the same scopes are interchangeable.
Symmetry == Permutations(Queries) \cup Permutations(Calls) \cup {Swap}

=============================================================================
