----------------------------- MODULE MCPipeline -----------------------------
(* Small instances of Pipeline for TLC.                                    *)
EXTENDS Pipeline, TLC

CONSTANTS w1, w2   \* producers

TwoPlans      == {1, 2}
OneWindowEach == (1 :> 1) @@ (2 :> 1)
SharedToken   == (1 :> {1}) @@ (2 :> {1})
TwoChunks     == (w1 :> <<1>>) @@ (w2 :> <<2>>)

\* One producer: two files that share a token, in batches of one.
TwoTokens     == (1 :> {1, 2}) @@ (2 :> {1})
OneChunk      == w1 :> <<1, 2>>

=============================================================================
