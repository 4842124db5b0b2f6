--------------------------- MODULE ManifestToken ----------------------------
(***************************************************************************)
(* The signed tokens in the URLs of agent manifests                        *)
(* (internal/core/manifest_token.go).  A token carries whole seconds of    *)
(* the wall clock, which runs in ticks and is corrected now and then.  The *)
(* HMAC key is derived from the CA and is identified with it.  Tokens do   *)
(* not interact, so that one of them is followed.                          *)
(***************************************************************************)
EXTENDS WallClock

CONSTANTS TTL, ClockSkew   \* manifestTokenTTL and clockSkew, in seconds

ASSUME TokenAssumption == TTL \in Nat \ {0} /\ ClockSkew \in Nat

VARIABLE
    tokens   \* the token, if issued: [key, cluster, sub, iat, exp, born, shown];
             \* born (what the clock showed) and shown (the manifest that came
             \* with it) are history

tokenVars == <<now, tokens>>

TokenInit == ClockInit /\ tokens = {}
-----------------------------------------------------------------------------
\* Issue.
Issue(hmacKey, cluster, userName, manifest) ==
    /\ tokens' = {[key |-> hmacKey, cluster |-> cluster, sub |-> userName, iat |-> Unix(now),
                   exp |-> Unix(now + TTL * TicksPerSecond), born |-> now,
                   shown |-> manifest]}
    /\ UNCHANGED now

\* verifyDetailed: signature, expiry and issue time are in order.
Verify(t, hmacKey) ==
    /\ t.key = hmacKey
    /\ Unix(now) <= t.exp
    /\ t.iat <= Unix(now) + ClockSkew
    /\ Unix(now) - t.iat <= TTL + ClockSkew

\* The clock moves.
SetClock == ClockMoves /\ UNCHANGED tokens
-----------------------------------------------------------------------------
\* The age of a token in ticks, by the clock; negative after it was set back.
Age(t) == now - t.born

WithinTTL(t) == Age(t) \in (-ClockSkew * TicksPerSecond)..(TTL * TicksPerSecond)
=============================================================================
