---------------------------- MODULE EngineClaims ----------------------------
(***************************************************************************)
(* What documents, comments and tests of the repository say of the         *)
(* fallback engine and what its code does not do.  Each is checked by a    *)
(* run that expects a counterexample.                                      *)
(***************************************************************************)
EXTENDS FallbackEngine

\* docs/SPEC.md:108 and tests/test_fallback.py:149: the cooldown of a provider
\* (DEGRADED after a network or server failure) is seen by all of its keys.
ProviderCooldownVisible ==
    \A c \in Routed :
       store.health[<<c.provider, NoModel>>].left > 0 => ~Eligible(store, c)

=============================================================================
