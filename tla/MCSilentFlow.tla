---------------------------- MODULE MCSilentFlow ----------------------------
(***************************************************************************)
(* SilentFlow for TLC, with the authority it is about: AAD, which issues   *)
(* MRRTs, or an ADFS server, which does not.  The constants of the cfg are *)
(* those of AAD; with ADFS there is one token less, and the calls have     *)
(* every option.                                                           *)
(***************************************************************************)
EXTENDS SilentFlow

VARIABLE authority

allVars == <<vars, authority>>

\* The calls do not differ in what they ask for.
Plain == {[forceRefresh |-> FALSE, extendedLifetime |-> FALSE]}

\* Tokens, and the answers after which a call goes on to the next token.
ControlAnswers == {"tokens", "invalidGrant", "policy"}

\* Tokens, an answer that removes the token used, and two that do not.
SomeAnswers == {"tokens", "invalidGrant", "oauthError", "failure"}

Adfs ==
    INSTANCE SilentFlow WITH
        MultiResource <- FALSE, InitialTokens <- 1, MaxToken <- 2,
        OptionsAsked <- Options, PossibleAnswers <- SomeAnswers

MCInit == (authority = "aad" /\ Init) \/ (authority = "adfs" /\ Adfs!Init)

MCNext ==
    /\ (authority = "aad" /\ Next) \/ (authority = "adfs" /\ Adfs!Next)
    /\ UNCHANGED authority

MCStep(h) ==
    /\ (authority = "aad" /\ Step(h)) \/ (authority = "adfs" /\ Adfs!Step(h))
    /\ UNCHANGED authority

MCSpec == MCInit /\ [][MCNext]_allVars /\ \A h \in Handlers : WF_allVars(MCStep(h))
=============================================================================
