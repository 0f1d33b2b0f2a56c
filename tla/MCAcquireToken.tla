--------------------------- MODULE MCAcquireToken ---------------------------
(* Instances of AcquireToken for TLC. *)
EXTENDS AcquireToken, TLC

\* One entry point of each kind, the one that takes the most, with the faults
\* it is tried with: each fault once, a missing resource where it matters.
FaultsUsed == [api \in {"6", "133", "10", "136"} |->
    CASE api = "6"   -> {"assertion", "resource"}
      [] api = "133" -> {"resource", "query", "duplicateClaims"}
      [] api = "10"  -> {"claims"}
      [] api = "136" -> {"refreshToken", "clientId"}]

EntriesUsed == {e \in Entries : e.api \in DOMAIN FaultsUsed}

\* Calls without a fault: what only an interactive call looks at varies for
\* those alone.  Calls with one: the fault is all that varies.
CallsUsed ==
    {c \in [entry: EntriesUsed, prompt: {"AUTO", "ALWAYS"}, fault: {"none"},
            mainThread: BOOLEAN, redirect: BOOLEAN] :
        /\ PossibleCall(c)
        /\ c.entry \notin InteractiveEntries => c.mainThread /\ ~c.redirect
        /\ ~c.mainThread => c.prompt = "AUTO" /\ c.redirect}
    \union
    {c \in [entry: EntriesUsed, prompt: {"AUTO"}, fault: Faults,
            mainThread: {TRUE}, redirect: {FALSE}] :
        c.fault \in FaultsUsed[c.entry.api]}

\* With and without a webview of the app, where the broker is not wanted; the
\* broker wanted, and ruled out or not by the authority.
SettingsUsed == {s \in Context :
    \/ s.credentialsType = "EMBEDDED" /\ s.validateAuthority
    \/ s.credentialsType = "AUTO" /\ s.webView}
=============================================================================
