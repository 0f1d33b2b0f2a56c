--------------------------- MODULE AdfsValidation ---------------------------
(***************************************************************************)
(* ADAuthorityValidation for AD FS authorities.  The contract of the       *)
(* user's domain is looked for on its premises and then in the cloud; it   *)
(* names an endpoint that is asked, by WebFinger, whether the domain trusts *)
(* the authority.  Trusted authorities are kept in a dictionary of sets,   *)
(* one for each domain.                                                    *)
(*                                                                         *)
(* Nothing guards the dictionary.  Callers read it on their own threads,   *)
(* and each WebFinger answer is put into it on the queue of its own        *)
(* session, in three statements that are three steps here.  Two accesses   *)
(* of which one writes are a data race: each takes effect, or the process  *)
(* crashes (a container mutated while it is read).                         *)
(***************************************************************************)
CONSTANTS
    Callers,      \* calls of -checkAuthority:validateAuthority:completionBlock:
    Domains,      \* UPN suffixes
    Authorities,  \* AD FS authorities
    DomainOf,     \* the UPN suffix of each caller's user
    AuthorityOf,  \* the authority each caller asks about
    None          \* nil

ASSUME NoneAssumption == None \notin Callers
ASSUME DomainOfAssumption == DomainOf \in [Callers -> Domains]
ASSUME AuthorityOfAssumption == AuthorityOf \in [Callers -> Authorities]

VARIABLES
    validated,  \* _validatedAdfsAuthorities: the set object of each domain,
                \* named by the caller that created it
    members,    \* what is in the set object each caller has created
    pc,         \* where each caller is
    authorities, \* the local variable of addValidAuthority:domain:
    result,     \* what the completion block was called with
    trusts,     \* the authorities each domain trusts, as WebFinger knows
    crashed     \* the process has crashed

vars == <<validated, members, pc, authorities, result, trusts, crashed>>

\* "failed" is NO with an error, "skipped" NO without one.
Results == {"none", "valid", "failed", "skipped"}

Locations == {"idle", "onPrems", "cloud", "webFinger", "fetching", "inserting",
              "joining", "done"}

TypeOK ==
    /\ validated \in [Domains -> Callers \union {None}]
    /\ members \in [Callers -> SUBSET Authorities]
    /\ pc \in [Callers -> Locations]
    /\ authorities \in [Callers -> Callers \union {None}]
    /\ result \in [Callers -> Results]
    /\ trusts \in [Domains -> SUBSET Authorities]
    /\ crashed \in BOOLEAN

Init ==
    /\ validated = [d \in Domains |-> None]
    /\ members = [c \in Callers |-> {}]
    /\ pc = [c \in Callers |-> "idle"]
    /\ authorities = [c \in Callers |-> None]
    /\ result = [c \in Callers |-> "none"]
    /\ trusts \in [Domains -> SUBSET Authorities]
    /\ crashed = FALSE

-----------------------------------------------------------------------------
Goto(c, location) ==
    /\ pc' = [pc EXCEPT ![c] = location]
    /\ UNCHANGED result

Complete(c, r) ==
    /\ pc' = [pc EXCEPT ![c] = "done"]
    /\ result' = [result EXCEPT ![c] = r]

\* What is cached for a domain.
Cached(d) == IF validated[d] = None THEN {} ELSE members[validated[d]]

\* Mutant: the domain does not matter.
IsAuthorityValidated_AnyDomain(c) ==
    \E d \in Domains : AuthorityOf[c] \in Cached(d)

IsAuthorityValidated(c) == AuthorityOf[c] \in Cached(DomainOf[c])

-----------------------------------------------------------------------------
\* The authority is not one, or the user has no UPN suffix.
BadArgument(c) ==
    /\ ~crashed /\ pc[c] = "idle"
    /\ Complete(c, "failed")
    /\ UNCHANGED <<validated, members, authorities, trusts, crashed>>

\* The caller does not validate.
SkipValidation(c) ==
    /\ ~crashed /\ pc[c] = "idle"
    /\ Complete(c, "skipped")
    /\ UNCHANGED <<validated, members, authorities, trusts, crashed>>

FindValidated(c) ==
    /\ ~crashed /\ pc[c] = "idle"
    /\ IsAuthorityValidated(c)
    /\ Complete(c, "valid")
    /\ UNCHANGED <<validated, members, authorities, trusts, crashed>>

\* DRS discovery begins with the domain's own premises.
RequestDrsDiscovery(c) ==
    /\ ~crashed /\ pc[c] = "idle"
    /\ ~IsAuthorityValidated(c)
    /\ Goto(c, "onPrems")
    /\ UNCHANGED <<validated, members, authorities, trusts, crashed>>

\* No answer from the premises: the cloud is asked.
OnPremsFails(c) ==
    /\ ~crashed /\ pc[c] = "onPrems"
    /\ Goto(c, "cloud")
    /\ UNCHANGED <<validated, members, authorities, trusts, crashed>>

\* A contract that names a passive endpoint.
FindEndpoint(c) ==
    /\ ~crashed /\ pc[c] \in {"onPrems", "cloud"}
    /\ Goto(c, "webFinger")
    /\ UNCHANGED <<validated, members, authorities, trusts, crashed>>

\* A contract that names none, or no answer from the cloud.  After a contract
\* from the premises the cloud is not asked.
NoEndpoint(c) ==
    /\ ~crashed /\ pc[c] \in {"onPrems", "cloud"}
    /\ Complete(c, "failed")
    /\ UNCHANGED <<validated, members, authorities, trusts, crashed>>

\* isRealmTrustedFromWebFingerPayload: finds the authority among the links.
IsRealmTrusted(c) == AuthorityOf[c] \in trusts[DomainOf[c]]

\* WebFinger says that the domain trusts the authority.
Trusted(c) ==
    /\ ~crashed /\ pc[c] = "webFinger"
    /\ IsRealmTrusted(c)
    /\ Goto(c, "fetching")
    /\ UNCHANGED <<validated, members, authorities, trusts, crashed>>

\* WebFinger says something else, or nothing.
NotTrusted(c) ==
    /\ ~crashed /\ pc[c] = "webFinger"
    /\ Complete(c, "failed")
    /\ UNCHANGED <<validated, members, authorities, trusts, crashed>>

-----------------------------------------------------------------------------
(* addValidAuthority:domain: *)

\* The set of the domain, if there is one.
FetchSet(c) ==
    /\ ~crashed /\ pc[c] = "fetching"
    /\ authorities' = [authorities EXCEPT ![c] = validated[DomainOf[c]]]
    /\ Goto(c, IF validated[DomainOf[c]] = None THEN "inserting" ELSE "joining")
    /\ UNCHANGED <<validated, members, trusts, crashed>>

\* There was none: a new one takes its place.
InsertSet(c) ==
    /\ ~crashed /\ pc[c] = "inserting"
    /\ validated' = [validated EXCEPT ![DomainOf[c]] = c]
    /\ authorities' = [authorities EXCEPT ![c] = c]
    /\ Goto(c, "joining")
    /\ UNCHANGED <<members, trusts, crashed>>

AddObject(c) ==
    /\ ~crashed /\ pc[c] = "joining"
    /\ members' = [members EXCEPT ![authorities[c]] = @ \union {AuthorityOf[c]}]
    /\ Complete(c, "valid")
    /\ UNCHANGED <<validated, authorities, trusts, crashed>>

\* One is about to put something into the dictionary or into a set, another one
\* to read or change the same container.
Racing(c, d) ==
    \/ pc[c] = "inserting" /\ pc[d] \in {"idle", "fetching", "inserting"}
    \/ pc[c] = "joining" /\ pc[d] = "joining" /\ authorities[c] = authorities[d]
    \/ pc[c] = "joining" /\ pc[d] = "idle" /\ validated[DomainOf[d]] = authorities[c]

Crash ==
    /\ ~crashed
    /\ \E c, d \in Callers : c # d /\ Racing(c, d)
    /\ crashed' = TRUE
    /\ UNCHANGED <<validated, members, pc, authorities, result, trusts>>

-----------------------------------------------------------------------------
Begin(c) ==
    BadArgument(c) \/ SkipValidation(c) \/ FindValidated(c) \/ RequestDrsDiscovery(c)

Step(c) ==
    \/ OnPremsFails(c) \/ FindEndpoint(c) \/ NoEndpoint(c)
    \/ Trusted(c) \/ NotTrusted(c)
    \/ FetchSet(c) \/ InsertSet(c) \/ AddObject(c)

Next == (\E c \in Callers : Begin(c) \/ Step(c)) \/ Crash

Spec == Init /\ [][Next]_vars

-----------------------------------------------------------------------------
\* acquireToken: goes on whenever there is no error, whatever "validated" says:
\* so a caller who validates and is given no error has an authority its user's
\* domain trusts, whichever caller found that out.
NoErrorMeansTrusted ==
    \A c \in Callers : result[c] = "valid" => AuthorityOf[c] \in trusts[DomainOf[c]]

\* What the dictionary holds for a domain, the domain trusts, however the
\* callers that put it there overlapped (addValidAuthority:domain:).
CachedIsTrusted == \A d \in Domains : Cached(d) \subseteq trusts[d]

\* A set object is shared only by callers of one domain, and a caller that adds
\* to it has been told that its authority is trusted.
SetsAreOfDomains ==
    /\ \A d \in Domains : validated[d] # None => DomainOf[validated[d]] = d
    /\ \A c \in Callers :
         /\ authorities[c] # None => DomainOf[authorities[c]] = DomainOf[c]
         /\ members[c] \subseteq trusts[DomainOf[c]]
         /\ pc[c] = "joining" => authorities[c] # None
         /\ pc[c] \in {"fetching", "inserting", "joining"} =>
              AuthorityOf[c] \in trusts[DomainOf[c]]

\* The inductive invariant.
IInv == TypeOK /\ SetsAreOfDomains /\ NoErrorMeansTrusted

=============================================================================
