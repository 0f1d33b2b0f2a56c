------------------------ MODULE AdfsValidationProofs ------------------------
(***************************************************************************)
(* Theorems about AdfsValidation, for any number of callers, domains and   *)
(* authorities and whatever each domain trusts.                            *)
(*                                                                         *)
(* IInv is inductive.  What carries it is SetsAreOfDomains: a set object is *)
(* reachable only from callers of one domain, so that adding to it, late    *)
(* and to an object that may have been replaced since, cannot put an        *)
(* authority under a domain that does not trust it.                         *)
(***************************************************************************)
EXTENDS AdfsValidation, TLAPS

\* At the start nothing is cached and nobody has been answered.
LEMMA InitIInv == Init => IInv
BY DomainOfAssumption, AuthorityOfAssumption
   DEF Init, IInv, TypeOK, SetsAreOfDomains, NoErrorMeansTrusted, Results, Locations

-----------------------------------------------------------------------------
\* An action that only moves one caller, neither into addValidAuthority:domain:
\* nor out of it, and that passes it only if its domain trusts its authority.
LEMMA MoveIInv ==
    ASSUME IInv, NEW c \in Callers, NEW location \in Locations, NEW r \in Results,
           pc' = [pc EXCEPT ![c] = location],
           result' = [result EXCEPT ![c] = r],
           location # "joining",
           location \in {"fetching", "inserting"} =>
               AuthorityOf[c] \in trusts[DomainOf[c]],
           r = "valid" => AuthorityOf[c] \in trusts[DomainOf[c]],
           UNCHANGED <<validated, members, authorities, trusts, crashed>>
    PROVE  IInv'
<1> USE DEF IInv
<1>1. TypeOK'
  BY DEF TypeOK
<1>2. SetsAreOfDomains'
  BY DEF TypeOK, SetsAreOfDomains
<1>3. NoErrorMeansTrusted'
  BY DEF TypeOK, NoErrorMeansTrusted
<1> QED BY <1>1, <1>2, <1>3

\* What is cached for a domain, the domain trusts: the set is one that a caller
\* of this domain has created, and those hold only what the domain trusts.
LEMMA CachedTrusted == IInv => CachedIsTrusted
BY DomainOfAssumption, NoneAssumption
   DEF IInv, TypeOK, SetsAreOfDomains, CachedIsTrusted, Cached

-----------------------------------------------------------------------------
\* Every call begins with an action that touches no container.
LEMMA BeginIInv ==
    ASSUME IInv, NEW c \in Callers, Begin(c)
    PROVE  IInv'
<1> USE DEF Locations, Results
<1>t. TypeOK
  BY DEF IInv
<1>1. CASE BadArgument(c)
  <2>1. /\ pc' = [pc EXCEPT ![c] = "done"]
        /\ result' = [result EXCEPT ![c] = "failed"]
        /\ UNCHANGED <<validated, members, authorities, trusts, crashed>>
    BY <1>1 DEF BadArgument, Complete
  <2> QED BY <2>1, MoveIInv
<1>2. CASE SkipValidation(c)
  <2>1. /\ pc' = [pc EXCEPT ![c] = "done"]
        /\ result' = [result EXCEPT ![c] = "skipped"]
        /\ UNCHANGED <<validated, members, authorities, trusts, crashed>>
    BY <1>2 DEF SkipValidation, Complete
  <2> QED BY <2>1, MoveIInv
<1>3. CASE FindValidated(c)
  <2>1. /\ pc' = [pc EXCEPT ![c] = "done"]
        /\ result' = [result EXCEPT ![c] = "valid"]
        /\ UNCHANGED <<validated, members, authorities, trusts, crashed>>
    BY <1>3 DEF FindValidated, Complete
  <2>2. AuthorityOf[c] \in trusts[DomainOf[c]]
    BY <1>3, CachedTrusted, DomainOfAssumption
       DEF FindValidated, IsAuthorityValidated, CachedIsTrusted
  <2> QED BY <2>1, <2>2, MoveIInv
<1>4. CASE RequestDrsDiscovery(c)
  <2>1. /\ pc' = [pc EXCEPT ![c] = "onPrems"]
        /\ result' = [result EXCEPT ![c] = result[c]]
        /\ UNCHANGED <<validated, members, authorities, trusts, crashed>>
    BY <1>4, <1>t DEF RequestDrsDiscovery, Goto, TypeOK
  <2>2. result[c] \in Results /\ (result[c] = "valid" => AuthorityOf[c] \in trusts[DomainOf[c]])
    BY <1>t DEF IInv, TypeOK, NoErrorMeansTrusted
  <2> QED BY <2>1, <2>2, MoveIInv
<1> QED BY <1>1, <1>2, <1>3, <1>4 DEF Begin

\* Discovery and WebFinger touch no container either.
LEMMA DiscoveryIInv ==
    ASSUME IInv, NEW c \in Callers,
           OnPremsFails(c) \/ FindEndpoint(c) \/ NoEndpoint(c) \/ Trusted(c) \/ NotTrusted(c)
    PROVE  IInv'
<1> USE DEF Locations, Results
<1>t. TypeOK
  BY DEF IInv
<1>r. result[c] \in Results /\ (result[c] = "valid" => AuthorityOf[c] \in trusts[DomainOf[c]])
  BY <1>t DEF IInv, TypeOK, NoErrorMeansTrusted
<1>1. CASE OnPremsFails(c)
  <2>1. /\ pc' = [pc EXCEPT ![c] = "cloud"]
        /\ result' = [result EXCEPT ![c] = result[c]]
        /\ UNCHANGED <<validated, members, authorities, trusts, crashed>>
    BY <1>1, <1>t DEF OnPremsFails, Goto, TypeOK
  <2> QED BY <2>1, <1>r, MoveIInv
<1>2. CASE FindEndpoint(c)
  <2>1. /\ pc' = [pc EXCEPT ![c] = "webFinger"]
        /\ result' = [result EXCEPT ![c] = result[c]]
        /\ UNCHANGED <<validated, members, authorities, trusts, crashed>>
    BY <1>2, <1>t DEF FindEndpoint, Goto, TypeOK
  <2> QED BY <2>1, <1>r, MoveIInv
<1>3. CASE NoEndpoint(c)
  <2>1. /\ pc' = [pc EXCEPT ![c] = "done"]
        /\ result' = [result EXCEPT ![c] = "failed"]
        /\ UNCHANGED <<validated, members, authorities, trusts, crashed>>
    BY <1>3 DEF NoEndpoint, Complete
  <2> QED BY <2>1, MoveIInv
<1>4. CASE Trusted(c)
  <2>1. /\ pc' = [pc EXCEPT ![c] = "fetching"]
        /\ result' = [result EXCEPT ![c] = result[c]]
        /\ UNCHANGED <<validated, members, authorities, trusts, crashed>>
    BY <1>4, <1>t DEF Trusted, Goto, TypeOK
  <2>2. AuthorityOf[c] \in trusts[DomainOf[c]]
    BY <1>4 DEF Trusted, IsRealmTrusted
  <2> QED BY <2>1, <2>2, <1>r, MoveIInv
<1>5. CASE NotTrusted(c)
  <2>1. /\ pc' = [pc EXCEPT ![c] = "done"]
        /\ result' = [result EXCEPT ![c] = "failed"]
        /\ UNCHANGED <<validated, members, authorities, trusts, crashed>>
    BY <1>5 DEF NotTrusted, Complete
  <2> QED BY <2>1, MoveIInv
<1> QED BY <1>1, <1>2, <1>3, <1>4, <1>5

-----------------------------------------------------------------------------
\* The domain's set is read: it was created by a caller of this domain.
LEMMA FetchSetIInv ==
    ASSUME IInv, NEW c \in Callers, FetchSet(c)
    PROVE  IInv'
<1> DEFINE location == IF validated[DomainOf[c]] = None THEN "inserting" ELSE "joining"
<1>1. TypeOK /\ SetsAreOfDomains /\ NoErrorMeansTrusted /\ DomainOf[c] \in Domains
  BY DomainOfAssumption DEF IInv
<1>2. /\ pc[c] = "fetching"
      /\ authorities' = [authorities EXCEPT ![c] = validated[DomainOf[c]]]
      /\ pc' = [pc EXCEPT ![c] = location]
      /\ UNCHANGED <<result, validated, members, trusts, crashed>>
  BY DEF FetchSet, Goto
<1>3. location \in {"inserting", "joining"}
      /\ (location = "joining" => validated[DomainOf[c]] # None)
  OBVIOUS
<1> HIDE DEF location
<1>4. TypeOK'
  BY <1>1, <1>2, <1>3 DEF TypeOK, Locations
<1>5. SetsAreOfDomains'
  <2>1. ASSUME NEW d \in Domains, validated'[d] # None
        PROVE  DomainOf[validated'[d]] = d
    BY <1>1, <1>2, <2>1 DEF SetsAreOfDomains
  <2>2. ASSUME NEW x \in Callers
        PROVE  /\ authorities'[x] # None => DomainOf[authorities'[x]] = DomainOf[x]
               /\ members'[x] \subseteq trusts'[DomainOf[x]]
               /\ pc'[x] = "joining" => authorities'[x] # None
               /\ pc'[x] \in {"fetching", "inserting", "joining"} =>
                    AuthorityOf[x] \in trusts'[DomainOf[x]]
    BY <1>1, <1>2, <1>3 DEF SetsAreOfDomains, TypeOK
  <2> QED BY <2>1, <2>2 DEF SetsAreOfDomains
<1>6. NoErrorMeansTrusted'
  BY <1>1, <1>2 DEF NoErrorMeansTrusted
<1> QED BY <1>4, <1>5, <1>6 DEF IInv

\* A new set takes the place of what is there, for the caller's own domain.
LEMMA InsertSetIInv ==
    ASSUME IInv, NEW c \in Callers, InsertSet(c)
    PROVE  IInv'
<1>1. TypeOK /\ SetsAreOfDomains /\ NoErrorMeansTrusted /\ DomainOf[c] \in Domains
  BY DomainOfAssumption DEF IInv
<1>2. /\ pc[c] = "inserting"
      /\ validated' = [validated EXCEPT ![DomainOf[c]] = c]
      /\ authorities' = [authorities EXCEPT ![c] = c]
      /\ pc' = [pc EXCEPT ![c] = "joining"]
      /\ UNCHANGED <<result, members, trusts, crashed>>
  BY DEF InsertSet, Goto
<1>3. TypeOK'
  BY <1>1, <1>2 DEF TypeOK, Locations
<1>4. SetsAreOfDomains'
  <2>1. ASSUME NEW d \in Domains, validated'[d] # None
        PROVE  DomainOf[validated'[d]] = d
    BY <1>1, <1>2, <2>1 DEF SetsAreOfDomains, TypeOK
  <2>2. ASSUME NEW x \in Callers
        PROVE  /\ authorities'[x] # None => DomainOf[authorities'[x]] = DomainOf[x]
               /\ members'[x] \subseteq trusts'[DomainOf[x]]
               /\ pc'[x] = "joining" => authorities'[x] # None
               /\ pc'[x] \in {"fetching", "inserting", "joining"} =>
                    AuthorityOf[x] \in trusts'[DomainOf[x]]
    BY <1>1, <1>2, NoneAssumption DEF SetsAreOfDomains, TypeOK
  <2> QED BY <2>1, <2>2 DEF SetsAreOfDomains
<1>5. NoErrorMeansTrusted'
  BY <1>1, <1>2 DEF NoErrorMeansTrusted
<1> QED BY <1>3, <1>4, <1>5 DEF IInv

\* The caller adds what its domain trusts to a set of its domain.
LEMMA AddObjectIInv ==
    ASSUME IInv, NEW c \in Callers, AddObject(c)
    PROVE  IInv'
<1>1. TypeOK /\ SetsAreOfDomains /\ NoErrorMeansTrusted /\ DomainOf[c] \in Domains
  BY DomainOfAssumption DEF IInv
<1>2. /\ pc[c] = "joining"
      /\ members' = [members EXCEPT ![authorities[c]] =
                       members[authorities[c]] \union {AuthorityOf[c]}]
      /\ pc' = [pc EXCEPT ![c] = "done"]
      /\ result' = [result EXCEPT ![c] = "valid"]
      /\ UNCHANGED <<validated, authorities, trusts, crashed>>
  BY DEF AddObject, Complete
<1>3. /\ authorities[c] \in Callers
      /\ DomainOf[authorities[c]] = DomainOf[c]
      /\ AuthorityOf[c] \in trusts[DomainOf[c]]
      /\ AuthorityOf[c] \in Authorities
  BY <1>1, <1>2, AuthorityOfAssumption DEF SetsAreOfDomains, TypeOK
<1>4. TypeOK'
  <2>1. members' \in [Callers -> SUBSET Authorities]
    BY <1>1, <1>2, <1>3 DEF TypeOK
  <2> QED BY <1>1, <1>2, <2>1 DEF TypeOK, Locations, Results
<1>5. SetsAreOfDomains'
  <2>1. ASSUME NEW x \in Callers
        PROVE  members'[x] \subseteq trusts[DomainOf[x]]
    BY <1>1, <1>2, <1>3 DEF SetsAreOfDomains, TypeOK
  <2> QED BY <1>1, <1>2, <2>1 DEF SetsAreOfDomains, TypeOK
<1>6. NoErrorMeansTrusted'
  BY <1>1, <1>2, <1>3 DEF NoErrorMeansTrusted, TypeOK
<1> QED BY <1>4, <1>5, <1>6 DEF IInv

-----------------------------------------------------------------------------
\* IInv is inductive.
LEMMA NextIInv == IInv /\ [Next]_vars => IInv'
<1> SUFFICES ASSUME IInv, [Next]_vars
             PROVE  IInv'
  OBVIOUS
<1>1. ASSUME NEW c \in Callers, Begin(c)
      PROVE  IInv'
  BY <1>1, BeginIInv
<1>2. ASSUME NEW c \in Callers, Step(c)
      PROVE  IInv'
  BY <1>2, DiscoveryIInv, FetchSetIInv, InsertSetIInv, AddObjectIInv DEF Step
<1>3. CASE Crash
  BY <1>3 DEF Crash, IInv, TypeOK, SetsAreOfDomains, NoErrorMeansTrusted
<1>4. CASE UNCHANGED vars
  BY <1>4 DEF vars, IInv, TypeOK, SetsAreOfDomains, NoErrorMeansTrusted
<1> QED BY <1>1, <1>2, <1>3, <1>4 DEF Next

\* The inductive invariant holds however the callers overlap.
THEOREM IInvAlways == Spec => []IInv
<1> QED BY InitIInv, NextIInv, PTL DEF Spec

\* A caller who validates and gets no error has an authority its user's domain
\* trusts, whichever caller found that out.
THEOREM PassedIsTrusted == Spec => []NoErrorMeansTrusted
<1>1. IInv => NoErrorMeansTrusted
  BY DEF IInv
<1> QED BY <1>1, IInvAlways, PTL

\* The unguarded dictionary can lose an authority, but never holds one for a
\* domain that does not trust it.
THEOREM CacheIsTrusted == Spec => []CachedIsTrusted
<1> QED BY CachedTrusted, IInvAlways, PTL
=============================================================================
