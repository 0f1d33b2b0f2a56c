-------------------------- MODULE TokenCacheProofs --------------------------
(***************************************************************************)
(* Proofs about TokenCache: when no cache is given a delegate while it is   *)
(* in use, the lock of a delegate is always let go of by the message that   *)
(* ends the access, what an access wrote is what is saved when it ends, and *)
(* the caches and their delegates implement TokenStore, for any number of   *)
(* threads, caches, delegates, users and clients.                           *)
(***************************************************************************)
EXTENDS TokenCache, TLAPS

-----------------------------------------------------------------------------
(* The inductive invariant.                                                 *)

CacheOf(t) == call[t].cache
DelegateOf(t) == delegate[CacheOf(t)]
InAccess(t) == pc[t] \in {"operate", "did", "loaded"}

\* A thread that is called knows what for; it writes one item at a time.
Called == \A t \in Threads : pc[t] # "idle" =>
    /\ call[t] \in Calls
    /\ call[t].kind \in {"add", "remove"} => \E i \in Items : call[t].items = {i}

\* Nobody uses a cache that is being given a delegate.
Alone == \A t, u \in Threads :
    t # u /\ Setting(t) /\ pc[u] # "idle" => CacheOf(u) # CacheOf(t)

\* Between the two messages of an access the delegate's lock is held.
Holds == \A t \in Threads :
    InAccess(t) /\ DelegateOf(t) # None => heldBy[DelegateOf(t)] = t

\* The cache has what the delegate has saved, and then what was written.
Fresh == \A t \in Threads : pc[t] = "operate" /\ DelegateOf(t) # None =>
    memory[CacheOf(t)] = saved[DelegateOf(t)]

Written == \A t \in Threads : pc[t] = "did" /\ DelegateOf(t) # None =>
    /\ call[t].kind = "add" =>
         memory[CacheOf(t)] = saved[DelegateOf(t)] \union call[t].items
    /\ call[t].kind = "remove" =>
         memory[CacheOf(t)] = saved[DelegateOf(t)] \ call[t].items

\* Only a reading access has an answer, until it ends.
Unanswered == \A t \in Threads :
    pc[t] # "did" \/ call[t].kind \notin Reads => answer[t] = {}

IInv == TypeOK /\ Called /\ Alone /\ Holds /\ LockIsLetGo /\ Fresh /\ Written /\ Unanswered

USE NoneAssumption, PlacesAssumption, WhileInUseAssumption

\* The initial states satisfy the invariant: nothing is under way and nothing stored.
LEMMA InitIInv == Init => IInv
BY DEF Init, IInv, TypeOK, Called, Alone, Holds, LockIsLetGo, Fresh, Written, Unanswered,
       InAccess, Setting, Locations

-----------------------------------------------------------------------------
\* What every call looks like that an application can make.
LEMMA LookupsAreItems == \A lookup \in Lookups : lookup \in SUBSET Items
BY DEF Lookups, Wipes, OfUser, OfClient

LEMMA BeginKeeps ==
    ASSUME IInv, ~WhileInUse, NEW t \in Threads, NEW c \in Caches, NEW kind \in Kinds,
           NEW items \in SUBSET Items, Begin(t, c, kind, items),
           kind \in {"add", "remove"} => \E i \in Items : items = {i}
    PROVE  IInv'
<1>1. TypeOK'
  BY DEF IInv, TypeOK, Begin, Goto, Calls, Locations
<1>2. pc' = [pc EXCEPT ![t] = "will"] /\ pc[t] = "idle"
  BY DEF Begin, Goto
<1>3. call' = [call EXCEPT ![t] = [kind |-> kind, cache |-> c, items |-> items]]
  BY DEF Begin
<1>4. UNCHANGED <<delegate, memory, saved, heldBy, answer, left>>
  BY DEF Begin
<1>5. \A u \in Threads : u # t => pc'[u] = pc[u] /\ call'[u] = call[u]
  BY <1>2, <1>3 DEF IInv, TypeOK
<1>6. pc'[t] = "will" /\ call'[t] = [kind |-> kind, cache |-> c, items |-> items]
  BY <1>2, <1>3 DEF IInv, TypeOK
<1>7. Called'
  BY <1>5, <1>6 DEF IInv, Called, Calls
<1>8. Alone'
  BY <1>4, <1>5, <1>6 DEF IInv, Alone, Setting, CacheOf, Begin, On
<1>9. Holds'
  BY <1>4, <1>5, <1>6 DEF IInv, Holds, InAccess, DelegateOf, CacheOf
<1>10. LockIsLetGo'
  BY <1>1, <1>2, <1>4, <1>5, <1>6 DEF IInv, LockIsLetGo, TypeOK
<1>11. Fresh' /\ Written'
  BY <1>4, <1>5, <1>6 DEF IInv, Fresh, Written, DelegateOf, CacheOf
<1>12. Unanswered'
  BY <1>2, <1>4, <1>5, <1>6 DEF IInv, Unanswered
<1> QED BY <1>1, <1>7, <1>8, <1>9, <1>10, <1>11, <1>12 DEF IInv
\* What Load may do: nothing without a delegate, or take its lock and load.
LEMMA LoadTakesLock ==
    ASSUME IInv, NEW t \in Threads, pc[t] \in {"will", "load"}, Load(t, CacheOf(t)),
           NEW location \in {"operate", "loaded"}, Goto(t, location),
           location = "loaded" <=> pc[t] = "load",
           UNCHANGED <<delegate, saved, call, answer, left>>
    PROVE  IInv'
<1>1. call[t] \in Calls /\ CacheOf(t) \in Caches
  BY DEF IInv, Called, Calls, CacheOf
<1>2. TypeOK'
  BY <1>1 DEF IInv, TypeOK, Load, Goto, Locations, CacheOf
<1>3. pc'[t] = location /\ \A u \in Threads : u # t => pc'[u] = pc[u]
  BY DEF IInv, TypeOK, Goto
<1>4. \A u \in Threads : CacheOf(u)' = CacheOf(u) /\ DelegateOf(u)' = DelegateOf(u)
  BY DEF CacheOf, DelegateOf
<1>5. DelegateOf(t) # None =>
        /\ DelegateOf(t) \in Delegates
        /\ heldBy[DelegateOf(t)] = None
        /\ heldBy' = [heldBy EXCEPT ![DelegateOf(t)] = t]
        /\ memory' = [memory EXCEPT ![CacheOf(t)] = saved[DelegateOf(t)]]
  BY <1>1 DEF Load, DelegateOf, IInv, TypeOK
<1>6. DelegateOf(t) = None => memory' = memory /\ heldBy' = heldBy
  BY DEF Load, DelegateOf
<1>7. Called' /\ Alone'
  BY <1>3, <1>4 DEF IInv, Called, Alone, Setting, CacheOf
<1>8. ASSUME NEW u \in Threads, u # t, pc[u] \in {"operate", "did", "loaded"},
             DelegateOf(u) # None
      PROVE  /\ CacheOf(u) \in Caches /\ DelegateOf(u) \in Delegates
             /\ DelegateOf(u) # DelegateOf(t) /\ CacheOf(u) # CacheOf(t)
             /\ heldBy[DelegateOf(u)] = u
  <2>1. CacheOf(u) \in Caches /\ DelegateOf(u) \in Delegates
    BY <1>8 DEF IInv, TypeOK, Called, Calls, CacheOf, DelegateOf
  <2>2. heldBy[DelegateOf(u)] = u /\ u # None
    BY <1>8 DEF IInv, Holds, InAccess
  <2>3. DelegateOf(u) # DelegateOf(t)
    BY <1>5, <1>8, <2>2
  <2> QED BY <2>1, <2>2, <2>3 DEF DelegateOf
<1>9. Holds'
  <2> SUFFICES ASSUME NEW u \in Threads, pc'[u] \in {"operate", "did", "loaded"},
                      DelegateOf(u) # None
               PROVE  heldBy'[DelegateOf(u)] = u
    BY <1>4 DEF Holds, InAccess
  <2>1. CASE u = t
    BY <1>5, <2>1 DEF IInv, TypeOK
  <2>2. CASE u # t
    BY <1>3, <1>5, <1>6, <1>8, <2>2 DEF IInv, TypeOK
  <2> QED BY <2>1, <2>2
<1>10. LockIsLetGo'
  <2> SUFFICES ASSUME NEW d \in Delegates, heldBy'[d] # None
               PROVE  /\ pc'[heldBy'[d]] \in {"operate", "did", "loaded"}
                      /\ delegate'[call'[heldBy'[d]].cache] = d
    BY DEF LockIsLetGo
  <2>1. CASE heldBy'[d] = heldBy[d]
    BY <1>3, <2>1 DEF IInv, TypeOK, LockIsLetGo
  <2>2. CASE heldBy'[d] # heldBy[d]
    <3>1. heldBy'[d] = t /\ d = DelegateOf(t)
      BY <1>5, <1>6, <2>2 DEF IInv, TypeOK
    <3> QED BY <1>3, <3>1 DEF DelegateOf, CacheOf
  <2> QED BY <2>1, <2>2
<1>11. Fresh' /\ Written'
  <2>1. ASSUME NEW u \in Threads, u # t, pc[u] \in {"operate", "did"}, DelegateOf(u) # None
        PROVE  memory'[CacheOf(u)] = memory[CacheOf(u)]
    BY <1>1, <1>5, <1>6, <1>8, <2>1 DEF IInv, TypeOK
  <2>2. DelegateOf(t) # None => memory'[CacheOf(t)] = saved[DelegateOf(t)]
    BY <1>1, <1>5 DEF IInv, TypeOK
  <2>3. Fresh'
    BY <1>3, <1>4, <2>1, <2>2 DEF IInv, Fresh
  <2>4. Written'
    BY <1>3, <1>4, <2>1 DEF IInv, Written
  <2> QED BY <2>3, <2>4
<1>12. Unanswered'
  BY <1>3 DEF IInv, Unanswered
<1> QED BY <1>2, <1>7, <1>9, <1>10, <1>11, <1>12 DEF IInv

LEMMA OperateKeeps ==
    ASSUME IInv, NEW t \in Threads, Operate(t)
    PROVE  IInv'
<1>1. call[t] \in Calls /\ CacheOf(t) \in Caches /\ pc[t] = "operate"
  BY DEF IInv, Called, Calls, CacheOf, Operate
<1>2. TypeOK'
  <2>1. answer' \in [Threads -> SUBSET Items]
    BY <1>1 DEF IInv, TypeOK, Operate, Calls
  <2>2. memory' \in [Caches -> SUBSET Items]
    BY <1>1 DEF IInv, TypeOK, Operate, Calls
  <2> QED BY <2>1, <2>2 DEF IInv, TypeOK, Operate, Goto, Locations
<1>3. pc'[t] = "did" /\ \A u \in Threads : u # t => pc'[u] = pc[u]
  BY DEF IInv, TypeOK, Goto, Operate
<1>4. \A u \in Threads : CacheOf(u)' = CacheOf(u) /\ DelegateOf(u)' = DelegateOf(u)
  BY DEF CacheOf, DelegateOf, Operate
<1>5. UNCHANGED <<delegate, saved, heldBy, call>>
  BY DEF Operate
<1>6. Called' /\ Alone' /\ Holds' /\ LockIsLetGo'
  <2>1. Called' /\ Alone'
    BY <1>3, <1>4, <1>5, <1>1 DEF IInv, Called, Alone, Setting
  <2>2. Holds'
    BY <1>3, <1>4, <1>5, <1>1 DEF IInv, Holds, InAccess
  <2>3. LockIsLetGo'
    BY <1>3, <1>5, <1>1 DEF IInv, TypeOK, LockIsLetGo
  <2> QED BY <2>1, <2>2, <2>3
<1>7. \A c \in Caches : c # CacheOf(t) => memory'[c] = memory[c]
  BY <1>1 DEF IInv, TypeOK, Operate, CacheOf
<1>8. \A u \in Threads : u # t /\ InAccess(u) /\ DelegateOf(u) # None
                         => CacheOf(u) # CacheOf(t) /\ CacheOf(u) \in Caches
  <2> SUFFICES ASSUME NEW u \in Threads, u # t, InAccess(u), DelegateOf(u) # None,
                      CacheOf(u) = CacheOf(t)
               PROVE  FALSE
    BY DEF IInv, Called, Calls, InAccess, CacheOf
  <2>1. DelegateOf(t) = DelegateOf(u)
    BY DEF DelegateOf
  <2> QED BY <1>1, <2>1 DEF IInv, Holds, InAccess
<1>9. Fresh'
  BY <1>3, <1>4, <1>5, <1>7, <1>8 DEF IInv, Fresh, InAccess
<1>10. Written'
  <2> SUFFICES ASSUME NEW u \in Threads, pc'[u] = "did", DelegateOf(u) # None
               PROVE  /\ call[u].kind = "add" =>
                           memory'[CacheOf(u)] = saved[DelegateOf(u)] \union call[u].items
                      /\ call[u].kind = "remove" =>
                           memory'[CacheOf(u)] = saved[DelegateOf(u)] \ call[u].items
    BY <1>4, <1>5 DEF Written
  <2>1. CASE u = t
    <3>1. memory[CacheOf(t)] = saved[DelegateOf(t)]
      BY <1>1, <2>1 DEF IInv, Fresh
    <3>2. call[t].kind = "add" => memory'[CacheOf(t)] = memory[CacheOf(t)] \union call[t].items
      BY <1>1 DEF Operate, Reads, IInv, TypeOK, CacheOf
    <3>3. call[t].kind = "remove" => memory'[CacheOf(t)] = memory[CacheOf(t)] \ call[t].items
      BY <1>1 DEF Operate, Reads, IInv, TypeOK, CacheOf
    <3> QED BY <2>1, <3>1, <3>2, <3>3
  <2>2. CASE u # t
    <3>1. pc[u] = "did" /\ memory'[CacheOf(u)] = memory[CacheOf(u)]
      BY <1>3, <1>7, <1>8, <2>2 DEF InAccess
    <3> QED BY <3>1 DEF IInv, Written
  <2> QED BY <2>1, <2>2
<1>11. Unanswered'
  <2> SUFFICES ASSUME NEW u \in Threads, pc'[u] # "did" \/ call[u].kind \notin Reads
               PROVE  answer'[u] = {}
    BY <1>5 DEF Unanswered
  <2>1. CASE u = t
    BY <1>1, <1>3, <2>1 DEF Operate, IInv, Unanswered
  <2>2. CASE u # t
    BY <1>3, <2>2 DEF Operate, IInv, TypeOK, Unanswered
  <2> QED BY <2>1, <2>2
<1> QED BY <1>2, <1>6, <1>9, <1>10, <1>11 DEF IInv
\* The end of an access: the lock is let go of, and only what the delegate has
\* saved may have changed.
LEMMA EndKeeps ==
    ASSUME IInv, NEW t \in Threads, pc[t] \in {"did", "loaded"},
           NEW location \in {"idle", "will"}, Goto(t, location),
           call' \in [Threads -> Calls \union {None}],
           \A u \in Threads : u # t => call'[u] = call[u] /\ answer'[u] = answer[u],
           location = "will" => /\ call'[t] \in Calls
                                /\ CacheOf(t)' = CacheOf(t)
                                /\ ~Setting(t)
                                /\ \E i \in Items : call'[t].items = {i},
           answer' \in [Threads -> SUBSET Items], answer'[t] = {},
           left' \in [Threads -> SUBSET Items],
           saved' \in [Delegates -> SUBSET Items],
           \A d \in Delegates : d # DelegateOf(t) => saved'[d] = saved[d],
           DelegateOf(t) = None => heldBy' = heldBy,
           DelegateOf(t) # None => heldBy' = [heldBy EXCEPT ![DelegateOf(t)] =
                                                IF @ = t THEN None ELSE @],
           UNCHANGED <<delegate, memory>>
    PROVE  IInv'
<1>1. call[t] \in Calls /\ CacheOf(t) \in Caches
  BY DEF IInv, Called, Calls, CacheOf
<1>2. DelegateOf(t) # None =>
        /\ DelegateOf(t) \in Delegates /\ heldBy[DelegateOf(t)] = t
        /\ heldBy' = [heldBy EXCEPT ![DelegateOf(t)] = None]
  BY <1>1 DEF IInv, TypeOK, Holds, InAccess, DelegateOf
<1>3. TypeOK'
  <2>1. heldBy' \in [Delegates -> Threads \union {None}]
    BY <1>2 DEF IInv, TypeOK
  <2> QED BY <2>1 DEF IInv, TypeOK, Goto, Locations
<1>4. pc'[t] = location /\ \A u \in Threads : u # t => pc'[u] = pc[u]
  BY DEF IInv, TypeOK, Goto
<1>5. \A u \in Threads : u # t => CacheOf(u)' = CacheOf(u) /\ DelegateOf(u)' = DelegateOf(u)
  BY DEF CacheOf, DelegateOf
<1>6. ASSUME NEW u \in Threads, u # t, pc[u] \in {"operate", "did", "loaded"},
             DelegateOf(u) # None
      PROVE  /\ DelegateOf(u) \in Delegates /\ DelegateOf(u) # DelegateOf(t)
             /\ heldBy[DelegateOf(u)] = u
  <2>1. CacheOf(u) \in Caches /\ DelegateOf(u) \in Delegates
    BY <1>6 DEF IInv, TypeOK, Called, Calls, CacheOf, DelegateOf
  <2>2. heldBy[DelegateOf(u)] = u
    BY <1>6 DEF IInv, Holds, InAccess
  <2> QED BY <1>2, <1>6, <2>1, <2>2
<1>7. Called' /\ Alone'
  <2>1. Called'
    BY <1>4 DEF IInv, Called
  <2>2. Alone'
    BY <1>4, <1>5 DEF IInv, Alone, Setting
  <2> QED BY <2>1, <2>2
<1>8. Holds'
  <2> SUFFICES ASSUME NEW u \in Threads, pc'[u] \in {"operate", "did", "loaded"},
                      DelegateOf(u)' # None
               PROVE  heldBy'[DelegateOf(u)'] = u
    BY DEF Holds, InAccess
  <2>1. u # t
    BY <1>4
  <2> QED BY <1>2, <1>4, <1>5, <1>6, <2>1 DEF IInv, TypeOK
<1>9. LockIsLetGo'
  <2> SUFFICES ASSUME NEW d \in Delegates, heldBy'[d] # None
               PROVE  /\ pc'[heldBy'[d]] \in {"operate", "did", "loaded"}
                      /\ delegate'[call'[heldBy'[d]].cache] = d
    BY DEF LockIsLetGo
  <2>1. heldBy'[d] = heldBy[d] /\ d # DelegateOf(t)
    BY <1>2 DEF IInv, TypeOK
  <2>2. heldBy[d] # t /\ heldBy[d] \in Threads
    BY <2>1 DEF IInv, LockIsLetGo, DelegateOf, CacheOf, TypeOK
  <2> QED BY <1>4, <2>1, <2>2 DEF IInv, LockIsLetGo
<1>10. Fresh' /\ Written'
  <2>1. ASSUME NEW u \in Threads, u # t, pc[u] \in {"operate", "did"}, DelegateOf(u) # None
        PROVE  saved'[DelegateOf(u)] = saved[DelegateOf(u)]
    BY <1>6, <2>1
  <2>2. Fresh'
    BY <1>4, <1>5, <2>1 DEF IInv, Fresh
  <2>3. Written'
    BY <1>4, <1>5, <2>1 DEF IInv, Written
  <2> QED BY <2>2, <2>3
<1>11. Unanswered'
  BY <1>4 DEF IInv, Unanswered
<1> QED BY <1>3, <1>7, <1>8, <1>9, <1>10, <1>11 DEF IInv

LEMMA DidKeeps ==
    ASSUME IInv, NEW t \in Threads, Did(t)
    PROVE  IInv'
<1>1. pc[t] = "did" /\ call[t] \in Calls /\ CacheOf(t) \in Caches
  BY DEF IInv, Called, Calls, CacheOf, Did
<1>2. /\ DelegateOf(t) = None => heldBy' = heldBy /\ saved' = saved
      /\ DelegateOf(t) # None =>
           /\ heldBy' = [heldBy EXCEPT ![DelegateOf(t)] = IF @ = t THEN None ELSE @]
           /\ saved' = Save(t, DelegateOf(t))
  BY DEF Did, DelegateOf, CacheOf
<1>3. DelegateOf(t) \in Delegates \union {None}
  BY <1>1 DEF IInv, TypeOK, DelegateOf
<1>4. /\ saved' \in [Delegates -> SUBSET Items]
      /\ \A d \in Delegates : d # DelegateOf(t) => saved'[d] = saved[d]
  BY <1>1, <1>2, <1>3 DEF IInv, TypeOK, Save, CacheOf
<1>5. LeftAfter(t) \in SUBSET Items
  BY DEF LeftAfter, IInv, TypeOK
<1>6. CASE LeftAfter(t) = {} /\ Return(t) /\ left' = [left EXCEPT ![t] = {}]
  <2>1. Goto(t, "idle")
    BY <1>6 DEF Return
  <2>2. /\ call' \in [Threads -> Calls \union {None}]
        /\ \A u \in Threads : u # t => call'[u] = call[u] /\ answer'[u] = answer[u]
        /\ answer' \in [Threads -> SUBSET Items] /\ answer'[t] = {}
        /\ left' \in [Threads -> SUBSET Items]
    BY <1>6 DEF Return, IInv, TypeOK
  <2>3. UNCHANGED <<delegate, memory>>
    BY DEF Did
  <2> QED BY <1>1, <1>2, <1>4, <2>1, <2>2, <2>3, EndKeeps
<1>7. ASSUME NEW i \in LeftAfter(t), Goto(t, "will"),
             left' = [left EXCEPT ![t] = LeftAfter(t) \ {i}],
             call' = [call EXCEPT ![t] = [@ EXCEPT !.kind = "remove", !.items = {i}]],
             answer' = [answer EXCEPT ![t] = {}]
      PROVE  IInv'
  <2>1. /\ call'[t] = [kind |-> "remove", cache |-> CacheOf(t), items |-> {i}]
        /\ \A u \in Threads : u # t => call'[u] = call[u]
    BY <1>1, <1>7 DEF IInv, TypeOK, Calls, CacheOf
  <2>2. call'[t] \in Calls /\ CacheOf(t)' = CacheOf(t) /\ call'[t].items = {i} /\ i \in Items
    BY <1>1, <1>5, <2>1 DEF Calls, Kinds, CacheOf
  <2>3. call' \in [Threads -> Calls \union {None}]
    BY <1>7, <2>1, <2>2 DEF IInv, TypeOK
  <2>4. /\ \A u \in Threads : u # t => answer'[u] = answer[u]
        /\ answer' \in [Threads -> SUBSET Items] /\ answer'[t] = {}
    BY <1>7 DEF IInv, TypeOK
  <2>5. left' \in [Threads -> SUBSET Items]
    BY <1>5, <1>7 DEF IInv, TypeOK
  <2>6. UNCHANGED <<delegate, memory>> /\ ~Setting(t)
    BY <1>1 DEF Did, Setting
  <2> QED BY <1>1, <1>2, <1>4, <1>7, <2>1, <2>2, <2>3, <2>4, <2>5, <2>6, EndKeeps
<1> QED BY <1>6, <1>7 DEF Did

LEMMA LoadedKeeps ==
    ASSUME IInv, NEW t \in Threads, Loaded(t)
    PROVE  IInv'
<1>1. /\ DelegateOf(t) = None => heldBy' = heldBy
      /\ DelegateOf(t) # None => heldBy' = [heldBy EXCEPT ![DelegateOf(t)] =
                                              IF @ = t THEN None ELSE @]
  BY DEF Loaded, DelegateOf, CacheOf
<1>2. pc[t] = "loaded" /\ Goto(t, "idle")
  BY DEF Loaded, Return
<1>3. UNCHANGED <<delegate, memory, saved, left>>
  BY DEF Loaded
<1>4. /\ call' \in [Threads -> Calls \union {None}]
      /\ \A u \in Threads : u # t => call'[u] = call[u] /\ answer'[u] = answer[u]
      /\ answer' \in [Threads -> SUBSET Items] /\ answer'[t] = {}
  BY DEF Loaded, Return, IInv, TypeOK
<1>5. saved' \in [Delegates -> SUBSET Items] /\ left' \in [Threads -> SUBSET Items]
  BY <1>3 DEF IInv, TypeOK
<1> QED BY <1>1, <1>2, <1>3, <1>4, <1>5, EndKeeps
LEMMA SetDelegateKeeps ==
    ASSUME IInv, ~WhileInUse, NEW t \in Threads, SetDelegate(t)
    PROVE  IInv'
<1>1. PICK c \in Caches, d \in Delegates \union {None} :
        /\ pc[t] = "idle"
        /\ \A other \in Threads : ~On(other, c)
        /\ delegate' = [delegate EXCEPT ![c] = d]
        /\ pc' = [pc EXCEPT ![t] = "clear"]
        /\ call' = [call EXCEPT ![t] = [kind |-> "get", cache |-> c, items |-> {}]]
        /\ UNCHANGED <<memory, saved, heldBy, answer, left>>
  BY DEF SetDelegate, Goto
<1>2. /\ pc'[t] = "clear"
      /\ call'[t] = [kind |-> "get", cache |-> c, items |-> {}]
      /\ \A u \in Threads : u # t => pc'[u] = pc[u] /\ call'[u] = call[u]
  BY <1>1 DEF IInv, TypeOK
<1>3. [kind |-> "get", cache |-> c, items |-> {}] \in Calls
  BY DEF Calls, Kinds
<1>4. TypeOK'
  <2>1. delegate' \in [Caches -> Delegates \union {None}]
    BY <1>1 DEF IInv, TypeOK
  <2>2. pc' \in [Threads -> Locations]
    BY <1>1 DEF IInv, TypeOK, Locations
  <2>3. call' \in [Threads -> Calls \union {None}]
    BY <1>1, <1>3 DEF IInv, TypeOK
  <2> QED BY <1>1, <2>1, <2>2, <2>3 DEF IInv, TypeOK
<1>5. \A u \in Threads : pc'[u] # "idle" /\ u # t =>
        CacheOf(u)' = CacheOf(u) /\ CacheOf(u) # c /\ DelegateOf(u)' = DelegateOf(u)
  BY <1>1, <1>2 DEF IInv, TypeOK, Called, Calls, CacheOf, DelegateOf, On
<1>6. Called'
  BY <1>2, <1>3 DEF IInv, Called
<1>7. Alone'
  BY <1>2, <1>5 DEF IInv, Alone, Setting, CacheOf
<1>8. Holds'
  BY <1>1, <1>2, <1>5 DEF IInv, Holds, InAccess
<1>9. LockIsLetGo'
  <2> SUFFICES ASSUME NEW e \in Delegates, heldBy[e] # None
               PROVE  /\ pc'[heldBy[e]] \in {"operate", "did", "loaded"}
                      /\ delegate'[call'[heldBy[e]].cache] = e
    BY <1>1 DEF LockIsLetGo
  <2>1. /\ heldBy[e] \in Threads /\ pc[heldBy[e]] \in {"operate", "did", "loaded"}
        /\ DelegateOf(heldBy[e]) = e
    BY DEF IInv, TypeOK, LockIsLetGo, DelegateOf, CacheOf
  <2> QED BY <1>1, <1>2, <1>5, <2>1 DEF DelegateOf, CacheOf
<1>10. Fresh' /\ Written'
  BY <1>1, <1>2, <1>5 DEF IInv, Fresh, Written
<1>11. Unanswered'
  BY <1>1, <1>2 DEF IInv, Unanswered
<1> QED BY <1>4, <1>6, <1>7, <1>8, <1>9, <1>10, <1>11 DEF IInv

LEMMA ClearKeeps ==
    ASSUME IInv, NEW t \in Threads, Clear(t)
    PROVE  IInv'
<1>1. /\ pc[t] = "clear" /\ Setting(t)
      /\ call[t] \in Calls /\ CacheOf(t) \in Caches
      /\ memory' = [memory EXCEPT ![CacheOf(t)] = {}]
      /\ UNCHANGED <<delegate, saved, heldBy, left>>
  BY DEF Clear, IInv, Called, Calls, CacheOf, Setting
<1>2. answer' = [answer EXCEPT ![t] = {}] \/ answer' = answer
  BY DEF Clear, TellIfAny, Return
<1>3. \/ pc' = [pc EXCEPT ![t] = "idle"] /\ call' = [call EXCEPT ![t] = None]
      \/ pc' = [pc EXCEPT ![t] = "load"] /\ call' = call
  BY DEF Clear, TellIfAny, Return, Goto
<1>4. \A u \in Threads : u # t => pc'[u] = pc[u] /\ call'[u] = call[u]
  BY <1>3 DEF IInv, TypeOK
<1>5. pc'[t] \in {"idle", "load"} /\ (pc'[t] = "load" => call'[t] = call[t])
  BY <1>3 DEF IInv, TypeOK
<1>6. TypeOK'
  <2>1. memory' \in [Caches -> SUBSET Items]
    BY <1>1 DEF IInv, TypeOK
  <2>2. pc' \in [Threads -> Locations] /\ call' \in [Threads -> Calls \union {None}]
    BY <1>3 DEF IInv, TypeOK, Locations
  <2>3. answer' \in [Threads -> SUBSET Items]
    BY <1>2 DEF IInv, TypeOK
  <2> QED BY <1>1, <2>1, <2>2, <2>3 DEF IInv, TypeOK
<1>7. \A u \in Threads : u # t /\ pc[u] # "idle" =>
        memory'[CacheOf(u)] = memory[CacheOf(u)]
  BY <1>1 DEF IInv, TypeOK, Alone, Called, Calls, CacheOf
<1>8. \A u \in Threads : u # t => CacheOf(u)' = CacheOf(u) /\ DelegateOf(u)' = DelegateOf(u)
  BY <1>1, <1>4 DEF CacheOf, DelegateOf
<1>9. Called' /\ Alone'
  BY <1>1, <1>4, <1>5, <1>8 DEF IInv, Called, Alone, Setting, CacheOf
<1>10. Holds'
  BY <1>1, <1>4, <1>5, <1>8 DEF IInv, Holds, InAccess
<1>11. LockIsLetGo'
  BY <1>1, <1>4 DEF IInv, TypeOK, LockIsLetGo
<1>12. Fresh' /\ Written'
  BY <1>1, <1>4, <1>5, <1>7, <1>8 DEF IInv, Fresh, Written
<1>13. Unanswered'
  BY <1>1, <1>2, <1>4, <1>5 DEF IInv, TypeOK, Unanswered
<1> QED BY <1>6, <1>9, <1>10, <1>11, <1>12, <1>13 DEF IInv

LEMMA StepIInv == ASSUME ~WhileInUse PROVE IInv /\ [Next]_vars => IInv'
<1> SUFFICES ASSUME IInv, [Next]_vars PROVE IInv'
  OBVIOUS
<1>1. ASSUME NEW t \in Threads, Get(t) PROVE IInv'
  <2> PICK c \in Caches, lookup \in Lookups : Begin(t, c, "get", lookup)
    BY <1>1 DEF Get
  <2> QED BY LookupsAreItems, BeginKeeps DEF Kinds
<1>2. ASSUME NEW t \in Threads, AddOrUpdateItem(t) PROVE IInv'
  <2> PICK c \in Caches, i \in Items : Begin(t, c, "add", {i})
    BY <1>2 DEF AddOrUpdateItem
  <2> QED BY BeginKeeps DEF Kinds
<1>3. ASSUME NEW t \in Threads, RemoveItem(t) PROVE IInv'
  <2> PICK c \in Caches, i \in Items : Begin(t, c, "remove", {i})
    BY <1>3 DEF RemoveItem
  <2> QED BY BeginKeeps DEF Kinds
<1>4. ASSUME NEW t \in Threads, RemoveAll(t) PROVE IInv'
  <2> PICK c \in Caches, wipe \in Wipes : Begin(t, c, "list", wipe)
    BY <1>4 DEF RemoveAll
  <2> QED BY LookupsAreItems, BeginKeeps DEF Kinds, Lookups
<1>5. ASSUME NEW t \in Threads, Will(t) PROVE IInv'
  BY <1>5, LoadTakesLock DEF Will, CacheOf
<1>6. ASSUME NEW t \in Threads, LoadFirst(t) PROVE IInv'
  BY <1>6, LoadTakesLock DEF LoadFirst, CacheOf
<1>7. CASE UNCHANGED vars
  BY <1>7 DEF vars, IInv, TypeOK, Called, Alone, Holds, LockIsLetGo, Fresh, Written,
              Unanswered, InAccess, Setting, CacheOf, DelegateOf
<1> QED BY <1>1, <1>2, <1>3, <1>4, <1>5, <1>6, <1>7, SetDelegateKeeps, OperateKeeps,
           DidKeeps, ClearKeeps, LoadedKeeps DEF Next, Waits, Proceeds

-----------------------------------------------------------------------------
\* The invariant holds of every state that is reached.
THEOREM IInvAlways == ASSUME ~WhileInUse PROVE Spec => []IInv
<1>1. IInv /\ [Next]_vars => IInv'
  BY StepIInv
<1> QED BY InitIInv, <1>1, PTL DEF Spec

\* The variables keep their types (ADTokenCache.h: the cache and its delegate).
THEOREM TypesKept == ASSUME ~WhileInUse PROVE Spec => []TypeOK
<1>1. Spec => []IInv
  BY IInvAlways
<1>2. IInv => TypeOK
  BY DEF IInv
<1> QED BY <1>1, <1>2, PTL

\* A delegate's lock is never kept by a thread that has ended its access, as
\* didAccessCache: of the test app wants it.
THEOREM LockAlwaysLetGo == ASSUME ~WhileInUse PROVE Spec => []LockIsLetGo
<1>1. Spec => []IInv
  BY IInvAlways
<1>2. IInv => LockIsLetGo
  BY DEF IInv
<1> QED BY <1>1, <1>2, PTL
\* Only Did takes a thread away from its second message.
LEMMA OnlyDidLeavesDid ==
    ASSUME TypeOK, NEW t \in Threads, pc[t] = "did", pc'[t] # "did", [Next]_vars
    PROVE  Did(t)
<1>1. PICK u \in Threads :
        \/ Get(u) \/ AddOrUpdateItem(u) \/ RemoveItem(u) \/ RemoveAll(u) \/ SetDelegate(u)
        \/ Will(u) \/ LoadFirst(u) \/ Operate(u) \/ Did(u) \/ Clear(u) \/ Loaded(u)
  BY DEF Next, Waits, Proceeds, vars
<1>2. \E location \in Locations : pc' = [pc EXCEPT ![u] = location]
  BY <1>1 DEF Get, AddOrUpdateItem, RemoveItem, RemoveAll, Begin, SetDelegate, Will,
       LoadFirst, Operate, Did, Clear, Loaded, TellIfAny, Return, Goto, Locations
<1>3. u = t
  BY <1>2 DEF TypeOK
<1> QED BY <1>1, <1>3 DEF Get, AddOrUpdateItem, RemoveItem, RemoveAll, Begin, SetDelegate,
           Will, LoadFirst, Operate, Clear, Loaded

\* When an access ends, what it added is in what the delegate has saved, and
\* what it removed is not.
THEOREM WritesAlwaysSaved == ASSUME ~WhileInUse PROVE Spec => WritesAreSaved
<1>1. ASSUME IInv, [Next]_vars, NEW t \in Threads,
             pc[t] = "did", pc'[t] # "did", DelegateOf(t) # None
      PROVE  /\ call[t].kind = "add" => call[t].items \subseteq saved'[DelegateOf(t)]
             /\ call[t].kind = "remove" => call[t].items \intersect saved'[DelegateOf(t)] = {}
  <2>1. Did(t)
    BY <1>1, OnlyDidLeavesDid DEF IInv
  <2>2. CacheOf(t) \in Caches /\ DelegateOf(t) \in Delegates
    BY <1>1 DEF IInv, TypeOK, Called, Calls, CacheOf, DelegateOf
  <2>3. saved' = Save(t, DelegateOf(t))
    BY <1>1, <2>1 DEF Did, DelegateOf, CacheOf
  <2>4. call[t].kind \in {"add", "remove"} => saved'[DelegateOf(t)] = memory[CacheOf(t)]
    <3> SUFFICES ASSUME call[t].kind \in {"add", "remove"}
                 PROVE  saved'[DelegateOf(t)] = memory[CacheOf(t)]
      OBVIOUS
    <3>1. saved' = [saved EXCEPT ![DelegateOf(t)] = memory[CacheOf(t)]]
      BY <2>3 DEF Save, Reads, CacheOf
    <3>2. saved \in [Delegates -> SUBSET Items]
      BY <1>1 DEF IInv, TypeOK
    <3> QED BY <2>2, <3>1, <3>2
  <2> QED BY <1>1, <2>4 DEF IInv, Written
<1>2. IInv /\ [Next]_vars =>
        [\A t \in Threads : pc[t] = "did" /\ pc'[t] # "did" /\ delegate[call[t].cache] # None =>
          /\ call[t].kind = "add" => call[t].items \subseteq saved'[delegate[call[t].cache]]
          /\ call[t].kind = "remove" =>
               call[t].items \intersect saved'[delegate[call[t].cache]] = {}]_vars
  BY <1>1 DEF DelegateOf, CacheOf
<1>3. Spec => []IInv
  BY IInvAlways
<1> QED BY <1>2, <1>3, PTL DEF Spec, WritesAreSaved

-----------------------------------------------------------------------------
(* The refinement: each step changes the store as one of its operations.    *)

Contents == [p \in Places |-> IF p \in Delegates THEN saved[p] ELSE OwnItems(p)]

LEMMA InitStore == Init => TS!Init
BY DEF Init, TS!Init, OwnItems, On, Places

\* Where a thread's items are before it operates, and what is there.
LEMMA PlaceOfAccess ==
    ASSUME IInv, NEW t \in Threads, pc[t] = "operate"
    PROVE  /\ CacheOf(t) \in Caches
           /\ DelegateOf(t) # None =>
                /\ DelegateOf(t) \in Places
                /\ Contents[DelegateOf(t)] = memory[CacheOf(t)]
           /\ DelegateOf(t) = None =>
                /\ CacheOf(t) \in Places
                /\ Contents[CacheOf(t)] = memory[CacheOf(t)]
<1>1. CacheOf(t) \in Caches /\ DelegateOf(t) \in Delegates \union {None}
  BY DEF IInv, TypeOK, Called, Calls, CacheOf, DelegateOf
<1>2. \A u \in Threads : ~(On(u, CacheOf(t)) /\ pc[u] = "clear")
  BY DEF IInv, Alone, Setting, On, CacheOf
<1>3. DelegateOf(t) = None => Contents[CacheOf(t)] = memory[CacheOf(t)]
  BY <1>1, <1>2 DEF Contents, Places, OwnItems, DelegateOf
<1>4. DelegateOf(t) # None => Contents[DelegateOf(t)] = memory[CacheOf(t)]
  BY <1>1 DEF Contents, Places, IInv, Fresh
<1> QED BY <1>1, <1>3, <1>4 DEF Places

LEMMA OwnItemsKept ==
    ASSUME NEW c \in Caches,
           UNCHANGED delegate, delegate[c] = None => memory'[c] = memory[c],
           \A u \in Threads : (On(u, c) /\ pc[u] = "clear") <=> (On(u, c) /\ pc[u] = "clear")'
    PROVE  OwnItems(c)' = OwnItems(c)
BY DEF OwnItems
\* A step that keeps the delegates, and what is saved, and the memory of the
\* caches without one, keeps the contents of the store.
LEMMA ContentsKept ==
    ASSUME UNCHANGED <<delegate, saved>>,
           \A c \in Caches : delegate[c] = None => memory'[c] = memory[c],
           \A u \in Threads, c \in Caches :
             (On(u, c) /\ pc[u] = "clear") <=> (On(u, c) /\ pc[u] = "clear")'
    PROVE  Contents' = Contents
<1>1. \A c \in Caches : OwnItems(c)' = OwnItems(c)
  BY OwnItemsKept
<1> QED BY <1>1 DEF Contents, Places

\* The same, when the step moves one thread that is not clearing a cache.
LEMMA MoveKeepsContents ==
    ASSUME TypeOK, NEW t \in Threads, UNCHANGED <<delegate, saved>>,
           \A c \in Caches : delegate[c] = None => memory'[c] = memory[c],
           pc[t] # "clear", pc'[t] # "clear",
           \A u \in Threads : u # t => pc'[u] = pc[u] /\ call'[u] = call[u]
    PROVE  Contents' = Contents
<1>1. \A u \in Threads, c \in Caches :
        (On(u, c) /\ pc[u] = "clear") <=> (On(u, c) /\ pc[u] = "clear")'
  BY DEF On
<1> QED BY <1>1, ContentsKept

LEMMA BeginStutters ==
    ASSUME IInv, NEW t \in Threads, NEW c \in Caches, NEW kind \in Kinds,
           NEW items \in SUBSET Items, Begin(t, c, kind, items)
    PROVE  UNCHANGED <<Contents, answer>>
<1>1. pc[t] = "idle" /\ pc'[t] = "will"
  BY DEF Begin, Goto, IInv, TypeOK
<1>2. \A u \in Threads : u # t => pc'[u] = pc[u] /\ call'[u] = call[u]
  BY DEF Begin, Goto, IInv, TypeOK
<1> QED BY <1>1, <1>2, MoveKeepsContents DEF Begin, IInv

LEMMA LoadStutters ==
    ASSUME IInv, NEW t \in Threads, Waits(t)
    PROVE  UNCHANGED <<Contents, answer>>
<1>1. /\ pc[t] # "clear" /\ pc'[t] # "clear"
      /\ \A u \in Threads : u # t => pc'[u] = pc[u] /\ call'[u] = call[u]
  BY DEF Waits, Will, LoadFirst, Goto, IInv, TypeOK
<1>2. UNCHANGED <<delegate, saved, answer>>
  BY DEF Waits, Will, LoadFirst
<1>3. \A c \in Caches : delegate[c] = None => memory'[c] = memory[c]
  BY DEF Waits, Will, LoadFirst, Load, IInv, TypeOK
<1> QED BY <1>1, <1>2, <1>3, MoveKeepsContents DEF IInv

LEMMA LoadedReturns ==
    ASSUME IInv, NEW t \in Threads, Loaded(t)
    PROVE  Contents' = Contents /\ answer' = [answer EXCEPT ![t] = {}]
<1>1. /\ pc[t] # "clear" /\ pc'[t] # "clear"
      /\ \A u \in Threads : u # t => pc'[u] = pc[u] /\ call'[u] = call[u]
  BY DEF Loaded, Return, Goto, IInv, TypeOK
<1> QED BY <1>1, MoveKeepsContents DEF Loaded, Return, IInv

LEMMA ClearReturns ==
    ASSUME IInv, NEW t \in Threads, Clear(t)
    PROVE  /\ Contents' = Contents
           /\ answer' = [answer EXCEPT ![t] = {}] \/ answer' = answer
<1>1. /\ pc[t] = "clear" /\ CacheOf(t) \in Caches
      /\ memory' = [memory EXCEPT ![CacheOf(t)] = {}]
      /\ UNCHANGED <<delegate, saved>>
  BY DEF Clear, IInv, Called, Calls, CacheOf
<1>2. /\ pc'[t] # "clear"
      /\ \A u \in Threads : u # t => pc'[u] = pc[u] /\ call'[u] = call[u]
  BY DEF Clear, TellIfAny, Return, Goto, IInv, TypeOK
<1>3. PICK c \in Caches : c = CacheOf(t)
  BY <1>1
<1>4. OwnItems(c) = {}
  BY <1>1, <1>3 DEF OwnItems, On, CacheOf
<1>5. OwnItems(c)' = {}
  <2>1. memory'[c] = {}
    BY <1>1, <1>3 DEF IInv, TypeOK
  <2> QED BY <2>1 DEF OwnItems
<1>6. Contents' = Contents
  <2>1. ASSUME NEW e \in Caches, e # c PROVE OwnItems(e)' = OwnItems(e)
    <3>1. memory'[e] = memory[e]
      BY <1>1, <1>3, <2>1 DEF IInv, TypeOK
    <3>2. \A u \in Threads : (On(u, e) /\ pc[u] = "clear") <=> (On(u, e) /\ pc[u] = "clear")'
      BY <1>1, <1>2, <1>3, <2>1 DEF On, CacheOf
    <3> QED BY <1>1, <2>1, <3>1, <3>2, OwnItemsKept
  <2> QED BY <1>1, <1>4, <1>5, <2>1 DEF Contents, Places
<1>7. answer' = [answer EXCEPT ![t] = {}] \/ answer' = answer
  BY DEF Clear, TellIfAny, Return
<1> QED BY <1>6, <1>7
\* The operations of the store, in terms of Contents.
LEMMA StoreSteps ==
    /\ \A t \in Threads, p \in Places, matching \in SUBSET Items :
         /\ Contents' = Contents
         /\ answer' = [answer EXCEPT ![t] = Contents[p] \intersect matching]
         => TS!Next
    /\ \A t \in Threads :
         Contents' = Contents /\ answer' = [answer EXCEPT ![t] = {}] => TS!Next
    /\ \A p \in Places, i \in Items :
         Contents' = [Contents EXCEPT ![p] = @ \union {i}] /\ answer' = answer => TS!Next
    /\ \A p \in Places, i \in Items :
         Contents' = [Contents EXCEPT ![p] = @ \ {i}] /\ answer' = answer => TS!Next
    /\ \A p \in Caches :
         Contents' = [Contents EXCEPT ![p] = {}] /\ answer' = answer => TS!Next
BY DEF Contents, Places, TS!Next, TS!Get, TS!Return, TS!AddOrUpdate, TS!Remove, TS!Forget

LEMMA OperateRefines ==
    ASSUME IInv, NEW t \in Threads, Operate(t)
    PROVE  TS!Next \/ UNCHANGED <<Contents, answer>>
<1>1. /\ pc[t] = "operate" /\ call[t] \in Calls
      /\ CacheOf(t) \in Caches /\ DelegateOf(t) \in Delegates \union {None}
  BY DEF Operate, IInv, TypeOK, Called, Calls, CacheOf, DelegateOf
<1>2. /\ pc'[t] # "clear" /\ UNCHANGED <<delegate, saved, call>>
      /\ \A u \in Threads : u # t => pc'[u] = pc[u] /\ call'[u] = call[u]
  BY DEF Operate, Goto, IInv, TypeOK
<1>3. PICK p \in Places : Contents[p] = memory[CacheOf(t)]
                          /\ p = (IF DelegateOf(t) = None THEN CacheOf(t) ELSE DelegateOf(t))
  BY <1>1, PlaceOfAccess
<1>4. CASE call[t].kind \in Reads
  <2>1. /\ memory' = memory
        /\ answer' = [answer EXCEPT ![t] = Contents[p] \intersect call[t].items]
    BY <1>1, <1>3, <1>4 DEF Operate, Reads, CacheOf
  <2>2. Contents' = Contents
    BY <1>1, <1>2, <2>1, MoveKeepsContents DEF IInv
  <2> QED BY <1>1, <2>1, <2>2, StoreSteps DEF Calls
<1>5. CASE call[t].kind \in {"add", "remove"}
  <2>1. PICK i \in Items : call[t].items = {i}
    BY <1>1, <1>5 DEF IInv, Called
  <2>2. answer' = answer
    BY <1>5 DEF Operate, Reads
  <2>3. PICK after \in {memory[CacheOf(t)] \union {i}, memory[CacheOf(t)] \ {i}} :
          memory' = [memory EXCEPT ![CacheOf(t)] = after]
    BY <1>5, <2>1 DEF Operate, Reads, CacheOf
  <2>4. CASE DelegateOf(t) # None
    <3>1. \A c \in Caches : delegate[c] = None => memory'[c] = memory[c]
      BY <1>1, <2>3, <2>4 DEF DelegateOf, IInv, TypeOK
    <3> QED BY <1>1, <1>2, <2>2, <3>1, MoveKeepsContents DEF IInv
  <2>5. CASE DelegateOf(t) = None
    <3>1. p = CacheOf(t) /\ p \in Caches /\ delegate[p] = None
      BY <1>1, <1>3, <2>5 DEF DelegateOf
    <3>2. \A u \in Threads, c \in Caches :
            (On(u, c) /\ pc[u] = "clear") <=> (On(u, c) /\ pc[u] = "clear")'
      BY <1>1, <1>2 DEF On
    <3>3. \A c \in Caches : c # p => OwnItems(c)' = OwnItems(c)
      <4> SUFFICES ASSUME NEW c \in Caches, c # p PROVE OwnItems(c)' = OwnItems(c)
        OBVIOUS
      <4>1. memory'[c] = memory[c]
        BY <2>3, <3>1 DEF IInv, TypeOK
      <4> QED BY <1>2, <3>2, <4>1, OwnItemsKept
    <3>4. memory'[p] = after
      BY <2>3, <3>1 DEF IInv, TypeOK
    <3>5. \A u \in Threads : ~(On(u, p) /\ pc[u] = "clear")'
      BY <1>1, <3>1, <3>2 DEF IInv, Alone, Setting, On, CacheOf
    <3>6. OwnItems(p)' = after
      BY <1>2, <3>1, <3>4, <3>5 DEF OwnItems
    <3>7. Contents' = [Contents EXCEPT ![p] = after]
      BY <1>2, <3>1, <3>3, <3>6 DEF Contents, Places
    <3>8. CASE after = memory[CacheOf(t)] \union {i}
      <4>1. Contents' = [Contents EXCEPT ![p] = @ \union {i}]
        BY <1>3, <3>7, <3>8
      <4> QED BY <2>2, <4>1, StoreSteps
    <3>9. CASE after = memory[CacheOf(t)] \ {i}
      <4>1. Contents' = [Contents EXCEPT ![p] = @ \ {i}]
        BY <1>3, <3>7, <3>9
      <4> QED BY <2>2, <4>1, StoreSteps
    <3> QED BY <3>8, <3>9
  <2> QED BY <2>4, <2>5
<1> QED BY <1>1, <1>4, <1>5 DEF Calls, Kinds, Reads

LEMMA DidRefines ==
    ASSUME IInv, NEW t \in Threads, Did(t)
    PROVE  TS!Next \/ UNCHANGED <<Contents, answer>>
<1>1. /\ pc[t] = "did" /\ call[t] \in Calls
      /\ CacheOf(t) \in Caches /\ DelegateOf(t) \in Delegates \union {None}
  BY DEF Did, IInv, TypeOK, Called, Calls, CacheOf, DelegateOf
<1>2. /\ pc'[t] # "clear" /\ UNCHANGED <<delegate, memory>>
      /\ \A u \in Threads : u # t => pc'[u] = pc[u] /\ call'[u] = call[u]
      /\ answer' = [answer EXCEPT ![t] = {}]
  BY DEF Did, Return, Goto, IInv, TypeOK
<1>3. CASE saved' = saved
  BY <1>1, <1>2, <1>3, MoveKeepsContents, StoreSteps DEF IInv
<1>4. CASE saved' # saved
  <2>1. /\ DelegateOf(t) \in Delegates
        /\ call[t].kind \in {"add", "remove"}
        /\ saved' = [saved EXCEPT ![DelegateOf(t)] = memory[CacheOf(t)]]
    BY <1>1, <1>4 DEF Did, Save, DelegateOf, CacheOf, Calls, Kinds, Reads
  <2>2. answer' = answer
    BY <1>2, <2>1 DEF IInv, TypeOK, Unanswered, Reads
  <2>3. PICK i \in Items : call[t].items = {i}
    BY <1>1, <2>1 DEF IInv, Called
  <2>4. \A c \in Caches : OwnItems(c)' = OwnItems(c)
    <3>1. \A u \in Threads, c \in Caches :
            (On(u, c) /\ pc[u] = "clear") <=> (On(u, c) /\ pc[u] = "clear")'
      BY <1>1, <1>2 DEF On
    <3> QED BY <1>2, <3>1, OwnItemsKept
  <2>5. PICK p \in Places : p = DelegateOf(t)
    BY <2>1 DEF Places
  <2>6. Contents[p] = saved[p]
    BY <2>1, <2>5 DEF Contents
  <2>7. Contents' = [Contents EXCEPT ![p] = memory[CacheOf(t)]]
    BY <2>1, <2>4, <2>5 DEF Contents, Places, IInv, TypeOK
  <2>8. CASE call[t].kind = "add"
    <3>1. memory[CacheOf(t)] = saved[p] \union {i}
      BY <1>1, <2>1, <2>3, <2>5, <2>8 DEF IInv, Written
    <3>2. Contents' = [Contents EXCEPT ![p] = @ \union {i}]
      BY <2>6, <2>7, <3>1
    <3> QED BY <2>2, <3>2, StoreSteps
  <2>9. CASE call[t].kind = "remove"
    <3>1. memory[CacheOf(t)] = saved[p] \ {i}
      BY <1>1, <2>1, <2>3, <2>5, <2>9 DEF IInv, Written
    <3>2. Contents' = [Contents EXCEPT ![p] = @ \ {i}]
      BY <2>6, <2>7, <3>1
    <3> QED BY <2>2, <3>2, StoreSteps
  <2> QED BY <2>1, <2>8, <2>9
<1> QED BY <1>3, <1>4

LEMMA SetDelegateRefines ==
    ASSUME IInv, NEW t \in Threads, SetDelegate(t)
    PROVE  TS!Next \/ UNCHANGED <<Contents, answer>>
<1>1. PICK c \in Caches, d \in Delegates \union {None} :
        /\ pc[t] = "idle" /\ d # delegate[c]
        /\ delegate' = [delegate EXCEPT ![c] = d]
        /\ pc' = [pc EXCEPT ![t] = "clear"]
        /\ call' = [call EXCEPT ![t] = [kind |-> "get", cache |-> c, items |-> {}]]
        /\ UNCHANGED <<memory, saved, answer>>
  BY DEF SetDelegate, Goto
<1>2. /\ pc'[t] = "clear" /\ call'[t].cache = c
      /\ \A u \in Threads : u # t => pc'[u] = pc[u] /\ call'[u] = call[u]
  BY <1>1 DEF IInv, TypeOK
<1>3. OwnItems(c)' = {}
  BY <1>2 DEF OwnItems, On
<1>4. \A e \in Caches : e # c => OwnItems(e)' = OwnItems(e)
  <2> SUFFICES ASSUME NEW e \in Caches, e # c PROVE OwnItems(e)' = OwnItems(e)
    OBVIOUS
  <2>1. delegate'[e] = delegate[e]
    BY <1>1 DEF IInv, TypeOK
  <2>2. \A u \in Threads : (On(u, e) /\ pc[u] = "clear") <=> (On(u, e) /\ pc[u] = "clear")'
    BY <1>1, <1>2 DEF On
  <2> QED BY <1>1, <2>1, <2>2 DEF OwnItems
<1>5. Contents' = [Contents EXCEPT ![c] = {}]
  BY <1>1, <1>3, <1>4 DEF Contents, Places
<1> QED BY <1>1, <1>5, StoreSteps

\* Each step of the caches is an operation of the store, or none.
LEMMA StepRefines == IInv /\ [Next]_vars => [TS!Next]_TS!vars
<1> SUFFICES ASSUME IInv, [Next]_vars PROVE TS!Next \/ UNCHANGED <<Contents, answer>>
  BY DEF TS!vars, Contents
<1>1. ASSUME NEW t \in Threads, Get(t) PROVE UNCHANGED <<Contents, answer>>
  <2> PICK c \in Caches, lookup \in Lookups : Begin(t, c, "get", lookup)
    BY <1>1 DEF Get
  <2> QED BY LookupsAreItems, BeginStutters DEF Kinds
<1>2. ASSUME NEW t \in Threads, AddOrUpdateItem(t) PROVE UNCHANGED <<Contents, answer>>
  <2> PICK c \in Caches, i \in Items : Begin(t, c, "add", {i})
    BY <1>2 DEF AddOrUpdateItem
  <2> QED BY BeginStutters DEF Kinds
<1>3. ASSUME NEW t \in Threads, RemoveItem(t) PROVE UNCHANGED <<Contents, answer>>
  <2> PICK c \in Caches, i \in Items : Begin(t, c, "remove", {i})
    BY <1>3 DEF RemoveItem
  <2> QED BY BeginStutters DEF Kinds
<1>4. ASSUME NEW t \in Threads, RemoveAll(t) PROVE UNCHANGED <<Contents, answer>>
  <2> PICK c \in Caches, wipe \in Wipes : Begin(t, c, "list", wipe)
    BY <1>4 DEF RemoveAll
  <2> QED BY LookupsAreItems, BeginStutters DEF Kinds, Lookups
<1>5. ASSUME NEW t \in Threads, Loaded(t) PROVE TS!Next
  BY <1>5, LoadedReturns, StoreSteps
<1>6. ASSUME NEW t \in Threads, Clear(t) PROVE TS!Next \/ UNCHANGED <<Contents, answer>>
  BY <1>6, ClearReturns, StoreSteps
<1>7. CASE UNCHANGED vars
  BY <1>7 DEF vars, Contents, OwnItems, On
<1> QED BY <1>1, <1>2, <1>3, <1>4, <1>5, <1>6, <1>7, SetDelegateRefines, OperateRefines,
           DidRefines, LoadStutters DEF Next, Proceeds

\* The caches and their delegates are a store of tokens: nothing that was saved
\* is lost, nothing comes back, and an answer is of one moment.
THEOREM TokenStoreImplemented == ASSUME ~WhileInUse PROVE Spec => ImplementsTokenStore
<1>1. Spec => []IInv
  BY IInvAlways
<1> QED BY <1>1, InitStore, StepRefines, PTL DEF Spec, ImplementsTokenStore, TS!Spec
=============================================================================
