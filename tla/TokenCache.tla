----------------------------- MODULE TokenCache -----------------------------
(***************************************************************************)
(* ADTokenCache of macOS: items kept in memory, and saved by a delegate of  *)
(* the app.  Each ADAuthenticationContext has a cache of its own (or the    *)
(* default one), several of which may be given the same delegate.  An       *)
(* access to MSIDMacTokenCache, which is not part of this repository, is    *)
(* announced to the delegate before and after; ADTokenCache passes that on  *)
(* to the delegate it has at that moment, without a lock.                   *)
(*                                                                          *)
(* The delegate reads what it has saved before every access and saves the   *)
(* cache after every writing one, like ADTestAppCache of the test app, and  *)
(* keeps others away in between, as its didAccessCache: says it should.     *)
(***************************************************************************)
EXTENDS FiniteSets

CONSTANTS
    Threads,    \* threads that call the caches
    Caches,     \* ADTokenCache objects
    Delegates,  \* ADTokenCacheDelegate objects
    None,       \* nil
    Users, Clients,
    WhileInUse  \* whether the delegate may be set while the cache is in use

ASSUME NoneAssumption == None \notin Threads \union Caches \union Delegates
ASSUME PlacesAssumption == Caches \intersect Delegates = {}
ASSUME WhileInUseAssumption == WhileInUse \in BOOLEAN

Items == [user: Users, client: Clients]

OfUser(u) == {i \in Items : i.user = u}
OfClient(c) == {i \in Items : i.client = c}

\* removeAllForClientId:, removeAllForUserId:clientId: and wipeAllItemsForUserId:
Wipes == {OfUser(u) : u \in Users} \union {OfClient(c) : c \in Clients}
         \union {OfUser(u) \intersect OfClient(c) : u \in Users, c \in Clients}

\* What is looked for: the items of a key and, or not, a user; or all.
Lookups == Wipes \union {Items}

Kinds == {"get", "list", "add", "remove"}
Reads == {"get", "list"}

\* list: the first access of a call that removes many items.
Calls == [kind: Kinds, cache: Caches, items: SUBSET Items]

Locations == {"idle", "will", "operate", "did", "clear", "load", "loaded"}

VARIABLES
    delegate,  \* _delegate of each cache
    memory,    \* the items of its macTokenCache
    saved,     \* what each delegate has saved
    heldBy,    \* who holds the delegate's own lock
    pc,        \* what each thread is about to do
    call,      \* what it was called to do, while it does it
    answer,    \* the items it found
    left       \* the items it still has to remove

vars == <<delegate, memory, saved, heldBy, pc, call, answer, left>>

TypeOK ==
    /\ delegate \in [Caches -> Delegates \union {None}]
    /\ memory \in [Caches -> SUBSET Items]
    /\ saved \in [Delegates -> SUBSET Items]
    /\ heldBy \in [Delegates -> Threads \union {None}]
    /\ pc \in [Threads -> Locations]
    /\ call \in [Threads -> Calls \union {None}]
    /\ answer \in [Threads -> SUBSET Items]
    /\ left \in [Threads -> SUBSET Items]

Init ==
    /\ delegate = [c \in Caches |-> None]
    /\ memory = [c \in Caches |-> {}]
    /\ saved = [d \in Delegates |-> {}]
    /\ heldBy = [d \in Delegates |-> None]
    /\ pc = [t \in Threads |-> "idle"]
    /\ call = [t \in Threads |-> None]
    /\ answer = [t \in Threads |-> {}]
    /\ left = [t \in Threads |-> {}]

-----------------------------------------------------------------------------
On(t, c) == pc[t] # "idle" /\ call[t].cache = c
Setting(t) == pc[t] \in {"clear", "load", "loaded"}

Goto(t, location) == pc' = [pc EXCEPT ![t] = location]

\* The call is over.
Return(t) ==
    /\ Goto(t, "idle")
    /\ call' = [call EXCEPT ![t] = None]
    /\ answer' = [answer EXCEPT ![t] = {}]

\* A thread calls the cache; it is not the one that is given a delegate now.
Begin(t, c, kind, items) ==
    /\ pc[t] = "idle"
    /\ ~WhileInUse => \A other \in Threads : On(other, c) => ~Setting(other)
    /\ Goto(t, "will")
    /\ call' = [call EXCEPT ![t] = [kind |-> kind, cache |-> c, items |-> items]]
    /\ UNCHANGED <<delegate, memory, saved, heldBy, answer, left>>

Get(t) == \E c \in Caches, lookup \in Lookups : Begin(t, c, "get", lookup)
AddOrUpdateItem(t) == \E c \in Caches, i \in Items : Begin(t, c, "add", {i})
RemoveItem(t) == \E c \in Caches, i \in Items : Begin(t, c, "remove", {i})
RemoveAll(t) == \E c \in Caches, wipe \in Wipes : Begin(t, c, "list", wipe)

\* The delegate, if there is one now, takes its lock and loads what is saved.
Load(t, c) ==
    \/ /\ delegate[c] = None
       /\ UNCHANGED <<memory, heldBy>>
    \/ /\ delegate[c] # None
       /\ heldBy[delegate[c]] = None
       /\ heldBy' = [heldBy EXCEPT ![delegate[c]] = t]
       /\ memory' = [memory EXCEPT ![c] = saved[delegate[c]]]

\* willAccessCache: or willWriteCache:.
Will(t) ==
    /\ pc[t] = "will"
    /\ Load(t, call[t].cache)
    /\ Goto(t, "operate")
    /\ UNCHANGED <<delegate, saved, call, answer, left>>

\* The access itself, under the lock of MSIDMacTokenCache.
Operate(t) ==
    /\ pc[t] = "operate"
    /\ \/ /\ call[t].kind \in Reads
          /\ answer' = [answer EXCEPT ![t] = memory[call[t].cache] \intersect call[t].items]
          /\ UNCHANGED memory
       \/ /\ call[t].kind = "add"
          /\ memory' = [memory EXCEPT ![call[t].cache] = @ \union call[t].items]
          /\ UNCHANGED answer
       \/ /\ call[t].kind = "remove"
          /\ memory' = [memory EXCEPT ![call[t].cache] = @ \ call[t].items]
          /\ UNCHANGED answer
    /\ Goto(t, "did")
    /\ UNCHANGED <<delegate, saved, heldBy, call, left>>

\* What is left to remove by a call that removes many items.
LeftAfter(t) == IF call[t].kind = "list" THEN answer[t] ELSE left[t]

\* Mutant: the cache is only saved when the last item was removed.
Save_OnlyTheLast(t, d) ==
    IF call[t].kind \in Reads \/ LeftAfter(t) # {} THEN saved
    ELSE [saved EXCEPT ![d] = memory[call[t].cache]]

\* didWriteCache: saves the cache.
Save(t, d) ==
    IF call[t].kind \in Reads THEN saved
    ELSE [saved EXCEPT ![d] = memory[call[t].cache]]

\* didAccessCache: or didWriteCache:, to the delegate there is now; the next
\* item, if the call removes many, is another access.
Did(t) ==
    /\ pc[t] = "did"
    /\ LET d == delegate[call[t].cache]
       IN  \/ d = None /\ UNCHANGED <<saved, heldBy>>
           \/ /\ d # None
              /\ saved' = Save(t, d)
              /\ heldBy' = [heldBy EXCEPT ![d] = IF @ = t THEN None ELSE @]
    /\ \/ /\ LeftAfter(t) = {}
          /\ Return(t)
          /\ left' = [left EXCEPT ![t] = {}]
       \/ \E i \in LeftAfter(t) :
          /\ Goto(t, "will")
          /\ left' = [left EXCEPT ![t] = LeftAfter(t) \ {i}]
          /\ call' = [call EXCEPT ![t] = [@ EXCEPT !.kind = "remove", !.items = {i}]]
          /\ answer' = [answer EXCEPT ![t] = {}]
    /\ UNCHANGED <<delegate, memory>>

-----------------------------------------------------------------------------
(* setDelegate: of a new cache, or of the default one by                    *)
(* ADAuthenticationSettings, which "is not thread-safe".                    *)

SetDelegate(t) == \E c \in Caches, d \in Delegates \union {None} :
    /\ pc[t] = "idle"
    /\ d # delegate[c]
    \* its write lock
    /\ \A other \in Threads : ~(On(other, c) /\ pc[other] = "clear")
    /\ ~WhileInUse => \A other \in Threads : ~On(other, c)
    /\ delegate' = [delegate EXCEPT ![c] = d]
    /\ Goto(t, "clear")
    /\ call' = [call EXCEPT ![t] = [kind |-> "get", cache |-> c, items |-> {}]]
    /\ UNCHANGED <<memory, saved, heldBy, answer, left>>

\* The delegate is told that it was set, unless it was set to nil.
TellIfAny(t) ==
    IF delegate[call[t].cache] = None THEN Return(t)
    ELSE Goto(t, "load") /\ UNCHANGED <<call, answer>>

\* Mutant: what the last delegate had loaded is kept.
Clear_Nothing(t) ==
    /\ pc[t] = "clear"
    /\ TellIfAny(t)
    /\ UNCHANGED <<delegate, memory, saved, heldBy, left>>

\* The cache is cleared and the lock given back.
Clear(t) ==
    /\ pc[t] = "clear"
    /\ memory' = [memory EXCEPT ![call[t].cache] = {}]
    /\ TellIfAny(t)
    /\ UNCHANGED <<delegate, saved, heldBy, left>>

LoadFirst(t) ==
    /\ pc[t] = "load"
    /\ Load(t, call[t].cache)
    /\ Goto(t, "loaded")
    /\ UNCHANGED <<delegate, saved, call, answer, left>>

\* Mutant: the second message is left out.
Loaded_NotTold(t) ==
    /\ pc[t] = "loaded"
    /\ Return(t)
    /\ UNCHANGED <<delegate, memory, saved, heldBy, left>>

Loaded(t) ==
    /\ pc[t] = "loaded"
    /\ LET d == delegate[call[t].cache]
       IN  \/ d = None /\ UNCHANGED heldBy
           \/ /\ d # None
              /\ heldBy' = [heldBy EXCEPT ![d] = IF @ = t THEN None ELSE @]
    /\ Return(t)
    /\ UNCHANGED <<delegate, memory, saved, left>>

-----------------------------------------------------------------------------
Waits(t) == Will(t) \/ LoadFirst(t)
Proceeds(t) == Operate(t) \/ Did(t) \/ Clear(t) \/ Loaded(t)

Next == \E t \in Threads :
    \/ Get(t) \/ AddOrUpdateItem(t) \/ RemoveItem(t) \/ RemoveAll(t) \/ SetDelegate(t)
    \/ Waits(t) \/ Proceeds(t)

Spec == Init /\ [][Next]_vars

\* The delegate's lock is given to everybody in turn.
FairSpec == Spec /\ \A t \in Threads : WF_vars(Proceeds(t)) /\ SF_vars(Waits(t))

-----------------------------------------------------------------------------
\* The lock of a delegate is held by a thread that is between the two messages
\* of an access, and that will let go of it with the second: didAccessCache: of
\* the test app says that "this is where you would let go of the lock".
LockIsLetGo == \A d \in Delegates : heldBy[d] # None =>
    /\ pc[heldBy[d]] \in {"operate", "did", "loaded"}
    /\ delegate[call[heldBy[d]].cache] = d

\* What an access wrote is what the delegate has saved when it ends: no other
\* cache, and no other access to this one, has loaded something older meanwhile
\* (between willWriteCache: and didWriteCache:).
WritesAreSaved == [][\A t \in Threads :
    pc[t] = "did" /\ pc'[t] # "did" /\ delegate[call[t].cache] # None =>
      /\ call[t].kind = "add" => call[t].items \subseteq saved'[delegate[call[t].cache]]
      /\ call[t].kind = "remove" =>
           call[t].items \intersect saved'[delegate[call[t].cache]] = {}]_vars

\* Every access ends: the messages of one never wait for the other's.
EveryAccessEnds == \A t \in Threads : pc[t] # "idle" ~> pc[t] = "idle"

\* Where the items are: with the delegate, or else in memory; a cache that is
\* just losing its delegate has none of its own.
Places == Caches \union Delegates

OwnItems(c) ==
    IF delegate[c] = None /\ \A t \in Threads : ~(On(t, c) /\ pc[t] = "clear")
    THEN memory[c] ELSE {}

TS == INSTANCE TokenStore WITH
    contents <- [p \in Places |-> IF p \in Delegates THEN saved[p] ELSE OwnItems(p)]

\* The caches and their delegates together are such a store: nothing that was
\* saved is lost or comes back, and nothing moves from one delegate to another.
ImplementsTokenStore == TS!Spec
=============================================================================
