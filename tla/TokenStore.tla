----------------------------- MODULE TokenStore -----------------------------
(***************************************************************************)
(* What the token caches of macOS promise, as ADTokenCacheDataSource says:  *)
(* each place where tokens are kept is a set of items; an item is there     *)
(* from the call that adds it to one that removes it, and whoever looks     *)
(* sees the items of one moment.  TokenCache.tla is shown to implement this *)
(* specification.                                                           *)
(***************************************************************************)
CONSTANTS
    Places,  \* what a delegate has saved, or a cache without a delegate
    Caches,  \* the places whose content is lost when a delegate is set
    Items,   \* token cache items
    Threads  \* the threads that call the caches

VARIABLES
    contents,  \* the items of each place
    answer     \* the items that are being given to each thread

vars == <<contents, answer>>

Init ==
    /\ contents = [p \in Places |-> {}]
    /\ answer = [t \in Threads |-> {}]

\* addOrUpdateItem: "ensures the cache contains an item matching" the one given.
AddOrUpdate(p, i) ==
    /\ contents' = [contents EXCEPT ![p] = @ \union {i}]
    /\ UNCHANGED answer

\* removeItem:, and what the calls that remove many items do to each.
Remove(p, i) ==
    /\ contents' = [contents EXCEPT ![p] = @ \ {i}]
    /\ UNCHANGED answer

\* getItemWithKey:, getItemsWithKey: and allItems: find the items that match.
Get(t, p) ==
    /\ \E matching \in SUBSET Items :
          answer' = [answer EXCEPT ![t] = contents[p] \intersect matching]
    /\ UNCHANGED contents

\* The thread has its items.
Return(t) ==
    /\ answer' = [answer EXCEPT ![t] = {}]
    /\ UNCHANGED contents

\* A cache is given its first delegate.
Forget(p) ==
    /\ p \in Caches
    /\ contents' = [contents EXCEPT ![p] = {}]
    /\ UNCHANGED answer

Next ==
    \/ \E p \in Places :
          \/ Forget(p)
          \/ \E i \in Items : AddOrUpdate(p, i) \/ Remove(p, i)
          \/ \E t \in Threads : Get(t, p)
    \/ \E t \in Threads : Return(t)

Spec == Init /\ [][Next]_vars
=============================================================================
