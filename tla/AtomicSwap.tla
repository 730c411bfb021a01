----------------------------- MODULE AtomicSwap -----------------------------
(***************************************************************************)
(* What a secure trade promises.  Items have owners; the two parties of a  *)
(* deal put items into it.  A deal is settled as a whole: either every     *)
(* item in it goes to the other party, or every item stays with the party  *)
(* that put it there.  Apart from that an item passes to another player    *)
(* only after its owner has let go of it.                                  *)
(***************************************************************************)
EXTENDS Integers

CONSTANTS
    Players, Items, Deals,
    Nobody,     \* not a player
    NoDeal      \* not a deal

VARIABLES
    ownedBy,    \* the player who owns an item, or Nobody
    deal        \* the deal an item is part of, or NoDeal

swapVars == <<ownedBy, deal>>

SwapInit ==
    /\ ownedBy \in [Items -> Players \cup {Nobody}]
    /\ deal = [x \in Items |-> NoDeal]

InDeal(d) == {x \in Items : deal[x] = d}

\* Somebody takes an item that nobody owns, or puts it into a deal.
Acquire(p, x, d) ==
    /\ ownedBy[x] = Nobody
    /\ ownedBy' = [ownedBy EXCEPT ![x] = p]
    /\ deal' = [deal EXCEPT ![x] = d]

\* The deal is done: each party gets everything the other one put into it.
Swap(d, p, q) ==
    /\ p # q
    /\ \A x \in InDeal(d) : ownedBy[x] \in {p, q}
    /\ ownedBy' = [x \in Items |->
                    IF x \notin InDeal(d) THEN ownedBy[x]
                    ELSE IF ownedBy[x] = p THEN q ELSE p]
    /\ deal' = [x \in Items |-> IF x \in InDeal(d) THEN NoDeal ELSE deal[x]]

\* Deals are called off, and players let go of, or lose, items.
CallOff(D, S) ==
    /\ ownedBy' = [x \in Items |-> IF x \in S THEN Nobody ELSE ownedBy[x]]
    /\ deal' = [x \in Items |->
                 IF x \in S \/ deal[x] \in D THEN NoDeal ELSE deal[x]]

SwapNext ==
    \/ \E p \in Players, x \in Items, d \in Deals \cup {NoDeal} : Acquire(p, x, d)
    \/ \E d \in Deals, p, q \in Players : Swap(d, p, q)
    \/ \E D \in SUBSET {deal[x] : x \in Items}, S \in SUBSET Items : CallOff(D, S)

SwapSpec == SwapInit /\ [][SwapNext]_swapVars
=============================================================================
