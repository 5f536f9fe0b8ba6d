-------------------------------- MODULE Heap --------------------------------
(* What the clients of salloc.c (src/salloc.c:213-279) rely on: smalloc,      *)
(* scalloc, srealloc and sfree hand out pieces of RAM that do not overlap,    *)
(* and what was stored in a piece stays there until it is released, also when *)
(* srealloc moves it.  Memory is counted in words of DYN_SIZE_MULT bytes.     *)
EXTENDS Integers, Sequences, FiniteSetsExt, Functions

CONSTANTS Ram,     \* the words of the free RAM of the board
          Values,  \* what a client stores
          Zero,    \* what scalloc stores
          Junk,    \* what nobody stored
          Lengths  \* the lengths that are asked for, in words

Word == Values \cup {Zero, Junk}

VARIABLE live  \* the pieces in use: a pointer to the words it gives access to

Extent(p, n) == p .. (p + n) - 1

(* The pieces of the callers but for those in ps stay what they are.          *)
Keeps(ps) == \A q \in DOMAIN live \ ps :
  q \in DOMAIN live' /\ live'[q] = live[q]

(* A piece of n words at p: it lies in RAM and meets no piece of others.      *)
Gets(p, n, others) ==
  /\ DOMAIN live' = others \cup {p}
  /\ Extent(p, n) \subseteq Ram
  /\ \A q \in others : Extent(p, n) \cap Extent(q, Len(live[q])) = {}
  /\ live'[p] \in [1..n -> Word]

Init == live = << >>

(* smalloc and scalloc that find memory; a NULL leaves live as it is.         *)
Obtain(n) == \E p \in DOMAIN live' : Gets(p, n, DOMAIN live) /\ Keeps({})

Release(p) == DOMAIN live' = DOMAIN live \ {p} /\ Keeps({p})

(* srealloc: the words that both lengths have are kept, wherever they go.     *)
Resize(p, n) ==
  \E q \in DOMAIN live' :
    /\ Gets(q, n, DOMAIN live \ {p})
    /\ \A i \in 1..Min({n, Len(live[p])}) : live'[q][i] = live[p][i]
    /\ Keeps({p})

Store(p, v) == live' = [live EXCEPT ![p] = [i \in DOMAIN @ |-> v]]

Next ==
  \/ \E n \in Lengths : Obtain(n)
  \/ \E p \in DOMAIN live : \/ Release(p)
                            \/ \E n \in Lengths : Resize(p, n)
                            \/ \E v \in Values : Store(p, v)

Spec == Init /\ [][Next]_live
=============================================================================
