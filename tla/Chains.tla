------------------------------- MODULE Chains -------------------------------
(***************************************************************************)
(* Singly linked lists: the nodes that following next from a pointer       *)
(* reaches, and what linking and unlinking a node do to them.  The wait    *)
(* lists of promises (next_waiter) and the list of pending operations      *)
(* (next) are such chains; any pointer that is not a node ends one.        *)
(*                                                                         *)
(* The least-number principle, with which the proof modules do their       *)
(* inductions, is stated here too.                                         *)
(***************************************************************************)
EXTENDS Integers, TLAPS, WellFoundedInduction

\* A set of nodes that following next does not leave.
Closed(next, S) == \A u \in S : next[u] \in DOMAIN next => next[u] \in S

\* The nodes on the chain that starts at x: the least closed set with x.
Chain(next, x) ==
    {t \in DOMAIN next :
        \A S \in SUBSET DOMAIN next :
            (x \in DOMAIN next => x \in S) /\ Closed(next, S) => t \in S}

-----------------------------------------------------------------------------
\* A chain is a closed set of nodes that holds the node it starts at.
LEMMA ChainClosed ==
    ASSUME NEW next, NEW x
    PROVE  /\ Chain(next, x) \subseteq DOMAIN next
           /\ x \in DOMAIN next => x \in Chain(next, x)
           /\ Closed(next, Chain(next, x))
BY DEF Chain, Closed

\* A closed set with the first node of a chain has all of it.
LEMMA ChainLeast ==
    ASSUME NEW next, NEW x, NEW S, S \subseteq DOMAIN next,
           x \in DOMAIN next => x \in S, Closed(next, S)
    PROVE  Chain(next, x) \subseteq S
BY DEF Chain

\* The chain of a pointer that is not a node is empty.
LEMMA ChainEmpty ==
    ASSUME NEW next, NEW x, x \notin DOMAIN next
    PROVE  Chain(next, x) = {}
BY ChainLeast DEF Closed

\* The chain of a node on a chain is part of that chain.
LEMMA ChainTail ==
    ASSUME NEW next, NEW x, NEW y, y \in DOMAIN next => y \in Chain(next, x)
    PROVE  Chain(next, y) \subseteq Chain(next, x)
BY ChainClosed, ChainLeast

\* A node's chain is the node and the chain of its successor.
LEMMA ChainUnfold ==
    ASSUME NEW next, NEW x \in DOMAIN next
    PROVE  Chain(next, x) = {x} \cup Chain(next, next[x])
<1>1. Closed(next, {x} \cup Chain(next, next[x]))
  BY ChainClosed DEF Closed
<1>2. Chain(next, x) \subseteq {x} \cup Chain(next, next[x])
  BY <1>1, ChainClosed, ChainLeast
<1>3. next[x] \in DOMAIN next => next[x] \in Chain(next, x)
  BY ChainClosed DEF Closed
<1> QED BY <1>2, <1>3, ChainClosed, ChainTail

\* Writing the link of a node that is not on a chain leaves the chain alone.
LEMMA ChainElsewhere ==
    ASSUME NEW next, NEW x, NEW u, NEW y, u \notin Chain(next, x)
    PROVE  Chain([next EXCEPT ![u] = y], x) = Chain(next, x)
<1> DEFINE new == [next EXCEPT ![u] = y]
           C == Chain(next, x)
           D == Chain(new, x)
<1>1. DOMAIN new = DOMAIN next /\ \A v \in DOMAIN next : v # u => new[v] = next[v]
  OBVIOUS
<1>2. /\ C \subseteq DOMAIN next /\ D \subseteq DOMAIN next
      /\ x \in DOMAIN next => x \in C /\ x \in D
      /\ Closed(next, C) /\ Closed(new, D)
  BY <1>1, ChainClosed
<1> HIDE DEF new, C, D
<1>3. u \notin C
  BY DEF C
<1>4. Closed(new, C)
  BY <1>1, <1>2, <1>3 DEF Closed
<1>5. D \subseteq C
  BY <1>1, <1>2, <1>4, ChainLeast DEF D
<1>6. Closed(next, D)
  BY <1>1, <1>2, <1>3, <1>5 DEF Closed
<1>7. C \subseteq D
  BY <1>1, <1>2, <1>6, ChainLeast DEF C
<1> QED BY <1>5, <1>7 DEF C, D, new

\* A node off a chain that is linked before it extends the chain by itself.
LEMMA ChainPush ==
    ASSUME NEW next, NEW x, NEW u \in DOMAIN next, u \notin Chain(next, x)
    PROVE  LET new == [next EXCEPT ![u] = x]
           IN  Chain(new, u) = {u} \cup Chain(next, x)
BY ChainUnfold, ChainElsewhere

\* No node of a chain is reached again from its successor.
Acyclic(next, x) == \A u \in Chain(next, x) : u \notin Chain(next, next[u])

\* No two nodes of a chain have the same successor.
Injective(next, x) ==
    \A u, v \in Chain(next, x) : next[u] = next[v] /\ next[u] \in DOMAIN next => u = v

\* Nothing on an acyclic chain points at its first node.
LEMMA FirstNotTarget ==
    ASSUME NEW next, NEW x \in DOMAIN next, Acyclic(next, x),
           NEW u \in Chain(next, x)
    PROVE  next[u] # x
<1>1. x \in Chain(next, x)
  BY ChainClosed
<1>2. x \notin Chain(next, next[x])
  BY <1>1 DEF Acyclic
<1>3. CASE u = x
  BY <1>2, <1>3, ChainClosed
<1>4. CASE u \in Chain(next, next[x])
  BY <1>2, <1>4, ChainClosed DEF Closed
<1> QED BY <1>3, <1>4, ChainUnfold

\* Moving a link past the node that follows it takes that node, and only
\* that node, off the chain, which stays acyclic and injective.
LEMMA ChainUnlink ==
    ASSUME NEW next, NEW x, Acyclic(next, x), Injective(next, x),
           NEW p \in Chain(next, x), next[p] \in DOMAIN next
    PROVE  LET new == [next EXCEPT ![p] = next[next[p]]]
           IN  /\ Chain(new, x) = Chain(next, x) \ {next[p]}
               /\ Acyclic(new, x)
               /\ Injective(new, x)
<1> DEFINE gone == next[p]
           new == [next EXCEPT ![p] = next[gone]]
           C == Chain(next, x)
           D == Chain(new, x)
<1>1. /\ DOMAIN new = DOMAIN next
      /\ new[p] = next[gone]
      /\ \A v \in DOMAIN next : v # p => new[v] = next[v]
  BY ChainClosed
<1>2. /\ C \subseteq DOMAIN next /\ D \subseteq DOMAIN next
      /\ x \in DOMAIN next => x \in C /\ x \in D
      /\ Closed(next, C) /\ Closed(new, D)
  BY <1>1, ChainClosed
<1>3. p \in C /\ gone \in C /\ gone \in DOMAIN next /\ p \in DOMAIN next
  BY <1>2 DEF Closed
<1>4. x \in DOMAIN next
  BY <1>3, ChainEmpty
<1>5. x # gone
  BY <1>4, FirstNotTarget
<1>6. gone # next[gone] /\ gone # p
  BY <1>3, ChainClosed DEF Acyclic
<1> HIDE DEF new, C, D, gone
<1>7. Closed(new, C \ {gone})
  <2> SUFFICES ASSUME NEW v \in C \ {gone}, new[v] \in DOMAIN new
               PROVE  new[v] \in C \ {gone}
    BY DEF Closed
  <2>1. CASE v = p
    BY <1>1, <1>2, <1>3, <1>6, <2>1 DEF Closed
  <2>2. CASE v # p
    <3>1. next[v] # gone
      BY <1>3, <2>2 DEF Injective, C, gone
    <3> QED BY <1>1, <1>2, <2>2, <3>1 DEF Closed
  <2> QED BY <2>1, <2>2
<1>8. D \subseteq C \ {gone}
  BY <1>1, <1>2, <1>4, <1>5, <1>7, ChainLeast DEF D
<1>9. p \in D
  <2> SUFFICES ASSUME p \notin D PROVE FALSE
    OBVIOUS
  <2>1. Closed(next, D)
    BY <1>1, <1>2 DEF Closed
  <2> QED BY <1>2, <1>3, <2>1, ChainLeast DEF C
<1>10. Closed(next, D \cup {gone})
  <2>1. next[gone] \in DOMAIN next => next[gone] \in D
    BY <1>1, <1>2, <1>9 DEF Closed
  <2> QED BY <1>1, <1>2, <1>9, <2>1 DEF Closed, gone
<1>11. C \subseteq D \cup {gone}
  BY <1>2, <1>3, <1>10, ChainLeast DEF C
<1>12. D = C \ {gone}
  BY <1>8, <1>11
<1>13. \A y : Chain(new, y) \subseteq Chain(next, y)
  <2> TAKE y
  <2>1. Closed(new, Chain(next, y))
    <3> SUFFICES ASSUME NEW v \in Chain(next, y), new[v] \in DOMAIN new
                 PROVE  new[v] \in Chain(next, y)
      BY DEF Closed
    <3>1. CASE v = p
      <4>1. gone \in Chain(next, y)
        BY <1>3, <3>1, ChainClosed DEF Closed, gone
      <4> QED BY <1>1, <3>1, <4>1, ChainClosed DEF Closed
    <3>2. CASE v # p
      BY <1>1, <3>2, ChainClosed DEF Closed
    <3> QED BY <3>1, <3>2
  <2> QED BY <1>1, <2>1, ChainClosed, ChainLeast
<1>14. Acyclic(new, x)
  <2> SUFFICES ASSUME NEW v \in D PROVE v \notin Chain(new, new[v])
    BY DEF Acyclic, D
  <2>1. v \in C /\ v \notin Chain(next, next[v])
    BY <1>12 DEF Acyclic, C
  <2>2. CASE v = p
    <3>1. Chain(next, next[gone]) \subseteq Chain(next, gone)
      BY <1>3, ChainUnfold
    <3> QED BY <1>1, <1>13, <2>1, <2>2, <3>1 DEF gone
  <2>3. CASE v # p
    BY <1>1, <1>2, <1>13, <2>1, <2>3
  <2> QED BY <2>2, <2>3
<1>15. Injective(new, x)
  <2> SUFFICES ASSUME NEW v \in D, NEW w \in D, new[v] = new[w], new[v] \in DOMAIN new
               PROVE  v = w
    BY DEF Injective, D
  <2>1. \A y \in D \ {p} : next[gone] = next[y] /\ next[y] \in DOMAIN next => y = gone
    BY <1>3, <1>12 DEF Injective, C
  <2>2. \A y, z \in D \ {p} : next[z] = next[y] /\ next[y] \in DOMAIN next => y = z
    BY <1>3, <1>12 DEF Injective, C
  <2> QED BY <1>1, <1>2, <1>12, <2>1, <2>2
<1> QED BY <1>12, <1>14, <1>15 DEF C, D, new, gone

-----------------------------------------------------------------------------
\* A set of natural numbers has a least one.
LEMMA LeastExists ==
    ASSUME NEW S \in SUBSET Nat, S # {}
    PROVE  \E x \in S : \A y \in S : x <= y
<1> DEFINE R == OpToRel(<, Nat)
<1>1. IsWellFoundedOn(R, Nat)
  BY NatLessThanWellFounded
<1>2. \A x, y \in Nat : x < y => <<x, y>> \in R
  BY DEF OpToRel
<1> HIDE DEF R
<1>3. PICK x \in S : \A y \in S : <<y, x>> \notin R
  BY <1>1, WFMin
<1>4. x \in Nat /\ \A y \in S : y \in Nat
  OBVIOUS
<1>5. \A y \in S : x <= y
  <2> TAKE y \in S
  <2>1. ~(y < x)
    BY <1>2, <1>3, <1>4
  <2> QED BY <1>4, <2>1
<1> QED BY <1>5
=============================================================================
