----------------------------- MODULE NodeLabels -----------------------------
(***************************************************************************)
(* naming.Apply (internal/naming/naming.go): every node of the merged      *)
(* configuration gets a display label made from the place of its server;   *)
(* nodes that share a place, or whose place is the name of a group or of a *)
(* built-in, are numbered.                                                 *)
(*                                                                         *)
(* A label is a sequence of words, and numbering appends one.  A place may *)
(* itself end in a number (a city or a network is free text), which is     *)
(* what makes the labels hard to keep apart.                               *)
(***************************************************************************)
EXTENDS Naturals, Sequences, FiniteSets

CONSTANTS
    Nodes,      \* the proxies of the merged configuration
    Places,     \* what Display can return, sequences of words
    Reservable, \* sets of group names a configuration may have
    Builtin,    \* DIRECT, REJECT, ...
    Keys,       \* endpoint identities, ordered like their hashes
    Rank        \* Rank[b]: the place of b in the order of labels

(* The label of a node that has none yet. *)
Unnamed == <<>>

ASSUME LabelAssumption ==
    /\ IsFiniteSet(Nodes) /\ IsFiniteSet(Builtin) /\ \A g \in Reservable : IsFiniteSet(g)
    /\ Keys \subseteq Nat
    /\ \A b \in Places : Len(b) \in Nat /\ b = [i \in 1..Len(b) |-> b[i]]
    /\ Unnamed \notin Places \union (UNION Reservable) \union Builtin
    /\ Rank \in [Places -> Nat]
    /\ \A b, c \in Places : Rank[b] = Rank[c] => b = c

VARIABLES
    base,      \* base[n]: Display of the server of n
    key,       \* key[n]: Key of n; equal for copies of one endpoint
    blocked,   \* built-ins and group names
    reserved,  \* names that no numbered label may take
    indexes,   \* indexes[b]: the last number tried for b
    label      \* label[n]: the new name of n

vars == <<base, key, blocked, reserved, indexes, label>>
input == <<base, key, blocked>>

Numbered(b, i) == Append(b, i)

(* Every label that may have been given so far. *)
Given == Places \union UNION {{Numbered(b, i) : i \in 1..indexes[b]} : b \in Places}

(* counts[base] = 1 *)
Alone(n) == \A m \in Nodes : base[m] = base[n] => m = n
Singles == {base[n] : n \in {m \in Nodes : Alone(m)}}

TypeOK ==
    /\ base \in [Nodes -> Places]
    /\ key \in [Nodes -> Keys]
    /\ blocked \subseteq (UNION Reservable) \union Builtin
    /\ reserved \subseteq Given \union blocked
    /\ indexes \in [Places -> Nat]
    /\ label \in [Nodes -> Given \union {Unnamed}]

Init ==
    /\ base \in [Nodes -> Places]
    /\ key \in [Nodes -> Keys]
    /\ \E g \in Reservable : blocked = g \union Builtin
    /\ reserved = blocked \union Singles
    /\ indexes = [b \in Places |-> 0]
    /\ label = [n \in Nodes |-> Unnamed]

(* Mutation: sorted by place only. *)
BeforeByPlace(m, n) == Rank[base[m]] < Rank[base[n]]

(* sort.SliceStable by place, then key: copies keep the order of their sources, *)
(* which may be any.                                                            *)
Before(m, n) ==
    \/ Rank[base[m]] < Rank[base[n]]
    \/ base[m] = base[n] /\ key[m] < key[n]

Turn(n) ==
    /\ label[n] = Unnamed
    /\ \A m \in Nodes : label[m] = Unnamed => ~Before(m, n)

(* Mutation: only shared places are numbered. *)
NeedsNumberIfShared(n) == ~Alone(n)

NeedsNumber(n) == ~Alone(n) \/ base[n] \in blocked

Give(n, name) ==
    /\ label' = [label EXCEPT ![n] = name]
    /\ reserved' = reserved \union {name}

(* A place of its own is the label. *)
KeepPlace(n) ==
    /\ Turn(n)
    /\ ~NeedsNumber(n)
    /\ Give(n, base[n])
    /\ UNCHANGED <<input, indexes>>

(* Mutation: the number is given without a look at reserved. *)
TakeNumber(n) ==
    /\ Turn(n)
    /\ NeedsNumber(n)
    /\ indexes' = [indexes EXCEPT ![base[n]] = @ + 1]
    /\ Give(n, Numbered(base[n], indexes[base[n]] + 1))
    /\ UNCHANGED input

(* Mutation: indexes is not advanced. *)
TrySameNumber(n) ==
    /\ Turn(n)
    /\ NeedsNumber(n)
    /\ LET name == Numbered(base[n], indexes[base[n]] + 1) IN
           IF name \in reserved THEN UNCHANGED <<label, reserved>> ELSE Give(n, name)
    /\ UNCHANGED <<input, indexes>>

(* One round of the numbering loop: the next number is given if it is free. *)
TryNumber(n) ==
    /\ Turn(n)
    /\ NeedsNumber(n)
    /\ indexes' = [indexes EXCEPT ![base[n]] = @ + 1]
    /\ LET name == Numbered(base[n], indexes[base[n]] + 1) IN
           IF name \in reserved THEN UNCHANGED <<label, reserved>> ELSE Give(n, name)
    /\ UNCHANGED input

Next == \E n \in Nodes : KeepPlace(n) \/ TryNumber(n)

Spec == Init /\ [][Next]_vars
FairSpec == Spec /\ WF_vars(Next)

-----------------------------------------------------------------------------
Done == \A n \in Nodes : label[n] # Unnamed

(* No two nodes share a label, although a numbered label of one place may be *)
(* spelled like another place.                                               *)
Distinct ==
    \A m, n \in Nodes : label[m] # Unnamed /\ label[m] = label[n] => m = n

(* No node takes the name of a group or of a built-in: a rule that names the *)
(* group still reaches the group.                                            *)
OffLimits == \A n \in Nodes : label[n] \notin blocked

(* The labels by definition: the k-th of the peers of a place, in the order  *)
(* of their keys, has the k-th number that is free for the place.            *)
FreeNumbers(b) ==
    {i \in 1..(Cardinality(Nodes) + Cardinality(blocked) + Cardinality(Singles)) :
        Numbered(b, i) \notin blocked \union Singles}
KthFree(b, k) ==
    CHOOSE i \in FreeNumbers(b) : Cardinality({j \in FreeNumbers(b) : j <= i}) = k
Peers(n) == {m \in Nodes : base[m] = base[n]}

(* "Source reordering keeps the labels": the labels that the copies of one   *)
(* endpoint get depend on the set of nodes only, never on their order.       *)
Stable ==
    Done => \A n \in Nodes :
        LET earlier == Cardinality({m \in Peers(n) : key[m] < key[n]})
            copies  == {m \in Peers(n) : key[m] = key[n]}
        IN  {label[m] : m \in copies} =
              IF NeedsNumber(n)
              THEN {Numbered(base[n], KthFree(base[n], earlier + k)) : k \in 1..Cardinality(copies)}
              ELSE {base[n]}

(* The numbering loop ends for every node, however many numbers are taken.   *)
Terminates == <>Done
==============================================================================
