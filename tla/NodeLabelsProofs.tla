--------------------------- MODULE NodeLabelsProofs ---------------------------
(***************************************************************************)
(* Proofs about NodeLabels for any nodes, places, group names and any way  *)
(* of spelling a numbered label.                                           *)
(***************************************************************************)
EXTENDS NodeLabels, FiniteSetTheorems, SequenceTheorems, TLAPS

(* Every name that is out of reach for a number: those taken from the start, *)
(* and those given so far.                                                   *)
Taken ==
    /\ blocked \union Singles \subseteq reserved
    /\ \A n \in Nodes : label[n] # Unnamed => label[n] \in reserved

(* A label is the place of its node alone, or avoids all of them. *)
Shape ==
    \A n \in Nodes : label[n] # Unnamed =>
        \/ ~NeedsNumber(n) /\ label[n] = base[n]
        \/ NeedsNumber(n) /\ label[n] \notin blocked \union Singles

IInv == TypeOK /\ Taken /\ Shape /\ Distinct

-----------------------------------------------------------------------------
(* Numbers only grow, so a label once given stays a possible label. *)
LEMMA GivenGrows ==
  ASSUME TypeOK, NEW b \in Places, indexes' = [indexes EXCEPT ![b] = @ + 1]
  PROVE  /\ indexes' \in [Places -> Nat]
         /\ Given \subseteq Given'
         /\ Numbered(b, indexes[b] + 1) \in Given'
<1>1. \A c \in Places : indexes[c] \in Nat /\ indexes'[c] \in Nat /\ indexes[c] <= indexes'[c]
  BY DEF TypeOK
<1>2. indexes[b] + 1 \in 1..indexes'[b]
  BY <1>1 DEF TypeOK
<1>3. \A c \in Places : 1..indexes[c] \subseteq 1..indexes'[c]
  BY <1>1
<1>4. indexes' \in [Places -> Nat]
  BY DEF TypeOK
<1>5. QED
  BY <1>2, <1>3, <1>4 DEF Given

LEMMA InitIInv == Init => IInv
<1> SUFFICES ASSUME Init PROVE IInv
  OBVIOUS
<1>1. Singles \subseteq Places
  BY DEF Init, Singles
<1>2. TypeOK
  <2>1. blocked \subseteq (UNION Reservable) \union Builtin
    BY DEF Init
  <2>2. Places \subseteq Given
    BY DEF Given
  <2>3. QED
    BY <1>1, <2>1, <2>2 DEF Init, TypeOK
<1>3. Taken /\ Shape /\ Distinct
  BY DEF Init, Taken, Shape, Distinct
<1>4. QED
  BY <1>2, <1>3 DEF IInv

(* A node alone at its place takes it: nobody else can have it. *)
LEMMA KeepStep == ASSUME IInv, NEW n \in Nodes, KeepPlace(n) PROVE IInv'
<1>1. /\ UNCHANGED <<base, key, blocked, indexes>>
      /\ label' = [label EXCEPT ![n] = base[n]]
      /\ reserved' = reserved \union {base[n]}
      /\ label[n] = Unnamed /\ ~NeedsNumber(n) /\ base[n] \in Places
  BY DEF KeepPlace, Give, Turn, input, IInv, TypeOK
<1>2. Given' = Given /\ Singles' = Singles /\ \A m \in Nodes : NeedsNumber(m)' = NeedsNumber(m)
  BY <1>1 DEF Given, Singles, Alone, NeedsNumber
<1>3. TypeOK'
  BY <1>1, <1>2 DEF IInv, TypeOK, Given
<1>4. Taken' /\ Shape'
  BY <1>1, <1>2 DEF IInv, TypeOK, Taken, Shape
<1>5. \A m \in Nodes : m # n /\ label[m] # Unnamed => label[m] # base[n]
  BY <1>1 DEF IInv, Shape, Singles, Alone, NeedsNumber
<1>6. Distinct'
  BY <1>1, <1>5 DEF IInv, TypeOK, Distinct
<1>7. QED
  BY <1>3, <1>4, <1>6 DEF IInv

(* A number is given only if the label is free. *)
LEMMA NumberStep == ASSUME IInv, NEW n \in Nodes, TryNumber(n) PROVE IInv'
<1> DEFINE name == Numbered(base[n], indexes[base[n]] + 1)
<1>1. /\ UNCHANGED <<base, key, blocked>> /\ base[n] \in Places
      /\ indexes' = [indexes EXCEPT ![base[n]] = @ + 1]
      /\ label[n] = Unnamed /\ NeedsNumber(n)
  BY DEF TryNumber, Turn, input, IInv, TypeOK
<1>2. /\ indexes' \in [Places -> Nat] /\ Given \subseteq Given' /\ name \in Given'
  BY <1>1, GivenGrows DEF IInv
<1>3. Singles' = Singles /\ \A m \in Nodes : NeedsNumber(m)' = NeedsNumber(m)
  BY <1>1 DEF Singles, Alone, NeedsNumber
<1>4. CASE UNCHANGED <<label, reserved>>
  <2>1. TypeOK'
    BY <1>1, <1>2, <1>4 DEF IInv, TypeOK
  <2>2. Taken' /\ Shape' /\ Distinct'
    BY <1>1, <1>3, <1>4 DEF IInv, Taken, Shape, Distinct
  <2>3. QED
    BY <2>1, <2>2 DEF IInv
<1>5. CASE name \notin reserved /\ Give(n, name)
  <2>1. label' = [label EXCEPT ![n] = name] /\ reserved' = reserved \union {name}
    BY <1>5 DEF Give
  <2>2. TypeOK'
    BY <1>1, <1>2, <2>1 DEF IInv, TypeOK
  <2>3. Taken'
    BY <1>1, <1>3, <2>1 DEF IInv, TypeOK, Taken
  <2>4. Shape'
    BY <1>1, <1>3, <1>5, <2>1 DEF IInv, TypeOK, Taken, Shape
  <2>5. Distinct'
    BY <1>5, <2>1 DEF IInv, TypeOK, Taken, Distinct
  <2>6. QED
    BY <2>2, <2>3, <2>4, <2>5 DEF IInv
<1>6. QED
  BY <1>4, <1>5 DEF TryNumber

LEMMA Inductive == Spec => []IInv
<1>1. IInv /\ [Next]_vars => IInv'
  <2> SUFFICES ASSUME IInv, [Next]_vars PROVE IInv'
    OBVIOUS
  <2>1. CASE Next
    BY <2>1, KeepStep, NumberStep DEF Next
  <2>2. CASE UNCHANGED vars
    BY <2>2 DEF vars, IInv, TypeOK, Given, Taken, Shape, Distinct, Singles, Alone, NeedsNumber
  <2>3. QED
    BY <2>1, <2>2
<1>2. QED
  BY <1>1, InitIInv, PTL DEF Spec

-----------------------------------------------------------------------------
(* Every label is a place or a numbered place. *)
THEOREM Typing == Spec => []TypeOK
<1>1. IInv => TypeOK
  BY DEF IInv
<1>2. QED
  BY <1>1, Inductive, PTL

(* naming.Apply never gives two nodes one name, whatever the metadata says   *)
(* about their places.                                                       *)
THEOREM Distinctness == Spec => []Distinct
<1>1. IInv => Distinct
  BY DEF IInv
<1>2. QED
  BY <1>1, Inductive, PTL

(* naming.Apply never gives a node the name of a group or a built-in.        *)
THEOREM NoCapture == Spec => []OffLimits
<1>1. IInv => OffLimits
  <2> SUFFICES ASSUME IInv, NEW n \in Nodes PROVE label[n] \notin blocked
    BY DEF OffLimits
  <2>1. CASE label[n] = Unnamed
    BY <2>1, LabelAssumption DEF IInv, TypeOK
  <2>2. CASE label[n] # Unnamed
    BY <2>2 DEF IInv, Shape, NeedsNumber
  <2>3. QED
    BY <2>1, <2>2
<1>2. QED
  BY <1>1, Inductive, PTL
-----------------------------------------------------------------------------
(***************************************************************************)
(* Source reordering keeps the labels.  The numbers that one place has     *)
(* given so far are all the free ones up to the last one tried, and they   *)
(* follow the order of the keys.  A node's number is then the free number  *)
(* whose rank is the rank of the node among its peers.                     *)
(***************************************************************************)
Reserved == blocked \union Singles
Free(b, i) == Numbered(b, i) \notin Reserved
Labelled(n) == label[n] # Unnamed

GroupsBlocked == \E g \in Reservable : blocked = g \union Builtin

(* Nothing but labels is added to the reserved names. *)
OnlyLabels == reserved \subseteq Reserved \union {label[n] : n \in {m \in Nodes : Labelled(m)}}

(* A number in use is free and has been tried; one that is free and has been *)
(* tried is in use.                                                          *)
NumbersGiven ==
    \A n \in Nodes : Labelled(n) /\ NeedsNumber(n) =>
        \E i \in 1..indexes[base[n]] : label[n] = Numbered(base[n], i) /\ Free(base[n], i)

NumbersUsed ==
    \A b \in Places : \A i \in 1..indexes[b] : Free(b, i) =>
        \E n \in Nodes : base[n] = b /\ NeedsNumber(n) /\ label[n] = Numbered(b, i)

(* The peers of a place get their labels, and their numbers, in the order of *)
(* their keys.                                                               *)
InTurn ==
    \A m, n \in Nodes : base[m] = base[n] /\ key[m] < key[n] /\ Labelled(n) =>
        /\ Labelled(m)
        /\ \A i, j \in 1..indexes[base[n]] :
              label[m] = Numbered(base[n], i) /\ label[n] = Numbered(base[n], j) => i < j

OrderInv == IInv /\ GroupsBlocked /\ OnlyLabels /\ NumbersGiven /\ NumbersUsed /\ InTurn

(* A numbered label says which place and which number it is made of. *)
LEMMA NumberedInjective ==
  ASSUME NEW b \in Places, NEW c \in Places, NEW i \in Nat, NEW j \in Nat,
         Numbered(b, i) = Numbered(c, j)
  PROVE  b = c /\ i = j
<1> DEFINE W == {b[k] : k \in 1..Len(b)} \union {c[k] : k \in 1..Len(c)} \union Nat
<1>1. b \in Seq(W) /\ c \in Seq(W)
  <2>1. Len(b) \in Nat /\ b = [k \in 1..Len(b) |-> b[k]]
    BY LabelAssumption
  <2>2. Len(c) \in Nat /\ c = [k \in 1..Len(c) |-> c[k]]
    BY LabelAssumption
  <2>3. b \in [1..Len(b) -> W] /\ c \in [1..Len(c) -> W]
    BY <2>1, <2>2
  <2>4. QED
    BY <2>1, <2>2, <2>3, SeqDef
<1>2. i \in W /\ j \in W
  OBVIOUS
<1> HIDE DEF W
<1>3. QED
  BY <1>1, <1>2, AppendInjective DEF Numbered

LEMMA NumberedNotUnnamed ==
  ASSUME NEW b \in Places, NEW i \in Nat
  PROVE  Numbered(b, i) # Unnamed /\ b # Unnamed
<1> DEFINE W == {b[k] : k \in 1..Len(b)} \union Nat
<1>1. Len(b) \in Nat /\ b = [k \in 1..Len(b) |-> b[k]]
  BY LabelAssumption
<1>2. b \in Seq(W)
  <2>1. b \in [1..Len(b) -> W]
    BY <1>1
  <2>2. QED
    BY <1>1, <2>1, SeqDef
<1>3. i \in W
  OBVIOUS
<1> HIDE DEF W
<1>4. Append(b, i) # <<>>
  BY <1>2, <1>3, AppendProperties
<1>5. QED
  BY <1>4, LabelAssumption DEF Numbered, Unnamed

LEMMA InitOrder == Init => OrderInv
<1> SUFFICES ASSUME Init PROVE OrderInv
  OBVIOUS
<1>1. indexes = [b \in Places |-> 0] /\ \A n \in Nodes : ~Labelled(n)
  BY DEF Init, Labelled
<1>2. NumbersUsed
  BY <1>1 DEF NumbersUsed
<1>3. GroupsBlocked /\ OnlyLabels /\ NumbersGiven /\ InTurn
  BY <1>1 DEF Init, GroupsBlocked, OnlyLabels, Reserved, NumbersGiven, InTurn
<1>4. QED
  BY <1>2, <1>3, InitIInv DEF OrderInv

LEMMA KeepOrder == ASSUME OrderInv, NEW n \in Nodes, KeepPlace(n) PROVE OrderInv'
<1>1. /\ UNCHANGED <<base, key, blocked, indexes>>
      /\ label' = [label EXCEPT ![n] = base[n]]
      /\ reserved' = reserved \union {base[n]}
      /\ base[n] \in Places /\ base[n] # Unnamed /\ ~NeedsNumber(n)
  BY NumberedNotUnnamed, 0 \in Nat DEF KeepPlace, Give, Turn, input, OrderInv, IInv, TypeOK
<1>2. Singles' = Singles /\ \A m \in Nodes : NeedsNumber(m)' = NeedsNumber(m)
  BY <1>1 DEF Singles, Alone, NeedsNumber
<1>3. Reserved' = Reserved /\ \A b, i : Free(b, i)' = Free(b, i)
  BY <1>1, <1>2 DEF Reserved, Free
<1>4. /\ label \in [Nodes -> Given \union {Unnamed}]
      /\ label'[n] = base[n] /\ \A m \in Nodes \ {n} : label'[m] = label[m]
      /\ Labelled(n)' /\ \A m \in Nodes \ {n} : Labelled(m)' = Labelled(m)
  BY <1>1 DEF OrderInv, IInv, TypeOK, Labelled
<1>5. OnlyLabels'
  <2> SUFFICES ASSUME NEW x \in reserved', x \notin Reserved
               PROVE  \E m \in Nodes : Labelled(m)' /\ x = label'[m]
    BY <1>3 DEF OnlyLabels
  <2>1. CASE x \in reserved
    <3>1. PICK m \in Nodes : Labelled(m) /\ x = label[m]
      BY <2>1 DEF OrderInv, OnlyLabels
    <3>2. QED
      BY <1>4, <3>1, m = n \/ m \in Nodes \ {n} DEF KeepPlace, Turn, Labelled
  <2>2. CASE x = base[n]
    BY <1>4, <2>2
  <2>3. QED
    BY <1>1, <2>1, <2>2
<1>6. NumbersGiven'
  BY <1>1, <1>2, <1>3, <1>4 DEF OrderInv, NumbersGiven
<1>7. NumbersUsed'
  BY <1>1, <1>2, <1>3, <1>4 DEF OrderInv, NumbersUsed
<1>8. \A m \in Nodes : base[m] = base[n] => m = n
  BY <1>1 DEF NeedsNumber, Alone
<1>9. key \in [Nodes -> Keys] /\ \A m \in Nodes : key[m] \in Nat
  BY LabelAssumption DEF OrderInv, IInv, TypeOK
<1>10. InTurn'
  <2> SUFFICES ASSUME NEW l \in Nodes, NEW m \in Nodes,
                      base[l] = base[m], key[l] < key[m], Labelled(m)'
               PROVE  /\ Labelled(l)'
                      /\ \A i, j \in 1..indexes[base[m]] :
                            label'[l] = Numbered(base[m], i) /\ label'[m] = Numbered(base[m], j)
                              => i < j
    BY <1>1 DEF InTurn
  <2>1. l # n /\ m # n
    BY <1>8, <1>9
  <2>2. QED
    BY <1>4, <2>1 DEF OrderInv, InTurn
<1>11. QED
  BY <1>1, <1>5, <1>6, <1>7, <1>10, KeepStep DEF OrderInv, GroupsBlocked

(* The next number is refused only if it is not free: no peer can have it. *)
LEMMA RefusedIsNotFree ==
  ASSUME OrderInv, NEW n \in Nodes, Numbered(base[n], indexes[base[n]] + 1) \in reserved
  PROVE  ~Free(base[n], indexes[base[n]] + 1)
<1> DEFINE i == indexes[base[n]] + 1
<1>1. base[n] \in Places /\ indexes[base[n]] \in Nat
  BY DEF OrderInv, IInv, TypeOK
<1> SUFFICES ASSUME NEW m \in Nodes, Labelled(m), label[m] = Numbered(base[n], i),
                    Numbered(base[n], i) \notin Reserved
             PROVE  FALSE
  BY DEF OrderInv, OnlyLabels, Free
<1>2. CASE NeedsNumber(m)
  <2>1. PICK j \in 1..indexes[base[m]] : label[m] = Numbered(base[m], j)
    BY <1>2 DEF OrderInv, NumbersGiven
  <2>2. base[m] \in Places /\ indexes[base[m]] \in Nat
    BY DEF OrderInv, IInv, TypeOK
  <2>3. base[m] = base[n] /\ j = i
    BY <1>1, <2>1, <2>2, NumberedInjective
  <2>4. QED
    BY <1>1, <2>1, <2>3
<1>3. CASE ~NeedsNumber(m)
  <2>1. label[m] = base[m] /\ base[m] \in Singles
    BY <1>3 DEF OrderInv, IInv, Shape, NeedsNumber, Singles, Labelled
  <2>2. QED
    BY <2>1 DEF Reserved
<1>4. QED
  BY <1>2, <1>3

LEMMA NumberOrder == ASSUME OrderInv, NEW n \in Nodes, TryNumber(n) PROVE OrderInv'
<1> DEFINE b == base[n]
           k == indexes[b] + 1
<1>1. /\ UNCHANGED <<base, key, blocked>> /\ b \in Places /\ indexes[b] \in Nat
      /\ indexes \in [Places -> Nat] /\ indexes' = [indexes EXCEPT ![b] = @ + 1]
      /\ label[n] = Unnamed /\ NeedsNumber(n)
  BY DEF TryNumber, Turn, input, OrderInv, IInv, TypeOK
<1>2. Singles' = Singles /\ \A m \in Nodes : NeedsNumber(m)' = NeedsNumber(m)
  BY <1>1 DEF Singles, Alone, NeedsNumber
<1>3. Reserved' = Reserved /\ \A c, i : Free(c, i)' = Free(c, i)
  BY <1>1, <1>2 DEF Reserved, Free
<1>4. /\ indexes' \in [Places -> Nat] /\ indexes'[b] = k
      /\ \A c \in Places \ {b} : indexes'[c] = indexes[c]
      /\ \A c \in Places : 1..indexes[c] \subseteq 1..indexes'[c]
  BY <1>1
<1>5. /\ base \in [Nodes -> Places] /\ key \in [Nodes -> Keys]
      /\ label \in [Nodes -> Given \union {Unnamed}]
      /\ \A m \in Nodes : key[m] \in Nat
  BY LabelAssumption DEF OrderInv, IInv, TypeOK
(* A peer's number is one that had been tried. *)
<1>6. \A m \in Nodes, j \in 1..k :
         base[m] = b /\ Labelled(m) /\ label[m] = Numbered(b, j) => j \in 1..indexes[b]
  <2> SUFFICES ASSUME NEW m \in Nodes, NEW j \in 1..k, base[m] = b, Labelled(m),
                      label[m] = Numbered(b, j)
               PROVE  j \in 1..indexes[b]
    OBVIOUS
  <2>1. NeedsNumber(m)
    BY <1>1 DEF NeedsNumber, Alone
  <2>2. PICK i \in 1..indexes[b] : label[m] = Numbered(b, i)
    BY <2>1 DEF OrderInv, NumbersGiven
  <2>3. i \in Nat /\ j \in Nat /\ Numbered(b, i) = Numbered(b, j)
    BY <1>1, <2>2
  <2>4. i = j
    BY <1>1, <2>3, NumberedInjective
  <2>5. QED
    BY <2>4
<1>7. CASE UNCHANGED <<label, reserved>> /\ Numbered(b, k) \in reserved
  <2>1. ~Free(b, k)
    BY <1>7, RefusedIsNotFree
  <2>2. OnlyLabels'
    BY <1>3, <1>7 DEF OrderInv, OnlyLabels, Labelled
  <2>3. NumbersGiven'
    BY <1>1, <1>2, <1>3, <1>4, <1>5, <1>7 DEF OrderInv, NumbersGiven, Labelled
  <2>4. NumbersUsed'
    <3> SUFFICES ASSUME NEW c \in Places, NEW i \in 1..indexes'[c], Free(c, i)
                 PROVE  \E m \in Nodes : base[m] = c /\ NeedsNumber(m) /\ label[m] = Numbered(c, i)
      BY <1>1, <1>2, <1>3, <1>7 DEF NumbersUsed
    <3>1. i \in 1..indexes[c]
      BY <1>1, <1>4, <2>1
    <3>2. QED
      BY <3>1 DEF OrderInv, NumbersUsed
  <2>5. InTurn'
    <3> SUFFICES ASSUME NEW l \in Nodes, NEW m \in Nodes,
                        base[l] = base[m], key[l] < key[m], Labelled(m)
                 PROVE  /\ Labelled(l)
                        /\ \A i, j \in 1..indexes'[base[m]] :
                              label[l] = Numbered(base[m], i) /\ label[m] = Numbered(base[m], j)
                                => i < j
      BY <1>1, <1>7 DEF InTurn, Labelled
    <3>1. Labelled(l)
      BY DEF OrderInv, InTurn
    <3>2. ASSUME NEW i \in 1..indexes'[base[m]], NEW j \in 1..indexes'[base[m]],
                 label[l] = Numbered(base[m], i), label[m] = Numbered(base[m], j)
          PROVE  i \in 1..indexes[base[m]] /\ j \in 1..indexes[base[m]]
      BY <1>4, <1>5, <1>6, <3>1, <3>2
    <3>3. QED
      BY <3>1, <3>2 DEF OrderInv, InTurn
  <2>6. QED
    BY <1>1, <2>2, <2>3, <2>4, <2>5, NumberStep DEF OrderInv, GroupsBlocked
<1>8. CASE Numbered(b, k) \notin reserved /\ Give(n, Numbered(b, k))
  <2>1. /\ label' = [label EXCEPT ![n] = Numbered(b, k)]
        /\ reserved' = reserved \union {Numbered(b, k)}
        /\ Numbered(b, k) # Unnamed
    BY <1>1, <1>8, NumberedNotUnnamed DEF Give
  <2>2. /\ label'[n] = Numbered(b, k) /\ \A m \in Nodes \ {n} : label'[m] = label[m]
        /\ Labelled(n)' /\ \A m \in Nodes \ {n} : Labelled(m)' = Labelled(m)
    BY <1>5, <2>1 DEF Labelled
  <2>3. Free(b, k)
    BY <1>8 DEF Free, Reserved, OrderInv, IInv, Taken
  <2>4. OnlyLabels'
    <3> SUFFICES ASSUME NEW x \in reserved', x \notin Reserved
                 PROVE  \E m \in Nodes : Labelled(m)' /\ x = label'[m]
      BY <1>3 DEF OnlyLabels
    <3>1. CASE x \in reserved
      <4>1. PICK m \in Nodes : Labelled(m) /\ x = label[m]
        BY <3>1 DEF OrderInv, OnlyLabels
      <4>2. m # n
        BY <1>1, <4>1 DEF Labelled
      <4>3. QED
        BY <2>2, <4>1, <4>2
    <3>2. CASE x = Numbered(b, k)
      BY <2>2, <3>2
    <3>3. QED
      BY <2>1, <3>1, <3>2
  <2>5. NumbersGiven'
    <3> SUFFICES ASSUME NEW m \in Nodes, Labelled(m)', NeedsNumber(m)
                 PROVE  \E i \in 1..indexes'[base[m]] :
                            label'[m] = Numbered(base[m], i) /\ Free(base[m], i)
      BY <1>1, <1>2, <1>3 DEF NumbersGiven
    <3>1. CASE m = n
      BY <1>1, <1>4, <2>2, <2>3, <3>1
    <3>2. CASE m # n
      BY <1>4, <1>5, <2>2, <3>2 DEF OrderInv, NumbersGiven
    <3>3. QED
      BY <3>1, <3>2
  <2>6. NumbersUsed'
    <3> SUFFICES ASSUME NEW c \in Places, NEW i \in 1..indexes'[c], Free(c, i)
                 PROVE  \E m \in Nodes : base[m] = c /\ NeedsNumber(m) /\ label'[m] = Numbered(c, i)
      BY <1>1, <1>2, <1>3 DEF NumbersUsed
    <3>1. CASE c = b /\ i = k
      BY <1>1, <2>2, <3>1
    <3>2. CASE ~(c = b /\ i = k)
      <4>1. i \in 1..indexes[c]
        BY <1>1, <1>4, <3>2
      <4>2. PICK m \in Nodes : base[m] = c /\ NeedsNumber(m) /\ label[m] = Numbered(c, i)
        BY <4>1 DEF OrderInv, NumbersUsed
      <4>3. m # n
        BY <1>1, <4>2, NumberedNotUnnamed
      <4>4. QED
        BY <2>2, <4>2, <4>3
    <3>3. QED
      BY <3>1, <3>2
  <2>7. InTurn'
    <3> SUFFICES ASSUME NEW l \in Nodes, NEW m \in Nodes,
                        base[l] = base[m], key[l] < key[m], Labelled(m)'
                 PROVE  /\ Labelled(l)'
                        /\ \A i, j \in 1..indexes'[base[m]] :
                              label'[l] = Numbered(base[m], i) /\ label'[m] = Numbered(base[m], j)
                                => i < j
      BY <1>1 DEF InTurn
    <3>1. CASE m = n
      <4>1. Before(l, n) /\ l # n
        BY <1>5, <3>1 DEF Before
      <4>2. Labelled(l)
        BY <4>1 DEF TryNumber, Turn, Labelled
      <4>3. ASSUME NEW i \in 1..k, NEW j \in 1..k,
                   label'[l] = Numbered(b, i), label'[n] = Numbered(b, j)
            PROVE  i < j
        <5>1. i \in 1..indexes[b]
          BY <1>6, <2>2, <3>1, <4>1, <4>2, <4>3
        <5>2. j = k
          BY <1>1, <2>2, <4>3, NumberedInjective
        <5>3. QED
          BY <1>1, <5>1, <5>2
      <4>4. QED
        BY <1>4, <2>2, <3>1, <4>1, <4>2, <4>3
    <3>2. CASE m # n
      <4>1. Labelled(m) /\ Labelled(l)
        BY <2>2, <3>2 DEF OrderInv, InTurn
      <4>2. l # n
        BY <1>1, <4>1 DEF Labelled
      <4>3. ASSUME NEW i \in 1..indexes'[base[m]], NEW j \in 1..indexes'[base[m]],
                   label[l] = Numbered(base[m], i), label[m] = Numbered(base[m], j)
            PROVE  i \in 1..indexes[base[m]] /\ j \in 1..indexes[base[m]]
        BY <1>4, <1>5, <1>6, <4>1, <4>3
      <4>4. QED
        BY <2>2, <3>2, <4>1, <4>2, <4>3 DEF OrderInv, InTurn
    <3>3. QED
      BY <3>1, <3>2
  <2>8. QED
    BY <1>1, <2>4, <2>5, <2>6, <2>7, NumberStep DEF OrderInv, GroupsBlocked
<1>9. QED
  BY <1>7, <1>8 DEF TryNumber

LEMMA OrderInductive == Spec => []OrderInv
<1>1. OrderInv /\ [Next]_vars => OrderInv'
  <2> SUFFICES ASSUME OrderInv, [Next]_vars PROVE OrderInv'
    OBVIOUS
  <2>1. CASE Next
    BY <2>1, KeepOrder, NumberOrder DEF Next
  <2>2. CASE UNCHANGED vars
    <3>1. IInv'
      BY <2>2 DEF vars, OrderInv, IInv, TypeOK, Given, Taken, Shape, Distinct, Singles, Alone,
                  NeedsNumber
    <3>2. Singles' = Singles /\ \A m \in Nodes : NeedsNumber(m)' = NeedsNumber(m)
      BY <2>2 DEF vars, Singles, Alone, NeedsNumber
    <3>3. QED
      BY <2>2, <3>1, <3>2 DEF vars, OrderInv, GroupsBlocked, OnlyLabels, NumbersGiven, NumbersUsed, InTurn,
                              Reserved, Free, Labelled
  <2>3. QED
    BY <2>1, <2>2
<1>2. QED
  BY <1>1, InitOrder, PTL DEF Spec

-----------------------------------------------------------------------------
(* The k-th smallest of some numbers. *)
Upto(F, i) == {j \in F : j <= i}
Kth(F, k) == CHOOSE i \in F : Cardinality(Upto(F, i)) = k

LEMMA RankGrows ==
  ASSUME NEW F \in SUBSET Nat, IsFiniteSet(F), NEW i \in F, NEW j \in F, i < j
  PROVE  Cardinality(Upto(F, i)) < Cardinality(Upto(F, j))
<1>1. IsFiniteSet(Upto(F, i)) /\ IsFiniteSet(Upto(F, j))
  <2>1. Upto(F, i) \in SUBSET F /\ Upto(F, j) \in SUBSET F
    BY DEF Upto
  <2>2. QED
    BY <2>1, FS_Subset
<1>2. Upto(F, i) \in SUBSET Upto(F, j) /\ j \in Upto(F, j) /\ j \notin Upto(F, i)
  <2>1. i \in Nat /\ j \in Nat /\ \A x \in F : x \in Nat
    OBVIOUS
  <2>2. \A x \in F : x <= i => x <= j
    BY <2>1
  <2>3. j <= j /\ ~(j <= i)
    BY <2>1
  <2>4. QED
    BY <2>2, <2>3 DEF Upto
<1>3. Cardinality(Upto(F, i)) <= Cardinality(Upto(F, j))
  BY <1>1, <1>2, FS_Subset
<1>4. Cardinality(Upto(F, i)) # Cardinality(Upto(F, j))
  BY <1>1, <1>2, FS_Subset
<1>5. Cardinality(Upto(F, i)) \in Nat /\ Cardinality(Upto(F, j)) \in Nat
  BY <1>1, FS_CardinalityType
<1>6. QED
  BY <1>3, <1>4, <1>5

LEMMA KthIsInverse ==
  ASSUME NEW F \in SUBSET Nat, IsFiniteSet(F), NEW i \in F
  PROVE  Kth(F, Cardinality(Upto(F, i))) = i
<1> DEFINE r == Cardinality(Upto(F, i))
           x == CHOOSE j \in F : Cardinality(Upto(F, j)) = r
<1>1. x \in F /\ Cardinality(Upto(F, x)) = r
  OBVIOUS
<1> HIDE DEF x
<1>2. ~(x < i) /\ ~(i < x)
  <2>1. Cardinality(Upto(F, i)) \in Nat
    <3>1. Upto(F, i) \in SUBSET F
      BY DEF Upto
    <3>2. QED
      BY <3>1, FS_Subset, FS_CardinalityType
  <2>2. ASSUME x < i PROVE FALSE
    BY <1>1, <2>1, <2>2, RankGrows
  <2>3. ASSUME i < x PROVE FALSE
    BY <1>1, <2>1, <2>3, RankGrows
  <2>4. QED
    BY <2>2, <2>3
<1>3. x = i
  BY <1>1, <1>2
<1>4. QED
  BY <1>3 DEF x, Kth

(* An injective image is as large as the set. *)
LEMMA ImageSize ==
  ASSUME NEW S, IsFiniteSet(S), NEW f, \A x, y \in S : f[x] = f[y] => x = y
  PROVE  IsFiniteSet({f[x] : x \in S}) /\ Cardinality({f[x] : x \in S}) = Cardinality(S)
<1> DEFINE T == {f[x] : x \in S}
           g == [x \in S |-> f[x]]
<1>1. g \in Bijection(S, T)
  BY DEF Bijection, Injection, Surjection, IsInjective
<1>2. QED
  BY <1>1, FS_Bijection DEF ExistsBijection

(* The nodes before a node, and its copies, in the order of some keys. *)
Earlier(P, ky, n) == {m \in P : ky[m] < ky[n]}
Copies(P, ky, n) == {m \in P : ky[m] = ky[n]}

NumberedByRank(P, F, num, E, C) ==
    /\ \A m \in C : \E k \in 1..Cardinality(C) : num[m] = Kth(F, Cardinality(E) + k)
    /\ \A k \in 1..Cardinality(C) : \E m \in C : num[m] = Kth(F, Cardinality(E) + k)

(* Members of P are numbered, in the order of their keys, by all members of  *)
(* F up to some number: the members that share a key have the numbers that   *)
(* follow those of the smaller keys.                                         *)
LEMMA NumbersByRank ==
  ASSUME NEW P, IsFiniteSet(P),
         NEW F \in SUBSET Nat, IsFiniteSet(F),
         NEW num \in [P -> F], \A l, m \in P : num[l] = num[m] => l = m,
         \A m \in P : \A i \in F : i <= num[m] => \E l \in P : num[l] = i,
         NEW ky \in [P -> Nat], \A l, m \in P : ky[l] < ky[m] => num[l] < num[m],
         NEW n \in P
  PROVE  NumberedByRank(P, F, num, Earlier(P, ky, n), Copies(P, ky, n))
<1> DEFINE E == Earlier(P, ky, n)
           C == Copies(P, ky, n)
           D(m) == {l \in P : num[l] <= num[m]}
           place == [m \in C |-> Cardinality(D(m) \cap C)]
<1> USE DEF Earlier, Copies
<1>1. /\ IsFiniteSet(E) /\ Cardinality(E) \in Nat
      /\ IsFiniteSet(C) /\ Cardinality(C) \in Nat
  <2>1. E \in SUBSET P /\ C \in SUBSET P
    OBVIOUS
  <2>2. QED
    BY <2>1, FS_Subset, FS_CardinalityType
<1>2. \A m \in P : num[m] \in F /\ num[m] \in Nat
  OBVIOUS
<1>3. ASSUME NEW m \in C
      PROVE  /\ Cardinality(Upto(F, num[m])) = Cardinality(E) + place[m]
             /\ place[m] \in 1..Cardinality(C)
  <2>1. Upto(F, num[m]) = {num[l] : l \in D(m)}
    <3>1. \A i \in Upto(F, num[m]) : \E l \in D(m) : num[l] = i
      BY DEF Upto
    <3>2. \A l \in D(m) : num[l] \in Upto(F, num[m])
      BY <1>2 DEF Upto
    <3> HIDE DEF D, C, E
    <3>3. QED
      BY <3>1, <3>2
  <2>2. IsFiniteSet(D(m))
    <3>1. D(m) \in SUBSET P
      OBVIOUS
    <3>2. QED
      BY <3>1, FS_Subset
  <2>3. Cardinality(Upto(F, num[m])) = Cardinality(D(m))
    <3>1. \A x, y \in D(m) : num[x] = num[y] => x = y
      OBVIOUS
    <3> HIDE DEF D, C, E
    <3>2. QED
      BY <2>1, <2>2, <3>1, ImageSize
  <2>4. D(m) = E \union (D(m) \cap C) /\ E \cap (D(m) \cap C) = {}
    <3>1. \A l \in E : l \in D(m)
      BY <1>2
    <3>2. \A l \in D(m) : ~(ky[l] > ky[m])
      BY <1>2
    <3>3. \A l \in D(m) : l \in E \/ l \in C
      BY <3>2
    <3>4. QED
      BY <3>1, <3>3
  <2>5. IsFiniteSet(D(m) \cap C) /\ Cardinality(D(m) \cap C) \in Nat
    BY <2>2, FS_Intersection, FS_CardinalityType
  <2>6. Cardinality(D(m)) = Cardinality(E) + Cardinality(D(m) \cap C)
    <3> HIDE DEF D, C, E
    <3>1. Cardinality(E \union (D(m) \cap C)) =
            Cardinality(E) + Cardinality(D(m) \cap C) - Cardinality(E \cap (D(m) \cap C))
      BY <1>1, <2>5, FS_Union
    <3>2. Cardinality(E \cap (D(m) \cap C)) = 0
      BY <2>4, FS_EmptySet
    <3>3. Cardinality(D(m)) = Cardinality(E \union (D(m) \cap C))
      BY <2>4
    <3>4. QED
      BY <1>1, <2>5, <3>1, <3>2, <3>3
  <2>7. m \in D(m) \cap C
    BY <1>2
  <2>8. Cardinality(D(m) \cap C) # 0
    BY <2>5, <2>7, FS_EmptySet
  <2>9. Cardinality(D(m) \cap C) <= Cardinality(C)
    <3>1. D(m) \cap C \in SUBSET C
      OBVIOUS
    <3>2. QED
      BY <1>1, <3>1, FS_Subset
  <2>10. place[m] = Cardinality(D(m) \cap C)
    OBVIOUS
  <2> HIDE DEF place, D, C, E
  <2>11. QED
    BY <1>1, <2>3, <2>5, <2>6, <2>8, <2>9, <2>10
<1>4. \A m \in C : num[m] = Kth(F, Cardinality(E) + place[m])
  <2> SUFFICES ASSUME NEW m \in C PROVE num[m] = Kth(F, Cardinality(E) + place[m])
    OBVIOUS
  <2>1. num[m] \in F
    OBVIOUS
  <2> HIDE DEF place, C, E
  <2>2. QED
    BY <1>3, <2>1, KthIsInverse
<1>5. place \in Injection(C, 1..Cardinality(C))
  <2>1. DOMAIN place = C /\ place \in [C -> 1..Cardinality(C)]
    BY <1>3
  <2>2. ASSUME NEW l \in C, NEW m \in C, place[l] = place[m] PROVE l = m
    <3>1. num[l] = num[m]
      <4> HIDE DEF place, C, E
      <4>1. QED
        BY <1>4, <2>2
    <3>2. QED
      BY <3>1
  <2> HIDE DEF place, C, E
  <2>3. QED
    BY <2>1, <2>2 DEF Injection, IsInjective
<1>6. \A k \in 1..Cardinality(C) : \E m \in C : place[m] = k
  <2> HIDE DEF place, C, E
  <2>1. IsFiniteSet(1..Cardinality(C)) /\ Cardinality(1..Cardinality(C)) = Cardinality(C)
    BY <1>1, FS_Interval
  <2>2. place \in Surjection(C, 1..Cardinality(C))
    BY <1>1, <1>5, <2>1, FS_Injection
  <2>3. QED
    BY <2>2 DEF Surjection
<1> HIDE DEF place, C, E
<1>7. ASSUME NEW m \in C
      PROVE  \E k \in 1..Cardinality(C) : num[m] = Kth(F, Cardinality(E) + k)
  BY <1>3, <1>4
<1>8. ASSUME NEW k \in 1..Cardinality(C)
      PROVE  \E m \in C : num[m] = Kth(F, Cardinality(E) + k)
  BY <1>4, <1>6
<1>9. NumberedByRank(P, F, num, E, C)
  BY <1>7, <1>8 DEF NumberedByRank
<1>10. QED
  BY <1>9 DEF C, E

(* The numbers of the peers of a node, once all nodes have a label. *)
LEMMA PeersByRank ==
  ASSUME OrderInv, Done, NEW n \in Nodes, NeedsNumber(n)
  PROVE  LET earlier == Cardinality({m \in Peers(n) : key[m] < key[n]})
             copies  == {m \in Peers(n) : key[m] = key[n]}
         IN  {label[m] : m \in copies} =
               {Numbered(base[n], KthFree(base[n], earlier + k)) : k \in 1..Cardinality(copies)}
<1> DEFINE b == base[n]
           P == Peers(n)
           F == FreeNumbers(b)
           N == Cardinality(Nodes) + Cardinality(blocked) + Cardinality(Singles)
           num == [m \in P |-> CHOOSE i \in 1..indexes[b] : label[m] = Numbered(b, i)]
           ky == [m \in P |-> key[m]]
<1>1. /\ b \in Places /\ indexes[b] \in Nat /\ n \in P /\ P \subseteq Nodes
      /\ \A m \in P : base[m] = b /\ NeedsNumber(m) /\ Labelled(m) /\ key[m] \in Nat
  BY LabelAssumption
     DEF OrderInv, IInv, TypeOK, Peers, NeedsNumber, Alone, Done, Labelled
<1>2. \A m \in P : num[m] \in 1..indexes[b] /\ label[m] = Numbered(b, num[m]) /\ Free(b, num[m])
  <2> SUFFICES ASSUME NEW m \in P
               PROVE  num[m] \in 1..indexes[b] /\ label[m] = Numbered(b, num[m]) /\ Free(b, num[m])
    OBVIOUS
  <2>1. PICK i \in 1..indexes[b] : label[m] = Numbered(b, i) /\ Free(b, i)
    BY <1>1 DEF OrderInv, NumbersGiven
  <2>2. num[m] \in 1..indexes[b] /\ label[m] = Numbered(b, num[m])
    BY <2>1
  <2>3. num[m] = i
    <3> HIDE DEF num
    <3>1. num[m] \in Nat /\ i \in Nat
      BY <1>1, <2>1, <2>2
    <3>2. Numbered(b, num[m]) = Numbered(b, i)
      BY <2>1, <2>2
    <3>3. QED
      BY <1>1, <3>1, <3>2, NumberedInjective
  <2>4. QED
    BY <2>1, <2>2, <2>3
<1>3. ky \in [P -> Nat] /\ \A m \in P : ky[m] = key[m]
  BY <1>1
<1> HIDE DEF num, ky
<1>4. \A l, m \in P : num[l] = num[m] => l = m
  BY <1>1, <1>2 DEF OrderInv, IInv, Distinct, Labelled
<1>5. \A l, m \in P : ky[l] < ky[m] => num[l] < num[m]
  BY <1>1, <1>2, <1>3 DEF OrderInv, InTurn
(* The free numbers up to a peer's own are in use. *)
<1>6. \A m \in P : \A i \in 1..num[m] : Free(b, i) => \E l \in P : num[l] = i
  <2> SUFFICES ASSUME NEW m \in P, NEW i \in 1..num[m], Free(b, i)
               PROVE  \E l \in P : num[l] = i
    OBVIOUS
  <2>1. i \in 1..indexes[b]
    BY <1>1, <1>2
  <2>2. PICK l \in Nodes : base[l] = b /\ label[l] = Numbered(b, i)
    BY <1>1, <2>1 DEF OrderInv, NumbersUsed
  <2>3. l \in P
    BY <2>2 DEF Peers
  <2>4. num[l] \in Nat /\ i \in Nat /\ Numbered(b, num[l]) = Numbered(b, i)
    BY <1>1, <1>2, <2>1, <2>2, <2>3
  <2>5. QED
    BY <1>1, <2>3, <2>4, NumberedInjective
(* Finiteness of what is counted. *)
<1>7. /\ IsFiniteSet(Nodes) /\ IsFiniteSet(P) /\ IsFiniteSet(blocked) /\ IsFiniteSet(Singles)
      /\ Cardinality(P) <= Cardinality(Nodes)
  <2>1. IsFiniteSet(P) /\ Cardinality(P) <= Cardinality(Nodes)
    <3>1. P \in SUBSET Nodes
      BY <1>1
    <3>2. QED
      BY <3>1, LabelAssumption, FS_Subset
  <2>2. IsFiniteSet(Singles)
    <3>1. {m \in Nodes : Alone(m)} \in SUBSET Nodes
      OBVIOUS
    <3>2. IsFiniteSet({m \in Nodes : Alone(m)})
      BY <3>1, LabelAssumption, FS_Subset
    <3>3. \A x, y \in {m \in Nodes : Alone(m)} : base[x] = base[y] => x = y
      BY DEF Alone
    <3>4. QED
      BY <3>2, <3>3, ImageSize DEF Singles
  <2>3. IsFiniteSet(blocked)
    <3>1. PICK g \in Reservable : blocked = g \union Builtin
      BY DEF OrderInv, GroupsBlocked
    <3>2. IsFiniteSet(g) /\ IsFiniteSet(Builtin)
      BY LabelAssumption
    <3>3. QED
      BY <3>1, <3>2, FS_Union
  <2>4. QED
    BY <2>1, <2>2, <2>3, LabelAssumption
<1>8. N \in Nat /\ \A m \in P : num[m] <= N
  <2>1. /\ IsFiniteSet(Reserved) /\ Cardinality(Reserved) \in Nat
        /\ Cardinality(Reserved) <= Cardinality(blocked) + Cardinality(Singles)
        /\ Cardinality(Nodes) \in Nat /\ Cardinality(blocked) \in Nat
        /\ Cardinality(Singles) \in Nat /\ Cardinality(P) \in Nat
    <3>1. /\ IsFiniteSet(Reserved)
          /\ Cardinality(Reserved) =
               Cardinality(blocked) + Cardinality(Singles) - Cardinality(blocked \cap Singles)
      BY <1>7, FS_Union DEF Reserved
    <3>2. IsFiniteSet(blocked \cap Singles)
      BY <1>7, FS_Intersection
    <3>3. /\ Cardinality(Reserved) \in Nat /\ Cardinality(blocked) \in Nat
          /\ Cardinality(Singles) \in Nat /\ Cardinality(blocked \cap Singles) \in Nat
          /\ Cardinality(Nodes) \in Nat /\ Cardinality(P) \in Nat
      BY <1>7, <3>1, <3>2, FS_CardinalityType
    <3>4. QED
      BY <3>1, <3>3
  <2>2. ASSUME NEW m \in P PROVE num[m] <= N
    <3> DEFINE A == {i \in 1..num[m] : Free(b, i)}
               B == {i \in 1..num[m] : ~Free(b, i)}
    <3>1. num[m] \in Nat
      BY <1>1, <1>2
    <3>2. /\ IsFiniteSet(1..num[m]) /\ Cardinality(1..num[m]) = num[m]
      BY <3>1, FS_Interval
    <3>3. /\ A \union B = 1..num[m] /\ A \cap B = {}
          /\ A \in SUBSET (1..num[m]) /\ B \in SUBSET (1..num[m])
      OBVIOUS
    <3>4. /\ IsFiniteSet(A) /\ Cardinality(A) \in Nat
          /\ IsFiniteSet(B) /\ Cardinality(B) \in Nat
      BY <3>2, <3>3, FS_Subset, FS_CardinalityType
    <3>5. Cardinality(A) <= Cardinality(P)
      <4>1. A \in SUBSET {num[l] : l \in P}
        BY <1>6
      <4>2. /\ IsFiniteSet({num[l] : l \in P})
            /\ Cardinality({num[l] : l \in P}) = Cardinality(P)
        BY <1>4, <1>7, ImageSize
      <4> HIDE DEF A
      <4>3. QED
        BY <4>1, <4>2, FS_Subset
    <3>6. Cardinality(B) <= Cardinality(Reserved)
      <4> DEFINE f == [i \in B |-> Numbered(b, i)]
      <4>1. f \in [B -> Reserved] /\ DOMAIN f = B
        BY DEF Free
      <4>2. \A i, j \in B : f[i] = f[j] => i = j
        BY <1>1, <3>1, NumberedInjective
      <4> HIDE DEF f, B
      <4>3. f \in Injection(B, Reserved)
        BY <4>1, <4>2 DEF Injection, IsInjective
      <4>4. QED
        BY <2>1, <4>3, FS_Injection
    <3>7. Cardinality(A \union B) = Cardinality(A) + Cardinality(B) - Cardinality(A \cap B)
      <4> HIDE DEF A, B
      <4>1. QED
        BY <3>4, FS_Union
    <3>8. Cardinality(A \cap B) = 0
      BY <3>3, FS_EmptySet
    <3>9. num[m] = Cardinality(A) + Cardinality(B)
      <4>1. Cardinality(A \union B) = num[m]
        BY <3>2, <3>3
      <4> HIDE DEF A, B
      <4>2. QED
        BY <3>4, <3>7, <3>8, <4>1
    <3> HIDE DEF A, B
    <3>10. QED
      BY <1>7, <2>1, <3>4, <3>5, <3>6, <3>9
  <2>3. QED
    BY <2>1, <2>2
<1>9. F \in SUBSET Nat /\ IsFiniteSet(F)
  <2>1. F \in SUBSET (1..N)
    BY DEF FreeNumbers
  <2>2. IsFiniteSet(1..N)
    <3> HIDE DEF N
    <3>1. QED
      BY <1>8, FS_Interval
  <2>3. F \in SUBSET Nat
    <3> HIDE DEF F, N
    <3>1. QED
      BY <1>8, <2>1
  <2> HIDE DEF F, N
  <2>4. QED
    BY <2>1, <2>2, <2>3, FS_Subset
<1>10. num \in [P -> F]
  <2>1. \A m \in P : num[m] \in F
    BY <1>1, <1>2, <1>8 DEF FreeNumbers, Free, Reserved
  <2>2. num = [m \in P |-> num[m]]
    BY DEF num
  <2>3. QED
    BY <2>1, <2>2
<1>11. \A m \in P : \A i \in F : i <= num[m] => \E l \in P : num[l] = i
  <2>1. \A i \in F : i \in Nat /\ i > 0 /\ Free(b, i)
    BY <1>8 DEF FreeNumbers, Free, Reserved
  <2>2. QED
    BY <1>1, <1>2, <1>6, <2>1
<1> DEFINE earlier == {m \in P : key[m] < key[n]}
           copies  == {m \in P : key[m] = key[n]}
<1>12. NumberedByRank(P, F, num, earlier, copies)
  <2>1. earlier = Earlier(P, ky, n) /\ copies = Copies(P, ky, n)
    BY <1>1, <1>3 DEF Earlier, Copies
  <2>2. NumberedByRank(P, F, num, Earlier(P, ky, n), Copies(P, ky, n))
    <3> HIDE DEF P, F
    <3>1. QED
      BY <1>1, <1>3, <1>4, <1>5, <1>7, <1>9, <1>10, <1>11, NumbersByRank
  <2>3. QED
    BY <2>1, <2>2
<1>13. \A k : KthFree(b, k) = Kth(F, k)
  BY DEF KthFree, Kth, Upto
<1>14. \A m \in copies : label[m] = Numbered(b, num[m])
  BY <1>2
<1> HIDE DEF F
<1>15. {label[m] : m \in copies} =
          {Numbered(b, KthFree(b, Cardinality(earlier) + k)) : k \in 1..Cardinality(copies)}
  <2> HIDE DEF copies, earlier, b
  <2>1. QED
    BY <1>12, <1>13, <1>14 DEF NumberedByRank
<1>16. QED
  BY <1>15


(* naming.Apply: whatever the order of the sources, the nodes of a place get *)
(* the free numbers in the order of their keys, copies of one endpoint among *)
(* themselves.                                                               *)
THEOREM Stability == Spec => []Stable
<1>1. OrderInv => Stable
  <2> SUFFICES ASSUME OrderInv, Done, NEW n \in Nodes
               PROVE  LET earlier == Cardinality({m \in Peers(n) : key[m] < key[n]})
                          copies  == {m \in Peers(n) : key[m] = key[n]}
                      IN  {label[m] : m \in copies} =
                            IF NeedsNumber(n)
                            THEN {Numbered(base[n], KthFree(base[n], earlier + k)) :
                                    k \in 1..Cardinality(copies)}
                            ELSE {base[n]}
    BY DEF Stable
  <2>1. CASE NeedsNumber(n)
    BY <2>1, PeersByRank
  <2>2. CASE ~NeedsNumber(n)
    <3>1. Peers(n) = {n} /\ label[n] = base[n]
      BY <2>2 DEF Peers, NeedsNumber, Alone, Done, OrderInv, IInv, Shape
    <3>2. {m \in Peers(n) : key[m] = key[n]} = {n}
      BY <3>1
    <3>3. QED
      BY <2>2, <3>1, <3>2
  <2>3. QED
    BY <2>1, <2>2
<1>2. QED
  BY <1>1, OrderInductive, PTL
==============================================================================
