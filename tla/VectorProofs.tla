--------------------------- MODULE VectorProofs -----------------------------
(***************************************************************************)
(* The ownership of memory by vectors, for any number of vectors and       *)
(* blocks, vectors of every length and any elements; and what the loops of *)
(* rbc_vec_##T##_lt and _eq compute.                                       *)
(***************************************************************************)
EXTENDS Vector, RecursionLemmas, SequenceTheorems

Inv == TypeOK /\ OneOwner

LEMMA ElementsTyped ==
  ASSUME Inv, NEW v \in Vectors
  PROVE  Elements(v) \in Seq(Values)
BY VectorAssumption DEF Inv, TypeOK, OneOwner, Elements

LEMMA ZerosTyped ==
  ASSUME NEW n \in Sizes, NEW value \in Values
  PROVE  [i \in 1 .. n |-> value] \in Seq(Values)
BY VectorAssumption DEF Sizes

LEMMA InvInit == Init => Inv
<1> SUFFICES ASSUME Init PROVE Inv
  OBVIOUS
<1>1. failed \in BOOLEAN
  BY Zenon DEF Init
<1> QED
  BY <1>1, VectorAssumption DEF Init, Inv, TypeOK, OneOwner, New, Vec

\* A constructor takes a block nobody owns for a variable that owns none.
LEMMA MadeKeepsInv ==
  ASSUME Inv, NEW v \in Vectors, NEW s \in Seq(Values), Made(v, s)
  PROVE  Inv'
<1>1. CASE /\ s = << >>
           /\ vec' = [vec EXCEPT ![v] = New]
           /\ UNCHANGED <<heap, failed, access>>
  BY <1>1 DEF Made, Inv, TypeOK, OneOwner, New, Vec
<1>2. ASSUME NEW b \in Blocks, heap[b] = Free, s # << >>,
             vec' = [vec EXCEPT ![v] = Vec(b, Len(s), Len(s))],
             heap' = [heap EXCEPT ![b] = s], UNCHANGED <<failed, access>>
      PROVE  Inv'
  <2>1. Len(s) \in Nat /\ s # Free /\ b # NULL
    BY VectorAssumption
  <2>2. TypeOK'
    <3>1. Vec(b, Len(s), Len(s)) \in
            [data : Blocks \cup {NULL}, size : Nat, cap : Nat]
      BY <2>1 DEF Vec
    <3>2. vec' \in [Vectors -> [data : Blocks \cup {NULL}, size : Nat, cap : Nat]]
      BY <1>2, <3>1 DEF Inv, TypeOK
    <3>3. \A u \in Vectors : vec'[u].size <= vec'[u].cap
      BY <1>2, <2>1 DEF Inv, TypeOK, Vec
    <3> QED
      BY <1>2, <3>2, <3>3 DEF Inv, TypeOK
  <2>3. \A u \in Vectors : vec[u].data # b
    BY <1>2, <2>1 DEF Inv, OneOwner
  <2>4. vec[v].data = NULL
    BY DEF Made
  <2>5. \A w \in Vectors : vec'[w].data = IF w = v THEN b ELSE vec[w].data
    BY <1>2 DEF Inv, TypeOK, Vec
  <2>6. \A c \in Blocks : heap'[c] = IF c = b THEN s ELSE heap[c]
    BY <1>2 DEF Inv, TypeOK
  <2>7. \A w \in Vectors : vec[w].data \in Blocks \cup {NULL}
    BY DEF Inv, TypeOK
  <2>8. OneOwner'
    <3>1. \A w \in Vectors : vec'[w].data # NULL => heap'[vec'[w].data] # Free
      BY <2>1, <2>5, <2>6, <2>7 DEF Inv, OneOwner
    <3>2. \A w, u \in Vectors :
            vec'[w].data # NULL /\ vec'[w].data = vec'[u].data => w = u
      BY <2>3, <2>5 DEF Inv, OneOwner
    <3>3. ASSUME NEW c \in Blocks, heap'[c] # Free
          PROVE  \E w \in Vectors : vec'[w].data = c
      <4>1. CASE c = b
        BY <2>5, <4>1
      <4>2. CASE c # b
        <5>1. PICK w \in Vectors : vec[w].data = c
          BY <2>6, <3>3, <4>2 DEF Inv, OneOwner
        <5>2. c # NULL
          BY VectorAssumption
        <5> QED
          BY <2>4, <2>5, <5>1, <5>2
      <4> QED
        BY <4>1, <4>2
    <3> QED
      BY <3>1, <3>2, <3>3 DEF OneOwner
  <2> QED
    BY <2>2, <2>8 DEF Inv
<1> QED
  BY <1>1, <1>2 DEF Made

LEMMA NoMemoryKeepsInv ==
  ASSUME Inv, NEW v \in Vectors, NEW s \in Seq(Values), NoMemory(v, s),
         access' \in {access, "null"}
  PROVE  Inv'
<1>1. Len(s) \in Nat
  OBVIOUS
<1> QED
  BY <1>1 DEF NoMemory, Inv, TypeOK, OneOwner, Vec

LEMMA FilledKeepsInv ==
  ASSUME Inv, NEW v \in Vectors, NEW s \in Seq(Values), Filled(v, s)
  PROVE  Inv'
BY MadeKeepsInv, NoMemoryKeepsInv DEF Filled

LEMMA InvNext == Inv /\ [Next]_vars => Inv'
<1> SUFFICES ASSUME Inv, [Next]_vars PROVE Inv'
  OBVIOUS
<1> USE VectorAssumption
<1>1. ASSUME NEW v \in Vectors, NEW n \in Sizes, with_size(v, n)
      PROVE  Inv'
  BY <1>1, ZerosTyped, MadeKeepsInv, NoMemoryKeepsInv DEF with_size
<1>2. ASSUME NEW v \in Vectors, NEW n \in Sizes, NEW value \in Values,
             with_size_and_value(v, n, value)
      PROVE  Inv'
  BY <1>2, ZerosTyped, FilledKeepsInv DEF with_size_and_value
<1>3. ASSUME NEW v \in Vectors, NEW s \in Contents,
             from(v, s) \/ from_list(v, s)
      PROVE  Inv'
  <2>1. s \in Seq(Values)
    BY DEF Contents, Sizes
  <2> QED
    BY <1>3, <2>1, FilledKeepsInv DEF from, from_list
<1>4. ASSUME NEW v \in Vectors, NEW u \in Vectors, copy(v, u)
      PROVE  Inv'
  BY <1>4, ElementsTyped, FilledKeepsInv DEF copy, Inv, TypeOK, OneOwner
<1>5. ASSUME NEW v \in Vectors, NEW u \in Vectors, move(v, u)
      PROVE  Inv'
  <2>1. New \in [data : Blocks \cup {NULL}, size : Nat, cap : Nat] /\ New.size <= New.cap
        /\ New.data = NULL
    BY DEF New, Vec
  <2>2. \A w \in Vectors :
          vec'[w] = IF w = v THEN vec[u] ELSE IF w = u THEN New ELSE vec[w]
    BY <1>5 DEF move, Inv, TypeOK
  <2>3. vec' \in [Vectors -> [data : Blocks \cup {NULL}, size : Nat, cap : Nat]]
    BY <1>5, <2>1 DEF move, Inv, TypeOK
  <2>4. TypeOK'
    BY <1>5, <2>1, <2>2, <2>3 DEF move, Inv, TypeOK
  <2>5. heap' = heap /\ (vec[v].data = NULL \/ v = u)
    BY <1>5 DEF move
  <2>6. OneOwner'
    BY <2>1, <2>2, <2>5 DEF Inv, OneOwner
  <2> QED
    BY <2>4, <2>6 DEF Inv
<1>6. ASSUME NEW v \in Vectors, NEW u \in Vectors, swap(v, u)
      PROVE  Inv'
  <2>1. \A w \in Vectors :
          vec'[w] = IF w = u THEN vec[v] ELSE IF w = v THEN vec[u] ELSE vec[w]
    BY <1>6 DEF swap, Inv, TypeOK
  <2>2. TypeOK'
    BY <1>6, <2>1 DEF swap, Inv, TypeOK
  <2>3. heap' = heap
    BY <1>6 DEF swap
  <2>4. OneOwner'
    BY <2>1, <2>3 DEF Inv, OneOwner
  <2> QED
    BY <2>2, <2>4 DEF Inv
<1>7. ASSUME NEW v \in Vectors, delete(v) \/ clear(v)
      PROVE  Inv'
  <2>1. /\ vec' = [vec EXCEPT ![v] = Vec(NULL, 0, vec[v].cap)]
        /\ heap' = [b \in Blocks |-> IF b = vec[v].data THEN Free ELSE heap[b]]
        /\ access' = access /\ failed' = failed
    BY <1>7 DEF delete, clear
  <2> DEFINE x == vec[v]
  <2>2. x \in [data : Blocks \cup {NULL}, size : Nat, cap : Nat]
    BY DEF Inv, TypeOK
  <2> DEFINE y == Vec(NULL, 0, x.cap)
  <2>3. /\ y \in [data : Blocks \cup {NULL}, size : Nat, cap : Nat]
        /\ y.data = NULL /\ y.size <= y.cap
    BY <2>2 DEF Vec
  <2>4. vec' = [vec EXCEPT ![v] = y]
    BY <2>1
  <2>5. TypeOK'
    <3> HIDE DEF x, y
    <3>1. vec' \in [Vectors -> [data : Blocks \cup {NULL}, size : Nat, cap : Nat]]
      BY <2>3, <2>4 DEF Inv, TypeOK
    <3>2. \A w \in Vectors : vec'[w].size <= vec'[w].cap
      BY <2>3, <2>4 DEF Inv, TypeOK
    <3>3. heap' \in [Blocks -> Seq(Values) \cup {Free}]
      BY <2>1 DEF Inv, TypeOK
    <3> QED
      BY <2>1, <3>1, <3>2, <3>3 DEF Inv, TypeOK
  <2>6. OneOwner'
    <3> HIDE DEF y
    <3>1. \A w \in Vectors : vec'[w] = IF w = v THEN y ELSE vec[w]
      BY <2>4 DEF Inv, TypeOK
    <3>2. \A w \in Vectors : vec[w].data \in Blocks \cup {NULL}
      BY DEF Inv, TypeOK
    <3>3. \A c \in Blocks :
            heap'[c] = IF c = vec[v].data THEN Free ELSE heap[c]
      BY <2>1
    <3> QED
      BY <2>3, <3>1, <3>2, <3>3 DEF Inv, OneOwner
  <2> QED
    BY <2>5, <2>6 DEF Inv
<1>8. ASSUME NEW v \in Vectors, NEW pos, at(v, pos)
      PROVE  Inv'
  BY <1>8 DEF at, Touch, Inv, TypeOK, OneOwner
<1>9. ASSUME NEW v \in Vectors, NEW pos \in Indices, NEW value \in Values,
             at_ref(v, pos, value)
      PROVE  Inv'
  <2>1. /\ access' \in {"asserted", "inside", "outside"}
        /\ vec' = vec /\ failed' = failed
    BY <1>9 DEF at_ref, Touch
  <2>2. CASE access' = "inside"
    <3>1. /\ pos < Len(Elements(v)) /\ pos \in Nat
          /\ heap' = [heap EXCEPT ![vec[v].data][pos + 1] = value]
      BY <1>9, <2>2 DEF at_ref, Touch, Indices
    <3>2. /\ vec[v].data \in Blocks
          /\ Elements(v) = heap[vec[v].data] /\ Elements(v) \in Seq(Values)
      BY <3>1, ElementsTyped DEF Elements, Inv, TypeOK
    <3>3. [Elements(v) EXCEPT ![pos + 1] = value] \in Seq(Values)
      BY <3>1, <3>2
    <3>4. heap' = [heap EXCEPT ![vec[v].data] =
                      [Elements(v) EXCEPT ![pos + 1] = value]]
      BY <3>1, <3>2
    <3>5. failed' \in BOOLEAN
      BY <2>1 DEF Inv, TypeOK
    <3>6. heap' \in [Blocks -> Seq(Values) \cup {Free}]
      BY <3>2, <3>3, <3>4 DEF Inv, TypeOK
    <3>7. TypeOK'
      BY <2>1, <3>5, <3>6 DEF Inv, TypeOK
    <3>8. OneOwner'
      BY <2>1, <3>2, <3>3, <3>4, VectorAssumption DEF Inv, TypeOK, OneOwner
    <3> QED
      BY <3>7, <3>8 DEF Inv
  <2>3. CASE access' # "inside"
    BY <1>9, <2>1, <2>3 DEF at_ref, Inv, TypeOK, OneOwner
  <2> QED
    BY <2>2, <2>3
<1>10. ASSUME NEW v \in Vectors, NEW u \in Vectors, compare(v, u)
       PROVE  Inv'
  BY <1>10 DEF compare, Inv, TypeOK, OneOwner
<1>11. CASE UNCHANGED vars
  BY <1>11 DEF vars, Inv, TypeOK, OneOwner
<1> QED
  BY <1>1, <1>2, <1>3, <1>4, <1>5, <1>6, <1>7, <1>8, <1>9, <1>10, <1>11
  DEF Next, front, back

\* Whatever is done with vectors of any length, no block leaks, is freed
\* twice or is shared.
THEOREM Ownership == Spec => []OneOwner
<1>1. Inv => OneOwner
  BY DEF Inv
<1> QED
  BY <1>1, InvInit, InvNext, PTL DEF Spec

\* Vectors stay what they are, and none is longer than its capacity.
THEOREM TypeCorrect == Spec => []TypeOK
<1>1. Inv => TypeOK
  BY DEF Inv
<1> QED
  BY <1>1, InvInit, InvNext, PTL DEF Spec

Sized ==
  \A v \in Vectors : WithoutMemory(v) \/ vec[v].size = Len(Elements(v))

\* The elements a constructor stores are as many as it says.
LEMMA MadeIsSized ==
  ASSUME Inv, Sized, NEW v \in Vectors, NEW s \in Seq(Values), Made(v, s)
  PROVE  Sized'
<1>1. CASE s = << >> /\ vec' = [vec EXCEPT ![v] = New] /\ UNCHANGED heap
  BY <1>1 DEF Inv, TypeOK, Sized, WithoutMemory, Elements, New, Vec
<1>2. ASSUME NEW b \in Blocks, heap[b] = Free,
             vec' = [vec EXCEPT ![v] = Vec(b, Len(s), Len(s))],
             heap' = [heap EXCEPT ![b] = s]
      PROVE  Sized'
  <2>1. \A w \in Vectors : vec[w].data \in Blocks \cup {NULL} /\ vec[w].data # b
    BY <1>2, VectorAssumption DEF Inv, TypeOK, OneOwner
  <2>2. vec'[v] = Vec(b, Len(s), Len(s)) /\ heap'[b] = s /\ b # NULL
    BY <1>2, VectorAssumption DEF Inv, TypeOK
  <2>3. \A w \in Vectors : w # v => vec'[w] = vec[w]
    BY <1>2 DEF Inv, TypeOK
  <2>4. \A c \in Blocks : c # b => heap'[c] = heap[c]
    BY <1>2 DEF Inv, TypeOK
  <2>5. vec'[v].size = Len(Elements(v)')
    BY <2>2 DEF Elements, Vec
  <2>6. ASSUME NEW w \in Vectors, w # v
        PROVE  WithoutMemory(w)' \/ vec'[w].size = Len(Elements(w)')
    BY <2>1, <2>3, <2>4, <2>6 DEF Elements, Sized, WithoutMemory
  <2> QED
    BY <2>5, <2>6 DEF Sized
<1> QED
  BY <1>1, <1>2 DEF Made

LEMMA NoMemoryIsSized ==
  ASSUME Inv, Sized, NEW v \in Vectors, NEW s \in Seq(Values), NoMemory(v, s)
  PROVE  Sized'
<1>1. vec'[v] = Vec(NULL, Len(s), Len(s)) /\ Len(s) > 0
  BY DEF NoMemory, Inv, TypeOK
<1>2. \A w \in Vectors : w # v => vec'[w] = vec[w]
  BY DEF NoMemory, Inv, TypeOK
<1>3. heap' = heap
  BY DEF NoMemory
<1> QED
  BY <1>1, <1>2, <1>3 DEF Sized, WithoutMemory, Elements, Vec

LEMMA SizedNext ==
  ASSUME Inv, Sized, [Next]_vars
  PROVE  Sized'
<1> USE VectorAssumption
<1>1. ASSUME NEW v \in Vectors, NEW s \in Seq(Values),
             Made(v, s) \/ NoMemory(v, s)
      PROVE  Sized'
  BY <1>1, MadeIsSized, NoMemoryIsSized
<1>2. ASSUME NEW v \in Vectors, NEW n \in Sizes, with_size(v, n)
      PROVE  Sized'
  BY <1>1, <1>2, ZerosTyped DEF with_size
<1>3. ASSUME NEW v \in Vectors, NEW n \in Sizes, NEW value \in Values,
             with_size_and_value(v, n, value)
      PROVE  Sized'
  BY <1>1, <1>3, ZerosTyped DEF with_size_and_value, Filled
<1>4. ASSUME NEW v \in Vectors, NEW s \in Contents,
             from(v, s) \/ from_list(v, s)
      PROVE  Sized'
  <2>1. s \in Seq(Values)
    BY DEF Contents, Sizes
  <2> QED
    BY <1>1, <1>4, <2>1 DEF from, from_list, Filled
<1>5. ASSUME NEW v \in Vectors, NEW u \in Vectors, copy(v, u)
      PROVE  Sized'
  <2>1. CASE Filled(v, Elements(u))
    BY <1>1, <2>1, ElementsTyped DEF Filled
  <2>2. CASE UNCHANGED <<vec, heap>>
    BY <2>2 DEF Sized, WithoutMemory, Elements
  <2> QED
    BY <1>5, <2>1, <2>2 DEF copy
<1>6. ASSUME NEW v \in Vectors, NEW u \in Vectors, move(v, u)
      PROVE  Sized'
  BY <1>6 DEF move, Inv, TypeOK, Sized, WithoutMemory, Elements, New, Vec
<1>7. ASSUME NEW v \in Vectors, NEW u \in Vectors, swap(v, u)
      PROVE  Sized'
  BY <1>7 DEF swap, Inv, TypeOK, Sized, WithoutMemory, Elements
<1>8. ASSUME NEW v \in Vectors, delete(v) \/ clear(v)
      PROVE  Sized'
  <2>1. vec'[v] = Vec(NULL, 0, vec[v].cap)
        /\ \A w \in Vectors : w # v => vec'[w] = vec[w]
    BY <1>8 DEF delete, clear, Inv, TypeOK
  <2>2. \A c \in Blocks : c # vec[v].data => heap'[c] = heap[c]
    BY <1>8 DEF delete, clear
  <2>3. vec'[v].size = Len(Elements(v)')
    BY <2>1 DEF Elements, Vec
  <2>4. ASSUME NEW w \in Vectors, w # v
        PROVE  WithoutMemory(w)' \/ vec'[w].size = Len(Elements(w)')
    <3>1. vec[w].data = NULL \/ vec[w].data # vec[v].data
      BY <2>4 DEF Inv, OneOwner
    <3>2. vec[w].data \in Blocks \cup {NULL}
      BY DEF Inv, TypeOK
    <3> QED
      BY <2>1, <2>2, <2>4, <3>1, <3>2 DEF Sized, WithoutMemory, Elements
  <2> QED
    BY <2>3, <2>4 DEF Sized
<1>9. ASSUME NEW v \in Vectors, NEW pos \in Indices, NEW value \in Values,
             at_ref(v, pos, value)
      PROVE  Sized'
  <2>1. vec' = vec
    BY <1>9 DEF at_ref
  <2>2. ASSUME NEW w \in Vectors
        PROVE  Len(Elements(w)') = Len(Elements(w))
    <3>1. CASE heap' = heap
      BY <2>1, <3>1 DEF Elements
    <3>2. CASE heap' = [heap EXCEPT ![vec[v].data][pos + 1] = value]
      <4>1. vec[w].data \in Blocks \cup {NULL} /\ Elements(w) \in Seq(Values)
        BY ElementsTyped DEF Inv, TypeOK
      <4>2. CASE vec[w].data = NULL
        BY <2>1, <4>2 DEF Elements
      <4>3. CASE vec[w].data # NULL
        <5>1. Elements(w) = heap[vec[w].data] /\ vec[w].data \in Blocks
              /\ Elements(w)' = heap'[vec[w].data]
          BY <2>1, <4>1, <4>3 DEF Elements
        <5>2. \/ Elements(w)' = Elements(w)
              \/ Elements(w)' = [Elements(w) EXCEPT ![pos + 1] = value]
          BY <3>2, <5>1 DEF Inv, TypeOK
        <5> QED
          BY <4>1, <5>2
      <4> QED
        BY <4>2, <4>3
    <3> QED
      BY <1>9, <3>1, <3>2 DEF at_ref
  <2> QED
    BY <2>1, <2>2 DEF Sized, WithoutMemory
<1>10. ASSUME UNCHANGED <<vec, heap>>
       PROVE  Sized'
  BY <1>10 DEF Sized, WithoutMemory, Elements
<1> QED
  BY <1>2, <1>3, <1>4, <1>5, <1>6, <1>7, <1>8, <1>9, <1>10
  DEF Next, front, back, at, compare, vars

\* Only a failed calloc takes the memory of a vector away.
LEMMA MemoryNext ==
  ASSUME Inv, Sized, ~failed', [Next]_vars,
         ~failed => access # "null" /\ \A v \in Vectors : ~WithoutMemory(v)
  PROVE  access' # "null" /\ \A v \in Vectors : ~WithoutMemory(v)'
<1> USE VectorAssumption
<1>0. access # "null" /\ \A v \in Vectors : ~WithoutMemory(v)
  <2>1. failed' = failed \/ failed' = TRUE
    BY DEF Next, with_size, with_size_and_value, from, from_list, copy, move,
       swap, delete, clear, at, at_ref, front, back, compare, Filled, Made,
       NoMemory, vars
  <2>2. ~failed
    BY <2>1, Zenon
  <2> QED
    BY <2>2
<1>1. ASSUME NEW v \in Vectors, NEW s, Made(v, s)
      PROVE  access' # "null" /\ \A w \in Vectors : ~WithoutMemory(w)'
  <2>1. CASE vec' = [vec EXCEPT ![v] = New]
    <3>1. vec'[v] = New /\ \A w \in Vectors : w # v => vec'[w] = vec[w]
      BY <2>1 DEF Inv, TypeOK
    <3>2. access' = access
      BY <1>1 DEF Made
    <3> QED
      BY <1>0, <3>1, <3>2 DEF WithoutMemory, New, Vec
  <2>2. ASSUME NEW b \in Blocks, vec' = [vec EXCEPT ![v] = Vec(b, Len(s), Len(s))]
        PROVE  \A w \in Vectors : ~WithoutMemory(w)'
    BY <1>0, <2>2 DEF Inv, TypeOK, WithoutMemory, Vec
  <2> QED
    BY <1>0, <1>1, <2>1, <2>2 DEF Made
<1>2. ASSUME NEW v \in Vectors, NEW u \in Vectors, move(v, u)
      PROVE  access' # "null" /\ \A w \in Vectors : ~WithoutMemory(w)'
  <2>1. \A w \in Vectors :
          vec'[w] = IF w = v THEN vec[u] ELSE IF w = u THEN New ELSE vec[w]
    BY <1>2 DEF move, Inv, TypeOK
  <2>2. access' = access
    BY <1>2 DEF move
  <2> QED
    BY <1>0, <2>1, <2>2 DEF WithoutMemory, New, Vec
<1>3. ASSUME NEW v \in Vectors, NEW u \in Vectors, swap(v, u)
      PROVE  access' # "null" /\ \A w \in Vectors : ~WithoutMemory(w)'
  BY <1>0, <1>3 DEF swap, Inv, TypeOK, WithoutMemory
<1>4. ASSUME NEW v \in Vectors, delete(v)
      PROVE  access' # "null" /\ \A w \in Vectors : ~WithoutMemory(w)'
  <2>1. vec'[v] = Vec(NULL, 0, vec[v].cap)
        /\ \A w \in Vectors : w # v => vec'[w] = vec[w]
    BY <1>4 DEF delete, Inv, TypeOK
  <2> QED
    BY <1>0, <1>4, <2>1 DEF delete, WithoutMemory, Vec
<1>5. ASSUME vec' = vec, access' = access \/ access' \in {"asserted", "inside", "outside"}
      PROVE  access' # "null" /\ \A w \in Vectors : ~WithoutMemory(w)'
  BY <1>0, <1>5 DEF WithoutMemory
<1>6. ASSUME NEW v \in Vectors, NEW pos, NEW value, at(v, pos) \/ at_ref(v, pos, value)
      PROVE  vec' = vec /\ access' \in {"asserted", "inside", "outside"}
  BY <1>6 DEF at, at_ref, Touch
<1>7. ASSUME NEW v \in Vectors, NEW u \in Vectors, compare(v, u)
      PROVE  vec' = vec /\ access' \in {"asserted", "inside", "outside"}
  BY <1>7 DEF compare
<1> QED
  BY <1>1, <1>2, <1>3, <1>4, <1>5, <1>6, <1>7
  DEF Next, with_size, with_size_and_value, from, from_list, copy, Filled,
      NoMemory, clear, front, back, vars

\* Only the elements of a vector without memory are outside of the memory
\* its size promises.
LEMMA AccessNext ==
  ASSUME Inv, Sized, access = "outside" => \E v \in Vectors : WithoutMemory(v),
         [Next]_vars, access' = "outside"
  PROVE  \E v \in Vectors : WithoutMemory(v)'
<1>1. ASSUME NEW v \in Vectors, NEW pos, Touch(v, pos), vec' = vec
      PROVE  WithoutMemory(v)'
  <2>1. pos < vec[v].size /\ ~(pos < Len(Elements(v)))
    BY <1>1 DEF Touch, InRange
  <2>2. vec[v].size # Len(Elements(v))
    BY <2>1
  <2> QED
    BY <1>1, <2>2 DEF Sized, WithoutMemory
<1>4. ASSUME NEW v \in Vectors, NEW u \in Vectors, WithoutMemory(u), vec' = vec
      PROVE  WithoutMemory(u)'
  BY <1>4 DEF WithoutMemory
<1>5. ASSUME NEW v \in Vectors, NEW u \in Vectors, compare(v, u),
             access' = "outside"
      PROVE  WithoutMemory(v)' \/ WithoutMemory(u)'
  <2>1. vec[v].size \in Nat /\ vec[u].size \in Nat /\ vec' = vec
    BY <1>5 DEF compare, Inv, TypeOK
  <2>2. \/ ~(Smaller(vec[v].size, vec[u].size) <= Len(Elements(v)))
        \/ ~(Smaller(vec[v].size, vec[u].size) <= Len(Elements(u)))
    BY <1>5 DEF compare
  <2>3. \/ vec[v].size # Len(Elements(v))
        \/ vec[u].size # Len(Elements(u))
    BY <2>1, <2>2 DEF Smaller
  <2> QED
    BY <2>1, <2>3 DEF Sized, WithoutMemory
<1>6. CASE UNCHANGED vars
  BY <1>6 DEF vars, WithoutMemory
<1> QED
  <2>1. SUFFICES ASSUME Next PROVE \E v \in Vectors : WithoutMemory(v)'
    BY <1>6
  <2>2. access # "outside" /\ access' # access
    BY <2>1 DEF Next
  <2>3. PICK v \in Vectors :
          \/ \E u \in Vectors : copy(v, u) \/ compare(v, u)
          \/ front(v) \/ back(v)
          \/ \E pos \in Indices : at(v, pos)
          \/ \E pos \in Indices, value \in Values : at_ref(v, pos, value)
    BY <2>1, <2>2 DEF Next, with_size, with_size_and_value, from, from_list,
       Filled, NoMemory, Made, move, swap, delete, clear
  <2>4. CASE \E u \in Vectors : copy(v, u)
    BY <1>4, <2>2, <2>4 DEF copy, Filled, Made
  <2>5. CASE front(v) \/ back(v) \/ \E pos \in Indices : at(v, pos)
    BY <1>1, <2>5 DEF front, back, at
  <2>6. CASE \E pos \in Indices, value \in Values : at_ref(v, pos, value)
    BY <1>1, <2>6 DEF at_ref
  <2>7. CASE \E u \in Vectors : compare(v, u)
    BY <1>5, <2>7
  <2> QED
    BY <2>3, <2>4, <2>5, <2>6, <2>7

\* The size every vector reports is that of its memory, and no index that
\* the assertion lets through and no element that a copy or a comparison
\* reads is outside of it, unless calloc failed for that vector or, copied or
\* moved, for another; until calloc fails there is no such vector.
THEOREM AssertionSuffices == Spec => []SizeIsMemory
<1>1. Init => SizeIsMemory
  BY DEF Init, SizeIsMemory, InRange, Indices, WithoutMemory, Elements, New, Vec
<1>2. Inv /\ SizeIsMemory /\ [Next]_vars => SizeIsMemory'
  <2> SUFFICES ASSUME Inv, SizeIsMemory, [Next]_vars PROVE SizeIsMemory'
    OBVIOUS
  <2>1. Sized /\ Sized'
    BY SizedNext DEF SizeIsMemory, Sized
  <2>2. access' = "outside" => \E v \in Vectors : WithoutMemory(v)'
    BY <2>1, AccessNext DEF SizeIsMemory
  <2>3. ~failed' => access' # "null" /\ \A v \in Vectors : ~WithoutMemory(v)'
    BY <2>1, MemoryNext DEF SizeIsMemory
  <2>4. \A v \in Vectors, pos \in Indices :
          InRange(v, pos)' => WithoutMemory(v)' \/ pos < Len(Elements(v)')
    BY <2>1 DEF Sized, InRange
  <2> QED
    BY <2>1, <2>2, <2>3, <2>4 DEF SizeIsMemory, Sized
<1> QED
  BY <1>1, <1>2, InvInit, InvNext, PTL DEF Spec

-----------------------------------------------------------------------------
(***************************************************************************)
(* The order of vectors.  The loop of rbc_vec_##T##_lt is a recursive      *)
(* function in the model; what it returns is found by induction over how   *)
(* much of the two sequences is left.                                      *)
(***************************************************************************)

\* From the i-th element on, s comes before t.
Before(s, t, i) ==
  \/ \E j \in 1 .. Len(s) :
       /\ i <= j /\ j <= Len(t) /\ s[j] < t[j]
       /\ \A k \in i .. j - 1 : s[k] = t[k]
  \/ Len(s) < Len(t) /\ i <= Len(t) /\ \A k \in i .. Len(s) : s[k] = t[k]

\* What one turn of the loop at the i-th elements makes of the rest.
Turn(s, t, i, rest) ==
  IF i > Len(s) \/ i > Len(t)
    THEN i > Len(s) /\ i <= Len(t)
    ELSE s[i] < t[i] \/ (~(t[i] < s[i]) /\ rest)

LEMMA BeforeTurns ==
  ASSUME NEW s \in Seq(Int), NEW t \in Seq(Int), NEW i \in Nat \ {0}
  PROVE  Before(s, t, i) <=> Turn(s, t, i, Before(s, t, i + 1))
<1>0. Len(s) \in Nat /\ Len(t) \in Nat
  OBVIOUS
<1>1. CASE i > Len(s)
  BY <1>0, <1>1 DEF Before, Turn
<1>2. CASE i <= Len(s) /\ i > Len(t)
  BY <1>0, <1>2 DEF Before, Turn
<1>3. CASE i <= Len(s) /\ i <= Len(t)
  <2>1. s[i] \in Int /\ t[i] \in Int
    BY <1>3
  <2>2. CASE s[i] < t[i]
    BY <1>0, <1>3, <2>1, <2>2 DEF Before, Turn
  <2>3. CASE t[i] < s[i]
    BY <1>0, <1>3, <2>1, <2>3 DEF Before, Turn
  <2>4. CASE s[i] = t[i]
    <3>1. ASSUME Before(s, t, i) PROVE Before(s, t, i + 1)
      BY <1>0, <1>3, <2>1, <2>4, <3>1 DEF Before
    <3>2. ASSUME Before(s, t, i + 1) PROVE Before(s, t, i)
      BY <1>0, <1>3, <2>1, <2>4, <3>2 DEF Before
    <3>3. Turn(s, t, i, Before(s, t, i + 1)) <=> Before(s, t, i + 1)
      BY <1>3, <2>1, <2>4 DEF Turn
    <3> QED BY <3>1, <3>2, <3>3
  <2> QED BY <2>1, <2>2, <2>3, <2>4
<1> QED BY <1>0, <1>1, <1>2, <1>3

LEMMA SameTruth ==
  ASSUME NEW p \in BOOLEAN, NEW q \in BOOLEAN, p <=> q
  PROVE  p = q
OBVIOUS

LEMMA BeforeIsTurn ==
  ASSUME NEW s \in Seq(Int), NEW t \in Seq(Int), NEW i \in Nat \ {0}
  PROVE  Before(s, t, i) = Turn(s, t, i, Before(s, t, i + 1))
<1> DEFINE p == Before(s, t, i)
           q == Turn(s, t, i, Before(s, t, i + 1))
<1>1. p \in BOOLEAN
  BY Zenon DEF Before
<1>2. q \in BOOLEAN
  BY Zenon DEF Turn
<1>3. p <=> q
  BY BeforeTurns
<1> HIDE DEF p, q
<1>4. p = q
  BY <1>1, <1>2, <1>3, SameTruth
<1> QED BY <1>4 DEF p, q

\* The loop of lt.
Loop(s, t, less) == [i \in Nat |-> Turn(s, t, i, less[i + 1])]

\* The sizes of vectors with memory are the lengths of what they hold.
LEMMA LessUnfolds ==
  ASSUME NEW v, NEW u,
         vec[v].size = Len(Elements(v)), vec[u].size = Len(Elements(u))
  PROVE  lt(v, u) =
           (CHOOSE less : less = Loop(Elements(v), Elements(u), less))[1]
BY DEF lt, Loop, Turn

LEMMA LoopExists ==
  ASSUME NEW s \in Seq(Int), NEW t \in Seq(Int)
  PROVE  \E less : less = Loop(s, t, less)
<1> DEFINE less == [i \in Nat |-> IF i = 0 THEN Turn(s, t, 0, Before(s, t, 1))
                                          ELSE Before(s, t, i)]
<1>1. \A i \in Nat : less[i + 1] = Before(s, t, i + 1)
  OBVIOUS
<1>2. ASSUME NEW i \in Nat PROVE less[i] = Turn(s, t, i, less[i + 1])
  <2>1. less[i + 1] = Before(s, t, i + 1)
    BY <1>1
  <2>2. CASE i = 0
    BY <2>1, <2>2
  <2>3. CASE i # 0
    <3>1. less[i] = Before(s, t, i)
      BY <2>3
    <3>2. Before(s, t, i) = Turn(s, t, i, Before(s, t, i + 1))
      BY <2>3, BeforeIsTurn
    <3> HIDE DEF less
    <3> QED BY <2>1, <3>1, <3>2
  <2> QED BY <2>2, <2>3
<1>3. less = Loop(s, t, less)
  BY <1>2 DEF Loop
<1> QED BY <1>3

LEMMA LessIsBefore ==
  ASSUME NEW v, NEW u,
         Elements(v) \in Seq(Int), vec[v].size = Len(Elements(v)),
         Elements(u) \in Seq(Int), vec[u].size = Len(Elements(u))
  PROVE  lt(v, u) <=> Before(Elements(v), Elements(u), 1)
<1> DEFINE s == Elements(v)
           t == Elements(u)
<1>0. s \in Seq(Int) /\ t \in Seq(Int)
  OBVIOUS
<1> DEFINE less == CHOOSE less : less = Loop(s, t, less)
<1>1. less = Loop(s, t, less) /\ lt(v, u) = less[1]
  BY LoopExists, LessUnfolds
<1> HIDE DEF less, s, t
<1>2. \A i \in Nat : less[i] = Turn(s, t, i, less[i + 1])
  BY <1>1 DEF Loop
<1> DEFINE T == {n \in Nat : \A i \in Nat \ {0} :
                   i + n > Len(s) => less[i] = Before(s, t, i)}
<1>3. 0 \in T
  <2> SUFFICES ASSUME NEW i \in Nat \ {0}, i > Len(s) PROVE less[i] = Before(s, t, i)
    OBVIOUS
  <2>1. less[i] = Turn(s, t, i, Before(s, t, i + 1))
    BY <1>2 DEF Turn
  <2> QED BY <1>0, <2>1, BeforeIsTurn
<1>4. ASSUME NEW n \in Nat, n \in T PROVE n + 1 \in T
  <2> SUFFICES ASSUME NEW i \in Nat \ {0}, i + (n + 1) > Len(s)
               PROVE  less[i] = Before(s, t, i)
    OBVIOUS
  <2>1. less[i + 1] = Before(s, t, i + 1)
    BY <1>4
  <2>2. less[i] = Turn(s, t, i, Before(s, t, i + 1))
    BY <1>2, <2>1
  <2> QED BY <1>0, <2>2, BeforeIsTurn
<1>5. Len(s) \in T
  <2>1. Len(s) \in Nat
    BY <1>0
  <2> HIDE DEF T
  <2> QED BY <2>1, <1>3, <1>4, NaturalInduction
<1>6. less[1] = Before(s, t, 1)
  BY <1>0, <1>5
<1> QED BY <1>1, <1>6 DEF s, t

\* The first place where two sequences differ decides.
LEMMA FirstDifference ==
  ASSUME NEW s \in Seq(Int), NEW t \in Seq(Int), NEW k \in Nat,
         1 <= k, k <= Len(s), k <= Len(t), s[k] < t[k],
         \A m \in 1 .. k - 1 : s[m] = t[m]
  PROVE  Before(s, t, 1) /\ ~Before(t, s, 1)
<1>0. /\ Len(s) \in Nat /\ Len(t) \in Nat
      /\ \A j \in 1 .. Len(s) : s[j] \in Int
      /\ \A j \in 1 .. Len(t) : t[j] \in Int
  OBVIOUS
<1>1. Before(s, t, 1)
  BY <1>0 DEF Before
<1>2. ~Before(t, s, 1)
  <2> SUFFICES ASSUME Before(t, s, 1) PROVE FALSE
    OBVIOUS
  <2>1. CASE Len(t) < Len(s) /\ \A m \in 1 .. Len(t) : t[m] = s[m]
    BY <1>0, <2>1
  <2>2. ASSUME NEW j \in 1 .. Len(t), j <= Len(s), t[j] < s[j],
               \A m \in 1 .. j - 1 : t[m] = s[m]
        PROVE FALSE
    <3>1. j \in Int /\ s[j] \in Int /\ t[j] \in Int
      BY <1>0, <2>2
    <3>2. j # k /\ s[k] \in Int /\ t[k] \in Int
      BY <1>0, <2>2
    <3>3. ~(k < j)
      BY <2>2, <3>2
    <3>4. ~(j < k)
      BY <2>2, <3>1
    <3> QED BY <3>1, <3>2, <3>3, <3>4
  <2> QED BY <2>1, <2>2 DEF Before
<1> QED BY <1>1, <1>2

\* Exactly one of them: the first place where they differ decides, or the
\* lengths do.
LEMMA Trichotomy ==
  ASSUME NEW s \in Seq(Int), NEW t \in Seq(Int)
  PROVE  /\ s # t => Before(s, t, 1) \/ Before(t, s, 1)
         /\ ~(Before(s, t, 1) /\ Before(t, s, 1))
         /\ s = t => ~Before(s, t, 1) /\ ~Before(t, s, 1)
<1>0. /\ Len(s) \in Nat /\ Len(t) \in Nat
      /\ \A j \in 1 .. Len(s) : s[j] \in Int
      /\ \A j \in 1 .. Len(t) : t[j] \in Int
  OBVIOUS
<1> DEFINE Apart == {k \in Nat : /\ 1 <= k /\ k <= Len(s) /\ k <= Len(t)
                                /\ s[k] # t[k]}
<1>1. CASE Apart # {}
  <2>1. PICK k \in Apart : \A m \in Apart : k <= m
    <3>1. Apart \subseteq Nat
      OBVIOUS
    <3> HIDE DEF Apart
    <3> QED BY <1>1, <3>1, LeastMember
  <2>2. /\ k \in Nat /\ 1 <= k /\ k <= Len(s) /\ k <= Len(t)
        /\ s[k] # t[k] /\ s[k] \in Int /\ t[k] \in Int
    BY <1>0, <2>1
  <2>3. ASSUME NEW m \in 1 .. k - 1 PROVE s[m] = t[m]
    <3>1. m \in Nat /\ 1 <= m /\ m <= Len(s) /\ m <= Len(t) /\ ~(k <= m)
      BY <1>0, <2>2
    <3> QED BY <2>1, <3>1
  <2>4. s # t
    BY <2>2
  <2> HIDE DEF Apart
  <2>5. CASE s[k] < t[k]
    BY <2>2, <2>3, <2>4, <2>5, FirstDifference
  <2>6. CASE t[k] < s[k]
    BY <2>2, <2>3, <2>4, <2>6, FirstDifference
  <2> QED BY <2>2, <2>5, <2>6
<1>2. CASE Apart = {}
  <2>1. \A j \in Nat : 1 <= j /\ j <= Len(s) /\ j <= Len(t) => s[j] = t[j]
    BY <1>2
  <2>2. Before(s, t, 1) <=> Len(s) < Len(t)
    BY <1>0, <2>1 DEF Before
  <2>3. Before(t, s, 1) <=> Len(t) < Len(s)
    BY <1>0, <2>1 DEF Before
  <2>4. Len(s) = Len(t) => s = t
    BY <1>0, <2>1, SeqEqual
  <2> QED BY <1>0, <2>2, <2>3, <2>4
<1> QED BY <1>1, <1>2

\* For vectors of any length and any values, of which none is the outcome of a
\* failed calloc: lt is the lexicographic order, eq is equality, and the other
\* three comparisons agree with them.
THEOREM VectorsOrdered == Spec => []OrderIsLexicographic
<1>1. Inv /\ Sized => OrderIsLexicographic
  <2> SUFFICES ASSUME Inv, Sized,
                      NEW v \in Vectors, ~WithoutMemory(v),
                      NEW u \in Vectors, ~WithoutMemory(u)
               PROVE  LET s == Elements(v)
                          t == Elements(u)
                          agree(n) == \A i \in 1 .. n : s[i] = t[i]
                          before == \/ \E i \in 1 .. Len(s) :
                                         i <= Len(t) /\ agree(i - 1) /\ s[i] < t[i]
                                    \/ Len(s) < Len(t) /\ agree(Len(s))
                      IN  /\ lt(v, u) <=> before
                          /\ le(v, u) <=> before \/ s = t
                          /\ eq(v, u) <=> s = t
                          /\ gt(v, u) <=> ~before /\ s # t
                          /\ ge(v, u) <=> ~before
    BY DEF OrderIsLexicographic
  <2> DEFINE s == Elements(v)
             t == Elements(u)
             before == \/ \E i \in 1 .. Len(s) :
                            i <= Len(t) /\ (\A k \in 1 .. i - 1 : s[k] = t[k]) /\ s[i] < t[i]
                       \/ Len(s) < Len(t) /\ \A k \in 1 .. Len(s) : s[k] = t[k]
  <2>1. s \in Seq(Int) /\ t \in Seq(Int)
    <3>1. s \in Seq(Values) /\ t \in Seq(Values)
      BY ElementsTyped
    <3> HIDE DEF s, t
    <3> QED BY <3>1, VectorAssumption, SeqMonotonic
  <2>2. vec[v].size = Len(s) /\ vec[u].size = Len(t)
    BY DEF Sized
  <2>3. eq(v, u) <=> Len(s) = Len(t) /\ \A i \in 1 .. Len(s) : s[i] = t[i]
    BY <2>2 DEF eq
  <2>4. /\ lt(v, u) <=> Before(s, t, 1)
        /\ lt(u, v) <=> Before(t, s, 1)
    BY <2>1, <2>2, LessIsBefore
  <2> HIDE DEF s, t
  <2>5. eq(v, u) <=> s = t
    BY <2>1, <2>3, SeqEqual
  <2>6. Before(s, t, 1) <=> before
    BY <2>1 DEF Before
  <2>7. /\ lt(v, u) <=> before
        /\ le(v, u) <=> before \/ s = t
        /\ gt(v, u) <=> ~before /\ s # t
        /\ ge(v, u) <=> ~before
    BY <2>1, <2>4, <2>6, Trichotomy DEF le, gt, ge
  <2> QED BY <2>5, <2>7 DEF s, t
<1>2. Init => Sized
  <2> SUFFICES ASSUME Init, NEW v \in Vectors
               PROVE  vec[v].size = Len(Elements(v))
    BY DEF Sized
  <2>1. vec[v] = New
    BY Zenon DEF Init
  <2>2. vec[v].data = NULL /\ vec[v].size = 0
    BY <2>1 DEF New, Vec
  <2> QED
    BY <2>2 DEF Elements
<1>3. Inv /\ Sized /\ [Next]_vars => Sized'
  BY SizedNext
<1> QED
  BY <1>1, <1>2, <1>3, InvInit, InvNext, PTL DEF Spec

=============================================================================
