------------------------------- MODULE Vector -------------------------------
(***************************************************************************)
(* The vectors that RBC_VECTOR_IMPL_GENERIC makes (containers/vector.h):   *)
(* structures of a pointer, a size and a capacity, made and taken apart by *)
(* a client in any order, and the blocks of memory behind them.  The       *)
(* client puts a new vector only where none owns memory, as C makes it.    *)
(* calloc may fail, and no constructor looks at that: such a vector has a  *)
(* size and no memory, which only its copies and moves can have as well.   *)
(* The operations that are declared and not defined, or that are defined   *)
(* to fail an assertion (push_back, pop_back), are left out.               *)
(***************************************************************************)
EXTENDS Integers, Sequences

CONSTANTS
  Vectors,       \* the client's variables of type rbc_vector
  Blocks,        \* the blocks calloc can return
  Values,        \* what an element can be: integers, with 0
  NULL, Free,    \* the null pointer; the content of a block not allocated
  MaxSize,       \* bound: the longest vector made
  USIZE_MAX      \* indices are computed modulo USIZE_MAX + 1

ASSUME VectorAssumption ==
  /\ NULL \notin Blocks
  /\ Values \subseteq Int /\ 0 \in Values
  /\ Free \notin Seq(Values)
  /\ MaxSize \in Nat /\ USIZE_MAX \in Nat /\ MaxSize < USIZE_MAX

VARIABLES
  vec,      \* the structure in each variable
  heap,     \* the content of each block
  failed,   \* whether calloc has returned NULL yet
  access    \* where the last access to an element went: "none", "inside",
            \* "asserted" when RBC_ASSERT_X stopped it, "outside", or
            \* "null" for the elements a constructor stores at NULL

vars == <<vec, heap, failed, access>>

Sizes == 0 .. MaxSize
Indices == 0 .. USIZE_MAX
Contents == UNION {[1 .. n -> Values] : n \in Sizes}

Vec(data, size, cap) == [data |-> data, size |-> size, cap |-> cap]
New == Vec(NULL, 0, 0)

Smaller(m, n) == IF m < n THEN m ELSE n

Elements(v) == IF vec[v].data = NULL THEN << >> ELSE heap[vec[v].data]

\* What a failed calloc leaves.
WithoutMemory(v) == vec[v].data = NULL /\ vec[v].size > 0

Init ==
  /\ vec = [v \in Vectors |-> New]
  /\ heap = [b \in Blocks |-> Free]
  /\ failed = FALSE
  /\ access = "none"

(***************************************************************************)
(* Constructors                                                            *)
(***************************************************************************)
\* with_size and the elements then stored: a failed calloc is not looked at.
Made(v, s) ==
  /\ vec[v].data = NULL /\ UNCHANGED failed
  /\ \/ /\ s = << >>
        /\ vec' = [vec EXCEPT ![v] = New]
        /\ UNCHANGED <<heap, access>>
     \/ \E b \in Blocks :
          /\ s # << >> /\ heap[b] = Free
          /\ vec' = [vec EXCEPT ![v] = Vec(b, Len(s), Len(s))]
          /\ heap' = [heap EXCEPT ![b] = s]
          /\ UNCHANGED access

NoMemory(v, s) ==
  /\ vec[v].data = NULL /\ s # << >>
  /\ vec' = [vec EXCEPT ![v] = Vec(NULL, Len(s), Len(s))]
  /\ failed' = TRUE
  /\ UNCHANGED heap

with_size(v, n) ==
  LET zeros == [i \in 1 .. n |-> 0]
  IN  Made(v, zeros) \/ (NoMemory(v, zeros) /\ UNCHANGED access)

\* The constructors that store elements.
Filled(v, s) == Made(v, s) \/ (NoMemory(v, s) /\ access' = "null")

with_size_and_value(v, n, value) == Filled(v, [i \in 1 .. n |-> value])

\* A range that ends before it begins makes an empty vector.
from(v, s) == Filled(v, s)

from_list(v, s) == Filled(v, s)

\* Seeded defect: the copy is the structure, not the elements.
copyShallow(v, u) ==
  /\ vec[v].data = NULL
  /\ vec' = [vec EXCEPT ![v] = vec[u]]
  /\ UNCHANGED <<heap, failed, access>>

\* What is copied is read from the other vector's memory, if it has any.
copy(v, u) ==
  \/ ~WithoutMemory(u) /\ Filled(v, Elements(u))
  \/ /\ WithoutMemory(u) /\ vec[v].data = NULL
     /\ access' = "outside"
     /\ UNCHANGED <<vec, heap, failed>>

\* Seeded defect: what was moved from keeps its size.
moveKeepsSize(v, u) ==
  /\ vec[v].data = NULL \/ v = u
  /\ vec' = [vec EXCEPT ![u] = Vec(NULL, vec[u].size, 0), ![v] = vec[u]]
  /\ UNCHANGED <<heap, failed, access>>

\* Also a vector to itself, through the copy the function returns.
move(v, u) ==
  /\ vec[v].data = NULL \/ v = u
  /\ vec' = [vec EXCEPT ![u] = New, ![v] = vec[u]]
  /\ UNCHANGED <<heap, failed, access>>

(***************************************************************************)
(* Operations                                                              *)
(***************************************************************************)
\* The elements go; the capacity stays what it was, and is thrown away only
\* when the variable is used again.
delete(v) ==
  /\ vec' = [vec EXCEPT ![v] = Vec(NULL, 0, @.cap)]
  /\ heap' = [b \in Blocks |-> IF b = vec[v].data THEN Free ELSE heap[b]]
  /\ UNCHANGED <<failed, access>>

clear(v) == delete(v)

swap(v, u) ==
  /\ vec' = [vec EXCEPT ![v] = vec[u], ![u] = vec[v]]
  /\ UNCHANGED <<heap, failed, access>>

\* Seeded defect: the index may be the size.
InRangeInclusive(v, pos) == pos <= vec[v].size

InRange(v, pos) == pos < vec[v].size

\* at and at_ref: the element at an index counted from 0.
Touch(v, pos) ==
  access' = IF ~InRange(v, pos) THEN "asserted"
            ELSE IF pos < Len(Elements(v)) THEN "inside" ELSE "outside"

at(v, pos) == Touch(v, pos) /\ UNCHANGED <<vec, heap, failed>>

\* Storing through the pointer at_ref returns.
at_ref(v, pos, value) ==
  /\ Touch(v, pos)
  /\ IF access' = "inside"
       THEN heap' = [heap EXCEPT ![vec[v].data][pos + 1] = value]
       ELSE UNCHANGED heap
  /\ UNCHANGED <<vec, failed>>

front(v) == at(v, 0)

\* The index of the last element of an empty vector is the greatest usize.
back(v) == at(v, (vec[v].size - 1) % (USIZE_MAX + 1))

\* A comparison walks the elements up to the end of the shorter vector, as
\* the sizes have it, and looks at no pointer: eq does where the sizes are
\* equal, lt always, and gt, le and ge through lt.
compare(v, u) ==
  LET both == Smaller(vec[v].size, vec[u].size)
  IN  /\ both > 0
      /\ access' = IF both <= Len(Elements(v)) /\ both <= Len(Elements(u))
                     THEN "inside" ELSE "outside"
      /\ UNCHANGED <<vec, heap, failed>>

\* A failed assertion, and an access where there is no memory, end the
\* program.
Next ==
  /\ access \notin {"asserted", "outside", "null"}
  /\ \E v \in Vectors :
       \/ \E n \in Sizes : with_size(v, n)
       \/ \E n \in Sizes, value \in Values : with_size_and_value(v, n, value)
       \/ \E s \in Contents : from(v, s) \/ from_list(v, s)
       \/ \E u \in Vectors :
            copy(v, u) \/ move(v, u) \/ swap(v, u) \/ compare(v, u)
       \/ delete(v) \/ clear(v) \/ front(v) \/ back(v)
       \/ \E pos \in Indices : at(v, pos)
       \/ \E pos \in Indices, value \in Values : at_ref(v, pos, value)

Spec == Init /\ [][Next]_vars

(***************************************************************************)
(* What comparisons return, of two vectors with the memory of their sizes. *)
(* Of a vector without memory they read NULL, or the sizes alone decide:   *)
(* the first is an access outside in compare.                              *)
(***************************************************************************)
eq(v, u) ==
  /\ vec[v].size = vec[u].size
  /\ \A i \in 1 .. vec[v].size : Elements(v)[i] = Elements(u)[i]

\* Seeded defect: where the shorter vector ends they are not told apart.
ltCommonPart(v, u) ==
  LET s == Elements(v)
      t == Elements(u)
      less[i \in Nat] ==
        /\ i <= vec[v].size /\ i <= vec[u].size
        /\ s[i] < t[i] \/ (~(t[i] < s[i]) /\ less[i + 1])
  IN  less[1]

\* Both are walked until one is less than the other or one ends.
lt(v, u) ==
  LET s == Elements(v)
      t == Elements(u)
      less[i \in Nat] ==
        IF i > vec[v].size \/ i > vec[u].size
          THEN i > vec[v].size /\ i <= vec[u].size
          ELSE s[i] < t[i] \/ (~(t[i] < s[i]) /\ less[i + 1])
  IN  less[1]

gt(v, u) == lt(u, v)
le(v, u) == ~lt(u, v)
ge(v, u) == ~lt(v, u)

(***************************************************************************)
(* Properties                                                              *)
(***************************************************************************)
\* No vector is longer than the capacity it reports.
TypeOK ==
  /\ vec \in [Vectors -> [data : Blocks \cup {NULL}, size : Nat, cap : Nat]]
  /\ \A v \in Vectors : vec[v].size <= vec[v].cap
  /\ heap \in [Blocks -> Seq(Values) \cup {Free}]
  /\ failed \in BOOLEAN
  /\ access \in {"none", "inside", "asserted", "outside", "null"}

\* Every block belongs to exactly one vector until it is freed, whatever is
\* moved, swapped, copied, cleared or deleted, a vector with itself included:
\* nothing leaks, nothing is freed twice, no two vectors share elements.
OneOwner ==
  /\ \A v \in Vectors : vec[v].data # NULL => heap[vec[v].data] # Free
  /\ \A v, u \in Vectors :
       vec[v].data # NULL /\ vec[v].data = vec[u].data => v = u
  /\ \A b \in Blocks : heap[b] # Free => \E v \in Vectors : vec[v].data = b

\* The assertion in at and at_ref knows only the size: it is enough to keep
\* every index inside the memory, the back of an empty vector's included,
\* whose index wraps around, unless some calloc failed.  Only then is a size
\* not that of the memory, and nothing but such a vector is read outside, by
\* at, by a copy or by a comparison.
SizeIsMemory ==
  /\ \A v \in Vectors : WithoutMemory(v) \/ vec[v].size = Len(Elements(v))
  /\ \A v \in Vectors, pos \in Indices :
       InRange(v, pos) => WithoutMemory(v) \/ pos < Len(Elements(v))
  /\ access = "outside" => \E v \in Vectors : WithoutMemory(v)
  /\ (access = "null" \/ \E v \in Vectors : WithoutMemory(v)) => failed

\* lt is the lexicographic order, and exactly one of lt, eq and gt holds, of
\* vectors that have the memory they asked for.  Vectors whose calloc failed
\* are left out: a comparison with one reads NULL, or tells an empty vector
\* from it by the size alone.
OrderIsLexicographic ==
  \A v, u \in {w \in Vectors : ~WithoutMemory(w)} :
    LET s == Elements(v)
        t == Elements(u)
        agree(n) == \A i \in 1 .. n : s[i] = t[i]
        before == \/ \E i \in 1 .. Len(s) :
                       i <= Len(t) /\ agree(i - 1) /\ s[i] < t[i]
                  \/ Len(s) < Len(t) /\ agree(Len(s))
    IN  /\ lt(v, u) <=> before
        /\ le(v, u) <=> before \/ s = t
        /\ eq(v, u) <=> s = t
        /\ gt(v, u) <=> ~before /\ s # t
        /\ ge(v, u) <=> ~before

=============================================================================
