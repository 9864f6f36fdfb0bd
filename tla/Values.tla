------------------------------- MODULE Values -------------------------------
(***************************************************************************)
(* What becomes of a value on its way through a port: the serializer walks  *)
(* it and replaces actors and functions by references, the port clones what *)
(* the walk made, and the walk back resolves the references.  And how       *)
(* getOrSpawn compares the arguments of a key with those it was given.     *)
(*                                                                         *)
(* The heap of user code holds plain objects and arrays, which are walked,  *)
(* and what is not: actors (proxies, stubs, instances), functions, and      *)
(* instances of other classes (dates, maps, buffers), which are passed to   *)
(* the port as they are.  Streams take the way of actors: one reference     *)
(* each, however often they occur.                                          *)
(***************************************************************************)
EXTENDS Naturals, Sequences, FiniteSets, SequencesExt

CONSTANTS
  Prims, Undefined,  \* primitive values, undefined being one
  Keys,              \* property names of plain objects
  MaxNode,           \* bound: how many objects the heap has
  MaxLength          \* bound: how long arrays are

ASSUME ValuesAssumption ==
  Undefined \in Prims /\ MaxNode \in Nat \ {0} /\ MaxLength \in Nat

Node == 1..MaxNode
Walked == {"plain", "array"}

VARIABLES
  heap,    \* the objects: their kind, and their properties if they are walked
  phase,   \* how far the value, node 1, is
  wire,    \* the encoded value, and the objects and references it is made of
  arrived, \* the decoded value
  equal    \* what valueEqual said of nodes 1 and 2

vars == <<heap, phase, wire, arrived, equal>>

\* A property of a plain object or an array is any value; null is a primitive.
Properties(kind) ==
  IF kind = "plain" THEN UNION {[ks -> Prims \cup Node] : ks \in SUBSET Keys}
  ELSE UNION {[1..n -> Prims \cup Node] : n \in 0..MaxLength}

Objects ==
  {[kind |-> k, fields |-> <<>>] : k \in {"actor", "function", "instance"}}
    \cup UNION {{[kind |-> k, fields |-> f] : f \in Properties(k)} : k \in Walked}

-----------------------------------------------------------------------------
(* The walk that encodes.                                                  *)

\* s.cells holds what was made so far, s.out what the last step returned: a
\* primitive, or the number of a cell.  Of the user's objects, s.encoded has the
\* cells of those that were walked and s.asIs of those that are passed as they are.
Cell(s, c) == [s EXCEPT !.cells = Append(@, c), !.out = Len(s.cells) + 1]

\* a reference, or an instance, of the user's object n
Leaf(kind, n) == [kind |-> kind, of |-> n, fields |-> <<>>]

\* visit the properties of an object one by one, with step(value, s)
VisitFields(fields, s, step(_, _)) ==
  FoldLeft(LAMBDA acc, k :
             LET t == step(fields[k], acc.s) IN
             [s |-> t, fields |-> (k :> t.out) @@ acc.fields],
           [s |-> s, fields |-> <<>>], SetToSeq(DOMAIN fields))

RECURSIVE StructuredClone(_, _)
\* a copy of an encoded value, in which an object found twice is copied once
StructuredClone(v, s) ==
  IF v \in Prims THEN [s EXCEPT !.out = v]
  ELSE IF v \in DOMAIN s.copies THEN [s EXCEPT !.out = s.copies[v]]
  ELSE LET c == s.cells[v]
           copy == VisitFields(c.fields, s, StructuredClone)
           t == Cell(copy.s, [c EXCEPT !.fields = copy.fields])
       IN [t EXCEPT !.copies = (v :> t.out) @@ @]

\* mutant: the encoded object is used again itself
Reuse_Shared(v, s) == [s EXCEPT !.out = s.encoded[v]]

\* an object that was encoded before is copied
Reuse(v, s) == StructuredClone(s.encoded[v], [s EXCEPT !.copies = <<>>])

\* mutant: the object stays in progress
Leave_InProgress(v, s) == s

Leave(v, s) == [s EXCEPT !.inProgress = @ \ {v}]

\* an instance is on the wire itself, each time the same object
AsIs(v, s) ==
  IF v \in DOMAIN s.asIs THEN [s EXCEPT !.out = s.asIs[v]]
  ELSE LET t == Cell(s, Leaf("instance", v)) IN [t EXCEPT !.asIs = (v :> t.out) @@ @]

RECURSIVE WalkEncode(_, _)
WalkEncode(v, s) ==
  IF ~s.ok THEN s
  ELSE IF v \in Prims THEN [s EXCEPT !.out = v]
  ELSE IF heap[v].kind \in {"function", "actor"} THEN Cell(s, Leaf(heap[v].kind, v))
  ELSE IF v \in s.inProgress THEN [s EXCEPT !.ok = FALSE]
  ELSE IF v \in DOMAIN s.encoded THEN Reuse(v, s)
  ELSE IF heap[v].kind = "instance" THEN AsIs(v, s)
  ELSE LET walk == VisitFields(heap[v].fields, [s EXCEPT !.inProgress = @ \cup {v}], WalkEncode)
           t == Cell(Leave(v, walk.s), [kind |-> heap[v].kind, of |-> v, fields |-> walk.fields])
       IN [t EXCEPT !.encoded = (v :> t.out) @@ @]

EncodeValue(v) ==
  WalkEncode(v, [ok |-> TRUE, cells |-> <<>>, out |-> Undefined, inProgress |-> {},
                 encoded |-> <<>>, asIs |-> <<>>, copies |-> <<>>])

-----------------------------------------------------------------------------
(* The walk that decodes.  A decoded value is a tree of <<kind, contents>>.  *)

RECURSIVE WalkDecode(_, _)
\* What was seen before is taken as it is, references and all.
WalkDecode(v, s) ==
  IF v \in Prims THEN [s EXCEPT !.out = v]
  ELSE LET c == wire.cells[v] IN
       IF c.kind \notin Walked THEN [s EXCEPT !.out = <<c.kind, c.of>>]
       ELSE IF v \in s.seen THEN [s EXCEPT !.out = <<"raw", v>>]
       ELSE LET walk == VisitFields(c.fields, [s EXCEPT !.seen = @ \cup {v}], WalkDecode)
            IN [walk.s EXCEPT !.out = <<c.kind, walk.fields>>]

DecodeValue(v) == WalkDecode(v, [seen |-> {}, out |-> Undefined]).out

-----------------------------------------------------------------------------
(* valueEqual, of existing arguments and new ones.                         *)

\* what isPlainObject takes for one: the proxy of an actor wraps an empty object
Passes(v, kind) ==
  v \in Node /\ heap[v].kind \in (IF kind = "plain" THEN {"plain", "actor"} ELSE {kind})

\* a property that is not there reads as undefined
Property(v, k) == IF k \in DOMAIN heap[v].fields THEN heap[v].fields[k] ELSE Undefined

RECURSIVE ValueEqual(_, _), ValueEqual_AnyLength(_, _)
\* mutant: the number of keys is not compared
ValueEqual_AnyLength(v, w) ==
  \/ v = w
  \/ \E kind \in Walked :
       /\ Passes(v, kind) /\ Passes(w, kind)
       /\ \A k \in DOMAIN heap[v].fields : ValueEqual_AnyLength(Property(v, k), Property(w, k))

ValueEqual(v, w) ==
  \/ v = w
  \/ \E kind \in Walked :
       /\ Passes(v, kind) /\ Passes(w, kind)
       /\ Cardinality(DOMAIN heap[v].fields) = Cardinality(DOMAIN heap[w].fields)
       /\ \A k \in DOMAIN heap[v].fields : ValueEqual(Property(v, k), Property(w, k))

-----------------------------------------------------------------------------
(* Reference definitions.                                                  *)

Inside(n) == {heap[n].fields[k] : k \in DOMAIN heap[n].fields} \cap Node

\* the objects that a walk from S meets
Reach(S) ==
  LET after[k \in 0..MaxNode] ==
        IF k = 0 THEN S ELSE after[k - 1] \cup UNION {Inside(n) : n \in after[k - 1]}
  IN after[MaxNode]

Cyclic(n) == \E m \in Reach({n}) : m \in Reach(Inside(m))

RECURSIVE Unfold(_)
\* a value without a cycle, whatever of it is shared
Unfold(v) ==
  IF v \in Prims THEN v
  ELSE IF heap[v].kind \in Walked
       THEN <<heap[v].kind, [k \in DOMAIN heap[v].fields |-> Unfold(heap[v].fields[k])]>>
       ELSE <<heap[v].kind, v>>

-----------------------------------------------------------------------------
Init ==
  /\ heap \in [Node -> Objects]
  /\ phase = "local"
  /\ wire = [cells |-> <<>>, out |-> Undefined]
  /\ arrived = Undefined
  /\ equal = FALSE

Encode ==
  /\ phase = "local"
  /\ LET s == EncodeValue(1) IN
     IF s.ok THEN phase' = "sent" /\ wire' = [cells |-> s.cells, out |-> s.out]
     ELSE phase' = "refused" /\ UNCHANGED wire
  /\ UNCHANGED <<heap, arrived, equal>>

Decode ==
  /\ phase = "sent"
  /\ phase' = "arrived"
  /\ arrived' = DecodeValue(wire.out)
  /\ UNCHANGED <<heap, wire, equal>>

\* the arguments of a key, node 1, crossed a port once: they have no cycle
Compare ==
  /\ phase = "local" /\ MaxNode > 1 /\ ~Cyclic(1)
  /\ phase' = "compared"
  /\ equal' = ValueEqual(1, 2)
  /\ UNCHANGED <<heap, wire, arrived>>

Next == Encode \/ Decode \/ Compare

Spec == Init /\ [][Next]_vars

-----------------------------------------------------------------------------
\* Every variable holds a value of its kind; on the wire no object is in two
\* places, but an instance, which the walk returns as it is each time.
TypeOK ==
  /\ phase \in {"local", "sent", "refused", "arrived", "compared"}
  /\ equal \in BOOLEAN
  /\ \A c \in ToSet(wire.cells) : \A k \in DOMAIN c.fields :
       c.fields[k] \in Prims \cup DOMAIN wire.cells
  /\ \A c, d \in DOMAIN wire.cells :
       \A j \in DOMAIN wire.cells[c].fields, k \in DOMAIN wire.cells[d].fields :
         wire.cells[c].fields[j] = wire.cells[d].fields[k] =>
           \/ wire.cells[c].fields[j] \in Prims \/ <<c, j>> = <<d, k>>
           \/ wire.cells[wire.cells[c].fields[j]].kind = "instance"

\* A value is refused if and only if walking it would never end: sharing an
\* object is no cycle, and neither is one that leads through an actor or an
\* instance.
RefusesCyclesOnly ==
  /\ phase = "refused" => Cyclic(1)
  /\ phase \in {"sent", "arrived"} => ~Cyclic(1)

\* What arrives is what was sent, with stubs for its actors and functions,
\* also where one object is found in several places.
RoundTrip == phase = "arrived" => arrived = Unfold(1)

Kinds(n) == {heap[m].kind : m \in Reach({n})}
NoUndefined(n) ==
  \A m \in Reach({n}) : \A k \in DOMAIN heap[m].fields : heap[m].fields[k] # Undefined

\* getOrSpawn takes arguments for those of the key only if they are the same,
\* unless a property of the key's is undefined, or one of them holds the proxy of
\* an actor (which equals every other); and plain ones that are the same are
\* never taken for others.
ComparesWholeArgs ==
  phase = "compared" =>
    /\ equal /\ NoUndefined(1) /\ "actor" \notin Kinds(1) \cup Kinds(2) =>
         ~Cyclic(2) /\ Unfold(1) = Unfold(2)
    /\ Kinds(1) \cup Kinds(2) \subseteq Walked /\ ~Cyclic(2) /\ Unfold(1) = Unfold(2) => equal
=============================================================================
