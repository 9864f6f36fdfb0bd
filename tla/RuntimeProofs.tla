--------------------------- MODULE RuntimeProofs ---------------------------
(***************************************************************************)
(* Proofs about Runtime for any number of workers, processes, classes and  *)
(* keys, whether or not imports and constructors may fail.                 *)
(*                                                                         *)
(* The argument: a process has at most one command or answer at a worker,  *)
(* and only while it awaits that worker (PortsOK); a create that could not *)
(* be cloned awaits its worker with neither, for ever.  What the answer    *)
(* says is therefore still true when it is read: the class is loaded, the  *)
(* actor lives, or is gone.  Of the destroys of an actor only the first in *)
(* its mailbox has posted anything (BehindOK), so that the answer to it    *)
(* may start the next.                                                     *)
(***************************************************************************)
EXTENDS Runtime, SequenceTheorems, FiniteSetTheorems, TLAPS

\* no two messages of a port are about the same process
Distinct(port) == \A i, j \in DOMAIN port : port[i].by = port[j].by => i = j

\* command m on its way to worker w is one its process awaits
Asks(w, m) ==
  /\ w \in awaiting[m.by] /\ m.by \notin importing[w]
  /\ m.cmd = "register" => m.by \in own /\ pc[m.by] \in {"registering", "rejected"}
  /\ m.cmd = "create" => pc[m.by] = "creating"
  /\ m.cmd = "destroy" => pc[m.by] = "destroying"

\* what answer m on its way from worker w says is so
Says(w, m) ==
  /\ w \in awaiting[m.by] /\ m.by \notin importing[w]
  /\ \A n \in Range(inbox[w]) : n.by # m.by
  /\ pc[m.by] = "registering" /\ m.ok => class[m.by] \in loaded[w]
  /\ pc[m.by] = "creating" /\ m.ok => m.by \in actors[w]
  /\ pc[m.by] = "destroying" => target[m.by] \notin actors[w]

Imports(w, p) == w \in awaiting[p] /\ p \in own /\ pc[p] \in {"registering", "rejected"}

InboxOK(w) == Distinct(inbox[w]) /\ \A m \in Range(inbox[w]) : Asks(w, m)
ImportingOK(w) == \A p \in importing[w] : Imports(w, p)
OutboxOK(w) == Distinct(outbox[w]) /\ \A m \in Range(outbox[w]) : Says(w, m)

PortsOK == \A w \in Workers : InboxOK(w) /\ ImportingOK(w) /\ OutboxOK(w)

LoadedEverywhere(p) == \A w \in Workers : class[p] \in loaded[w]

Exists(a) == a \in Procs /\ pc[a] = "resolved" /\ home[a] \in Workers

\* how far a process is tells what it awaits and what it has done
ProcessOK(p) ==
  /\ pc[p] = "idle" =>
       /\ fn[p] = "none" /\ home[p] = None /\ target[p] = None /\ p \notin own
       /\ p \notin unknown
  /\ pc[p] \in {"idle", "resolved"} => awaiting[p] = {}
  /\ pc[p] = "registering" =>
       /\ p \in own /\ home[p] = None
       /\ \A w \in Workers \ awaiting[p] : class[p] \in loaded[w]
  /\ pc[p] = "creating" =>
       /\ home[p] \in Workers /\ awaiting[p] \subseteq {home[p]}
       /\ p \in localObjects[home[p]]
       /\ fn[p] = "getOrSpawn" => home[p] = Place[key[p]]
       /\ p \in own => LoadedEverywhere(p)
  /\ pc[p] = "destroying" => Exists(target[p]) /\ awaiting[p] \subseteq {home[target[p]]}
  /\ pc[p] \in {"registering", "creating"} \/ p \in own =>
       fn[p] \in {"register", "spawn", "getOrSpawn"} /\ class[p] \in Classes
  /\ fn[p] = "register" => pc[p] \notin {"creating", "destroying"}
  /\ fn[p] = "getOrSpawn" => key[p] \in Keys
  /\ target[p] # None => Exists(target[p])
  /\ pc[p] = "resolved" /\ result[p] # None => Exists(result[p])
  /\ fn[p] = "register" /\ pc[p] = "resolved" => LoadedEverywhere(p)
  /\ p \in own => p \notin unknown

\* a destroy in the mailbox behind another of the same actor has posted nothing
\* while that one is under way
BehindOK(p) ==
  behind[p] # None =>
    /\ pc[p] \in {"destroying", "resolved"} /\ pc[behind[p]] \in {"destroying", "resolved"}
    /\ pc[behind[p]] = "destroying" =>
         pc[p] = "destroying" /\ awaiting[p] = {} /\ target[p] = target[behind[p]]

\* an actor is counted where it was placed, and keyed where its key is
ActorsOK ==
  /\ \A w \in Workers : \A a \in localObjects[w] :
       home[a] = w /\ pc[a] \in {"creating", "resolved", "rejected"}
  /\ \A k \in Keys : keyed[k] # None => Exists(keyed[k]) /\ home[keyed[k]] = Place[k]

\* a node that ended awaits nothing any more
EndOK ==
  /\ ended # {} => disposed
  /\ cleared => ended = Workers
  /\ \A w \in ended : \A p \in Procs : w \notin awaiting[p]

\* finitely many calls were made so far
FinitelyMany == IsFiniteSet({p \in Procs : pc[p] # "idle"})

RuntimeInv ==
  /\ PortsOK
  /\ \A p \in Procs : ProcessOK(p)
  /\ \A p \in Procs : BehindOK(p)
  /\ ActorsOK
  /\ EndOK
  /\ FinitelyMany

-----------------------------------------------------------------------------
(* What ports do.                                                          *)

LEMMA AppendRange ==
  ASSUME NEW S, NEW s \in Seq(S), NEW e \in S, Distinct(s), \A m \in Range(s) : m.by # e.by
  PROVE  Range(Append(s, e)) = Range(s) \cup {e} /\ Distinct(Append(s, e))
<1>1. /\ DOMAIN Append(s, e) = 1..(Len(s) + 1) /\ DOMAIN s = 1..Len(s) /\ Len(s) \in Nat
      /\ \A i \in 1..Len(s) : Append(s, e)[i] = s[i]
      /\ Append(s, e)[Len(s) + 1] = e
  BY AppendProperties, LenProperties
<1>2. Range(Append(s, e)) = Range(s) \cup {e}
  BY <1>1 DEF Range
<1>3. Distinct(Append(s, e))
  BY <1>1 DEF Distinct, Range
<1> QED
  BY <1>2, <1>3

LEMMA TailRange ==
  ASSUME NEW S, NEW s \in Seq(S), s # <<>>, Distinct(s)
  PROVE  /\ Head(s) \in Range(s) /\ Distinct(Tail(s))
         /\ Range(Tail(s)) = Range(s) \ {Head(s)}
         /\ \A m \in Range(Tail(s)) : m.by # Head(s).by
<1>1. /\ Len(s) \in Nat \ {0} /\ DOMAIN s = 1..Len(s)
      /\ DOMAIN Tail(s) = 1..(Len(s) - 1) /\ Head(s) = s[1]
      /\ \A i \in 1..(Len(s) - 1) : Tail(s)[i] = s[i + 1]
  BY HeadTailProperties, LenProperties, EmptySeq
<1>2. Head(s) \in Range(s)
  BY <1>1 DEF Range
<1>3. Distinct(Tail(s))
  BY <1>1 DEF Distinct
<1>4. \A m \in Range(Tail(s)) : m \in Range(s) /\ m.by # Head(s).by
  BY <1>1 DEF Range, Distinct
<1>5. ASSUME NEW m \in Range(s), m # Head(s)
      PROVE  m \in Range(Tail(s))
  <2>1. PICK i \in 1..Len(s) : m = s[i]
    BY <1>1, <1>5 DEF Range
  <2>2. i - 1 \in 1..(Len(s) - 1) /\ Tail(s)[i - 1] = m
    BY <2>1, <1>1, <1>5
  <2> QED
    BY <2>2, <1>1 DEF Range
<1> QED
  BY <1>2, <1>3, <1>4, <1>5

\* no command of p is on its way to w
Unasked(w, p) == \A m \in Range(inbox[w]) : m.by # p

LEMMA PostPorts ==
  ASSUME TypeOK, PortsOK, NEW p \in Procs, NEW W \in SUBSET Workers, NEW c \in Commands,
         Post(p, W, c), \A w \in W : Unasked(w, p)
  PROVE  /\ inbox' \in [Workers -> Seq([cmd : Commands, by : Procs])]
         /\ \A w \in Workers :
              /\ Distinct(inbox'[w])
              /\ Range(inbox'[w]) = IF w \in W THEN Range(inbox[w]) \cup {[cmd |-> c, by |-> p]}
                                               ELSE Range(inbox[w])
<1> DEFINE m == [cmd |-> c, by |-> p]
<1>1. m \in [cmd : Commands, by : Procs] /\ m.by = p
  OBVIOUS
<1>2. ASSUME NEW w \in Workers
      PROVE  /\ inbox'[w] = IF w \in W THEN Append(inbox[w], m) ELSE inbox[w]
             /\ inbox[w] \in Seq([cmd : Commands, by : Procs])
             /\ Append(inbox[w], m) \in Seq([cmd : Commands, by : Procs])
  BY <1>1, AppendProperties DEF Post, TypeOK
<1>3. inbox' \in [Workers -> Seq([cmd : Commands, by : Procs])]
  BY <1>2, <1>1 DEF Post
<1>4. ASSUME NEW w \in Workers
      PROVE  /\ Distinct(inbox'[w])
             /\ Range(inbox'[w]) = IF w \in W THEN Range(inbox[w]) \cup {m} ELSE Range(inbox[w])
  <2>1. Distinct(inbox[w])
    BY DEF PortsOK, InboxOK
  <2>2. CASE w \in W
    <3>1. \A n \in Range(inbox[w]) : n.by # m.by
      BY <2>2, <1>1 DEF Unasked
    <3>2. inbox'[w] = Append(inbox[w], m)
      BY <2>2, <1>2
    <3>3. /\ Range(Append(inbox[w], m)) = Range(inbox[w]) \cup {m}
          /\ Distinct(Append(inbox[w], m))
      BY <3>1, <2>1, <1>1, <1>2, AppendRange, Zenon
    <3> QED
      BY <3>2, <3>3, <2>2
  <2>3. CASE w \notin W
    <3>1. inbox'[w] = inbox[w]
      BY <2>3, <1>2
    <3> QED
      BY <3>1, <2>1, <2>3
  <2> QED
    BY <2>2, <2>3
<1> QED
  BY <1>3, <1>4

LEMMA PostOne ==
  ASSUME TypeOK, PortsOK, NEW p \in Procs, NEW w \in Workers, NEW c \in Commands,
         Post(p, {w}, c), Unasked(w, p)
  PROVE  /\ inbox' \in [Workers -> Seq([cmd : Commands, by : Procs])]
         /\ Distinct(inbox'[w])
         /\ Range(inbox'[w]) = Range(inbox[w]) \cup {[cmd |-> c, by |-> p]}
         /\ \A v \in Workers \ {w} : inbox'[v] = inbox[v]
<1> DEFINE W == {w}
<1>1. W \in SUBSET Workers /\ Post(p, W, c) /\ \A v \in W : Unasked(v, p)
  OBVIOUS
<1>2. \A v : v \in W <=> v = w
  OBVIOUS
<1>3. \A v \in Workers \ {w} : inbox'[v] = inbox[v]
  BY DEF Post
<1> HIDE DEF W
<1>4. /\ inbox' \in [Workers -> Seq([cmd : Commands, by : Procs])]
      /\ \A v \in Workers :
           /\ Distinct(inbox'[v])
           /\ Range(inbox'[v]) = IF v \in W THEN Range(inbox[v]) \cup {[cmd |-> c, by |-> p]}
                                            ELSE Range(inbox[v])
  BY <1>1, PostPorts
<1> QED
  BY <1>2, <1>3, <1>4

LEMMA RequestOne ==
  ASSUME TypeOK, PortsOK, NEW p \in Procs, NEW w \in Workers, NEW c \in Commands,
         Request(p, {w}, c), Unasked(w, p)
  PROVE  /\ inbox' \in [Workers -> Seq([cmd : Commands, by : Procs])]
         /\ awaiting' = [awaiting EXCEPT ![p] = {w}]
         /\ Distinct(inbox'[w])
         /\ Range(inbox'[w]) = Range(inbox[w]) \cup {[cmd |-> c, by |-> p]}
         /\ \A v \in Workers \ {w} : inbox'[v] = inbox[v]
<1>1. Post(p, {w}, c) /\ awaiting' = [awaiting EXCEPT ![p] = {w}]
  BY DEF Request, Pending
<1> QED
  BY <1>1, PostOne

\* A create is posted, or refused: then no command of p is at a port.
LEMMA CreatePorts ==
  ASSUME TypeOK, PortsOK, NEW p \in Procs, NEW w \in Workers, CreateOn(p, w), Unasked(w, p)
  PROVE  /\ inbox' \in [Workers -> Seq([cmd : Commands, by : Procs])]
         /\ \A v \in Workers : Distinct(inbox'[v])
         /\ \A v \in Workers : \A m \in Range(inbox'[v]) :
              \/ m \in Range(inbox[v])
              \/ /\ v = w /\ m = [cmd |-> "create", by |-> p]
                 /\ w \in awaiting'[p] /\ pc'[p] = "creating"
         /\ \E W \in {{}, {w}} : awaiting' = [awaiting EXCEPT ![p] = W]
         /\ pc' \in {[pc EXCEPT ![p] = "creating"], [pc EXCEPT ![p] = "rejected"]}
         /\ result' \in {result, [result EXCEPT ![p] = None]}
<1>1. \A v \in Workers : Distinct(inbox[v])
  BY DEF PortsOK, InboxOK
<1>2. CASE pc' = [pc EXCEPT ![p] = "creating"] /\ Request(p, {w}, "create") /\ UNCHANGED result
  <2>1. "create" \in Commands /\ awaiting \in [Procs -> SUBSET Workers]
        /\ pc'[p] = "creating"
    BY <1>2 DEF Commands, TypeOK
  <2>2. /\ inbox' \in [Workers -> Seq([cmd : Commands, by : Procs])]
        /\ awaiting' = [awaiting EXCEPT ![p] = {w}]
        /\ Distinct(inbox'[w])
        /\ Range(inbox'[w]) = Range(inbox[w]) \cup {[cmd |-> "create", by |-> p]}
        /\ \A v \in Workers \ {w} : inbox'[v] = inbox[v]
    BY <1>2, <2>1, RequestOne
  <2>3. \A v \in Workers : Distinct(inbox'[v])
    BY <1>1, <2>2
  <2>4. w \in awaiting'[p]
    BY <2>1, <2>2
  <2>5. \A v \in Workers : \A m \in Range(inbox'[v]) :
          m \in Range(inbox[v]) \/ (v = w /\ m = [cmd |-> "create", by |-> p])
    BY <2>2
  <2> QED
    BY <1>2, <2>1, <2>2, <2>3, <2>4, <2>5
<1>3. CASE Settle(p, "rejected", None) /\ (Pending(p, {}) \/ Pending(p, {w})) /\ UNCHANGED inbox
  BY <1>1, <1>3 DEF Settle, Pending, TypeOK
<1> QED
  BY <1>2, <1>3 DEF CreateOn

LEMMA TakePorts ==
  ASSUME TypeOK, PortsOK, NEW w \in Workers, NEW p \in Procs, NEW c \in Commands, Take(w, p, c)
  PROVE  /\ inbox' \in [Workers -> Seq([cmd : Commands, by : Procs])]
         /\ [cmd |-> c, by |-> p] \in Range(inbox[w])
         /\ \A v \in Workers :
              /\ Distinct(inbox'[v]) /\ Range(inbox'[v]) \subseteq Range(inbox[v])
              /\ v = w => \A m \in Range(inbox'[v]) : m.by # p
<1>1. /\ inbox[w] \in Seq([cmd : Commands, by : Procs]) /\ inbox[w] # <<>>
      /\ Head(inbox[w]) = [cmd |-> c, by |-> p] /\ inbox' = [inbox EXCEPT ![w] = Tail(@)]
      /\ \A v \in Workers : Distinct(inbox[v])
  BY DEF Take, TypeOK, PortsOK, InboxOK
<1>2. /\ Head(inbox[w]) \in Range(inbox[w]) /\ Distinct(Tail(inbox[w]))
      /\ Range(Tail(inbox[w])) = Range(inbox[w]) \ {Head(inbox[w])}
      /\ \A m \in Range(Tail(inbox[w])) : m.by # Head(inbox[w]).by
  BY <1>1, TailRange
<1>3. Tail(inbox[w]) \in Seq([cmd : Commands, by : Procs])
  BY <1>1, HeadTailProperties
<1>4. inbox' \in [Workers -> Seq([cmd : Commands, by : Procs])]
  BY <1>1, <1>3 DEF TypeOK
<1>5. inbox'[w] = Tail(inbox[w]) /\ \A v \in Workers \ {w} : inbox'[v] = inbox[v]
  BY <1>1 DEF TypeOK
<1>6. \A m \in Range(inbox'[w]) : m.by # p
  BY <1>1, <1>2, <1>5
<1>7. \A v \in Workers : Distinct(inbox'[v]) /\ Range(inbox'[v]) \subseteq Range(inbox[v])
  BY <1>1, <1>2, <1>5
<1> QED
  BY <1>1, <1>2, <1>4, <1>6, <1>7

LEMMA ReplyPorts ==
  ASSUME TypeOK, PortsOK, NEW w \in Workers, NEW p \in Procs, NEW ok \in BOOLEAN, Reply(w, p, ok),
         \A m \in Range(outbox[w]) : m.by # p
  PROVE  /\ outbox' \in [Workers -> Seq([by : Procs, ok : BOOLEAN])]
         /\ Distinct(outbox'[w])
         /\ Range(outbox'[w]) = Range(outbox[w]) \cup {[by |-> p, ok |-> ok]}
         /\ \A v \in Workers \ {w} : outbox'[v] = outbox[v]
<1> DEFINE m == [by |-> p, ok |-> ok]
           S == [by : Procs, ok : BOOLEAN]
<1>1. m \in S /\ outbox[w] \in Seq(S) /\ outbox' = [outbox EXCEPT ![w] = Append(@, m)]
  BY DEF Reply, TypeOK
<1>2. \A v \in Workers : Distinct(outbox[v])
  BY DEF PortsOK, OutboxOK
<1>3. \A n \in Range(outbox[w]) : n.by # m.by
  OBVIOUS
<1>4. outbox \in [Workers -> Seq(S)]
  BY DEF TypeOK
<1> HIDE DEF m, S
<1>5. Append(outbox[w], m) \in Seq(S)
  BY <1>1, AppendProperties
<1>6. Range(Append(outbox[w], m)) = Range(outbox[w]) \cup {m} /\ Distinct(Append(outbox[w], m))
  BY <1>1, <1>2, <1>3, AppendRange
<1>7. outbox' \in [Workers -> Seq(S)]
  BY <1>1, <1>4, <1>5
<1>8. outbox'[w] = Append(outbox[w], m) /\ \A v \in Workers \ {w} : outbox'[v] = outbox[v]
  BY <1>1, <1>4
<1> QED
  BY <1>2, <1>6, <1>7, <1>8 DEF m, S

LEMMA AnswerPorts ==
  ASSUME TypeOK, PortsOK, NEW w \in Workers, NEW p \in Procs, NEW ok \in BOOLEAN, Answer(w, p, ok)
  PROVE  /\ outbox' \in [Workers -> Seq([by : Procs, ok : BOOLEAN])]
         /\ [by |-> p, ok |-> ok] \in Range(outbox[w])
         /\ \A v \in Workers :
              /\ Distinct(outbox'[v]) /\ Range(outbox'[v]) \subseteq Range(outbox[v])
              /\ v = w => \A m \in Range(outbox'[v]) : m.by # p
<1>1. /\ outbox[w] \in Seq([by : Procs, ok : BOOLEAN]) /\ outbox[w] # <<>>
      /\ Head(outbox[w]) = [by |-> p, ok |-> ok] /\ outbox' = [outbox EXCEPT ![w] = Tail(@)]
      /\ \A v \in Workers : Distinct(outbox[v])
  BY DEF Answer, TypeOK, PortsOK, OutboxOK
<1>2. /\ Head(outbox[w]) \in Range(outbox[w]) /\ Distinct(Tail(outbox[w]))
      /\ Range(Tail(outbox[w])) = Range(outbox[w]) \ {Head(outbox[w])}
      /\ \A m \in Range(Tail(outbox[w])) : m.by # Head(outbox[w]).by
  BY <1>1, TailRange
<1>3. Tail(outbox[w]) \in Seq([by : Procs, ok : BOOLEAN])
  BY <1>1, HeadTailProperties
<1>4. outbox' \in [Workers -> Seq([by : Procs, ok : BOOLEAN])]
  BY <1>1, <1>3 DEF TypeOK
<1>5. outbox'[w] = Tail(outbox[w]) /\ \A v \in Workers \ {w} : outbox'[v] = outbox[v]
  BY <1>1 DEF TypeOK
<1>6. \A m \in Range(outbox'[w]) : m.by # p
  BY <1>1, <1>2, <1>5
<1>7. \A v \in Workers : Distinct(outbox'[v]) /\ Range(outbox'[v]) \subseteq Range(outbox[v])
  BY <1>1, <1>2, <1>5
<1> QED
  BY <1>1, <1>2, <1>4, <1>6, <1>7

-----------------------------------------------------------------------------
(* The scheduler.                                                          *)

LEMMA LeastExists ==
  ASSUME NEW S, S # {}, S \subseteq Nat
  PROVE  \E x \in S : \A y \in S : x <= y
<1>1. \E x \in S : \A y \in S : ~ (<<y, x>> \in OpToRel(<, Nat))
  BY NatLessThanWellFounded, WFMin
<1>2. PICK x \in S : \A y \in S : ~ (<<y, x>> \in OpToRel(<, Nat))
  BY <1>1
<1>3. \A y \in S : ~ (y < x)
  BY <1>2 DEF OpToRel
<1> QED
  BY <1>3

\* A worker's load is a number, although there may be infinitely many processes.
LEMMA LoadIsNat ==
  ASSUME TypeOK, RuntimeInv, NEW w \in Workers, NEW aw,
         \A q \in Procs : w \in aw[q] => pc[q] # "idle"
  PROVE  Load(w, aw) \in Nat
<1> DEFINE Made == {p \in Procs : pc[p] # "idle"}
<1>1. IsFiniteSet(Made)
  BY DEF RuntimeInv, FinitelyMany
<1>2. localObjects[w] \subseteq Made /\ {q \in Procs : w \in aw[q]} \subseteq Made
  BY DEF RuntimeInv, ActorsOK, TypeOK
<1>3. Cardinality(localObjects[w]) \in Nat /\ Cardinality({q \in Procs : w \in aw[q]}) \in Nat
  BY <1>1, <1>2, FS_Subset, FS_CardinalityType
<1> QED
  BY <1>3 DEF Load

\* The scheduler takes the first of the least loaded workers.
LEMMA PickIsLeast ==
  ASSUME TypeOK, RuntimeInv, NEW aw,
         \A w \in Workers : \A q \in Procs : w \in aw[q] => pc[q] # "idle"
  PROVE  /\ Pick(aw) \in Workers
         /\ \A v \in Workers : \/ Load(Pick(aw), aw) < Load(v, aw)
                               \/ Load(Pick(aw), aw) = Load(v, aw) /\ Pick(aw) <= v
<1> DEFINE Loads == {Load(w, aw) : w \in Workers}
<1>1. \A w \in Workers : Load(w, aw) \in Nat
  BY LoadIsNat
<1>2. 0 \in Workers /\ Workers \subseteq Nat
  BY RuntimeAssumption DEF Workers
<1>3. PICK least \in Loads : \A l \in Loads : least <= l
  <2>1. Loads # {} /\ Loads \subseteq Nat
    BY <1>1, <1>2
  <2> QED
    BY <2>1, LeastExists
<1> DEFINE Lightest == {w \in Workers : Load(w, aw) = least}
<1>4. PICK w \in Lightest : \A v \in Lightest : w <= v
  <2>1. Lightest # {} /\ Lightest \subseteq Nat
    BY <1>2, <1>3
  <2> QED
    BY <2>1, LeastExists
<1>5. \A v \in Workers : Load(w, aw) < Load(v, aw) \/ (Load(w, aw) = Load(v, aw) /\ w <= v)
  <2> SUFFICES ASSUME NEW v \in Workers
               PROVE  Load(w, aw) < Load(v, aw) \/ (Load(w, aw) = Load(v, aw) /\ w <= v)
    OBVIOUS
  <2>1. Load(w, aw) = least /\ least <= Load(v, aw) /\ least \in Nat /\ Load(v, aw) \in Nat
    BY <1>1, <1>3, <1>4
  <2>2. CASE Load(v, aw) = least
    BY <2>1, <2>2, <1>4
  <2> QED
    BY <2>1, <2>2
<1> QED
  BY <1>4, <1>5 DEF Pick

-----------------------------------------------------------------------------
(* Each step keeps the invariant.                                          *)

LEMMA FinitelyManyKept ==
  ASSUME FinitelyMany, NEW p \in Procs, \A q \in Procs \ {p} : pc'[q] = pc[q]
  PROVE  FinitelyMany'
<1> DEFINE Made == {q \in Procs : pc[q] # "idle"}
           Now == {q \in Procs : pc'[q] # "idle"}
<1>1. IsFiniteSet(Made \cup {p}) /\ Now \subseteq Made \cup {p}
  BY FS_AddElement DEF FinitelyMany
<1>2. IsFiniteSet(Now)
  BY <1>1, FS_Subset
<1> QED
  BY <1>2 DEF FinitelyMany

LEMMA MessagesAreOfProcs ==
  ASSUME TypeOK, NEW w \in Workers
  PROVE  /\ \A m \in Range(inbox[w]) : m.by \in Procs
         /\ \A m \in Range(outbox[w]) : m.by \in Procs
<1>1. Range(inbox[w]) \subseteq [cmd : Commands, by : Procs]
  BY RangeOfSeq DEF TypeOK
<1>2. Range(outbox[w]) \subseteq [by : Procs, ok : BOOLEAN]
  BY RangeOfSeq DEF TypeOK
<1> QED
  BY <1>1, <1>2

\* a process that awaits no answer of a worker is not at its port
LEMMA NotAwaited ==
  ASSUME TypeOK, RuntimeInv, NEW p \in Procs, NEW w \in Workers, w \notin awaiting[p]
  PROVE  /\ Unasked(w, p) /\ p \notin importing[w]
         /\ \A m \in Range(outbox[w]) : m.by # p
  BY DEF RuntimeInv, PortsOK, InboxOK, ImportingOK, OutboxOK, Asks, Says, Imports, Unasked

\* What a step of process p leaves alone for the others: then only what the
\* ports of w hold of p itself is to be looked at.
LeavesOthers(p, w) ==
  /\ loaded[w] \subseteq loaded'[w] /\ importing'[w] \subseteq Procs
  /\ \A q \in Procs \ {p} :
       /\ pc'[q] = pc[q] /\ class'[q] = class[q] /\ target'[q] = target[q]
       /\ awaiting'[q] = awaiting[q]
       /\ q \in own => q \in own'
       /\ q \in importing'[w] <=> q \in importing[w]
       /\ pc[q] = "creating" /\ q \in actors[w] => q \in actors'[w]
       /\ pc[q] = "destroying" /\ target[q] \notin actors[w] => target[q] \notin actors'[w]

LEMMA PortsKept ==
  ASSUME TypeOK, PortsOK, NEW p \in Procs, NEW w \in Workers, LeavesOthers(p, w),
         Distinct(inbox'[w]), Distinct(outbox'[w]),
         \A m \in Range(inbox'[w]) : m \in Range(inbox[w]) \/ m.by = p,
         \A m \in Range(outbox'[w]) : m \in Range(outbox[w]) \/ m.by = p,
         \A m \in Range(inbox'[w]) : m.by = p => Asks(w, m)',
         p \in importing'[w] => Imports(w, p)',
         \A m \in Range(outbox'[w]) : m.by = p => Says(w, m)'
  PROVE  InboxOK(w)' /\ ImportingOK(w)' /\ OutboxOK(w)'
<1>1. InboxOK(w) /\ ImportingOK(w) /\ OutboxOK(w)
  BY DEF PortsOK
<1>2. \A m \in Range(inbox[w]) \cup Range(outbox[w]) : m.by \in Procs
  BY MessagesAreOfProcs
<1>3. ASSUME NEW m \in Range(inbox'[w]), m.by # p
      PROVE  Asks(w, m)'
  <2>1. m \in Range(inbox[w]) /\ m.by \in Procs \ {p}
    BY <1>2, <1>3
  <2> QED
    BY <2>1, <1>1 DEF InboxOK, Asks, LeavesOthers
<1>4. ASSUME NEW q \in importing'[w], q # p
      PROVE  Imports(w, q)'
  BY <1>1, <1>4 DEF ImportingOK, Imports, LeavesOthers
<1>5. ASSUME NEW m \in Range(outbox'[w]), m.by # p
      PROVE  Says(w, m)'
  <2>1. m \in Range(outbox[w]) /\ m.by \in Procs \ {p}
    BY <1>2, <1>5
  <2> QED
    BY <2>1, <1>1 DEF OutboxOK, Says, LeavesOthers
<1> QED
  BY <1>3, <1>4, <1>5 DEF InboxOK, ImportingOK, OutboxOK

\* Nothing is chained behind a process that is no destroy under way.
LEMMA BehindKept ==
  ASSUME TypeOK, RuntimeInv, NEW p \in Procs, pc[p] \notin {"destroying", "resolved"},
         behind' = behind,
         \A q \in Procs \ {p} :
           pc'[q] = pc[q] /\ awaiting'[q] = awaiting[q] /\ target'[q] = target[q]
  PROVE  \A q \in Procs : BehindOK(q)'
BY DEF RuntimeInv, BehindOK, TypeOK

LEMMA BehindSame ==
  ASSUME RuntimeInv, UNCHANGED <<pc, target, behind, awaiting>>
  PROVE  \A q \in Procs : BehindOK(q)'
BY DEF RuntimeInv, BehindOK

LEMMA CallRegisters ==
  ASSUME TypeOK, RuntimeInv,
         NEW p \in Procs, NEW f \in {"register", "spawn", "getOrSpawn"},
         NEW c \in Classes, NEW k \in Keys \cup {None}, f = "getOrSpawn" => k \in Keys,
         Invoke(p, f, c, k), RegisterOnAll(p, c)
  PROVE  TypeOK' /\ RuntimeInv'
<1>1. /\ pc[p] = "idle" /\ awaiting[p] = {} /\ \A w \in Workers : Unasked(w, p)
      /\ "register" \in Commands
  BY NotAwaited DEF Invoke, IsNext, RuntimeInv, ProcessOK, Commands
<1>2. /\ inbox' \in [Workers -> Seq([cmd : Commands, by : Procs])]
      /\ awaiting' = [awaiting EXCEPT ![p] = Workers]
      /\ \A w \in Workers :
           /\ Distinct(inbox'[w])
           /\ Range(inbox'[w]) = Range(inbox[w]) \cup {[cmd |-> "register", by |-> p]}
  BY <1>1, PostPorts DEF RegisterOnAll, Request, Pending, RuntimeInv
<1>3. TypeOK'
  BY <1>2 DEF TypeOK, Invoke, RegisterOnAll, workerVars, endVars
<1>4. PortsOK'
  <2> SUFFICES ASSUME NEW w \in Workers
               PROVE  InboxOK(w)' /\ ImportingOK(w)' /\ OutboxOK(w)'
    BY DEF PortsOK
  <2>1. LeavesOthers(p, w)
    BY <1>2 DEF LeavesOthers, Invoke, RegisterOnAll, TypeOK, workerVars
  <2>2. w \in awaiting'[p] /\ p \notin importing'[w] /\ p \in own' /\ pc'[p] = "registering"
    BY <1>1, <1>2, NotAwaited DEF TypeOK, Invoke, RegisterOnAll, workerVars
  <2>3. /\ outbox' = outbox /\ Distinct(outbox[w]) /\ \A m \in Range(outbox[w]) : m.by # p
        /\ \A m \in Range(inbox[w]) : m.by # p
    BY <1>1, NotAwaited DEF Invoke, RuntimeInv, PortsOK, OutboxOK, Unasked
  <2>4. \A m \in Range(inbox'[w]) : m.by = p => Asks(w, m)'
    BY <1>2, <2>2, <2>3 DEF Asks
  <2> QED
    BY <1>2, <2>1, <2>2, <2>3, <2>4, PortsKept DEF RuntimeInv
<1>5. ASSUME NEW q \in Procs
      PROVE  ProcessOK(q)'
  BY <1>1, <1>2, RuntimeAssumption
  DEF ProcessOK, Exists, LoadedEverywhere, RuntimeInv, TypeOK, Invoke, RegisterOnAll, workerVars, endVars
<1>6. ActorsOK'
  BY <1>1 DEF ActorsOK, Exists, RuntimeInv, TypeOK, Invoke, RegisterOnAll
<1>7. EndOK'
  BY <1>1, <1>2 DEF EndOK, RuntimeInv, TypeOK, Invoke, RegisterOnAll, endVars
<1>8. FinitelyMany'
  BY FinitelyManyKept DEF RuntimeInv, RegisterOnAll, TypeOK
<1>9. \A q \in Procs : BehindOK(q)'
  BY <1>1, <1>2, BehindKept DEF Invoke, RegisterOnAll, TypeOK
<1> QED
  BY <1>3, <1>4, <1>5, <1>6, <1>7, <1>8, <1>9 DEF RuntimeInv

LEMMA CallCreates ==
  ASSUME TypeOK, RuntimeInv,
         NEW p \in Procs, NEW f \in {"spawn", "getOrSpawn"},
         NEW c \in Classes, NEW k \in Keys \cup {None}, NEW w \in Workers,
         f = "getOrSpawn" => k \in Keys /\ w = Place[k],
         Invoke(p, f, c, k), CreateOn(p, w)
  PROVE  TypeOK' /\ RuntimeInv'
<1>1. /\ pc[p] = "idle" /\ awaiting[p] = {} /\ p \notin own /\ \A v \in Workers : Unasked(v, p)
  BY NotAwaited DEF Invoke, IsNext, RuntimeInv, ProcessOK
<1>2. /\ inbox' \in [Workers -> Seq([cmd : Commands, by : Procs])]
      /\ \A v \in Workers : Distinct(inbox'[v])
      /\ \A v \in Workers : \A m \in Range(inbox'[v]) :
           \/ m \in Range(inbox[v])
           \/ /\ v = w /\ m = [cmd |-> "create", by |-> p]
              /\ w \in awaiting'[p] /\ pc'[p] = "creating"
      /\ \E W \in {{}, {w}} : awaiting' = [awaiting EXCEPT ![p] = W]
      /\ pc' \in {[pc EXCEPT ![p] = "creating"], [pc EXCEPT ![p] = "rejected"]}
      /\ result' \in {result, [result EXCEPT ![p] = None]}
  BY <1>1, CreatePorts DEF RuntimeInv
<1>3. /\ home' = [home EXCEPT ![p] = w]
      /\ localObjects' = [localObjects EXCEPT ![w] = @ \cup {p}]
      /\ UNCHANGED <<registry, keyed, own>>
  BY DEF CreateOn
<1>4. /\ \A q \in Procs \ {p} :
           /\ pc'[q] = pc[q] /\ awaiting'[q] = awaiting[q] /\ home'[q] = home[q]
           /\ result'[q] = result[q]
      /\ pc'[p] \in {"creating", "rejected"} /\ awaiting'[p] \subseteq {w} /\ home'[p] = w
      /\ awaiting' \in [Procs -> SUBSET Workers]
  BY <1>2, <1>3 DEF TypeOK
<1>5. TypeOK'
  <2>1. /\ home' \in [Procs -> Workers \cup {None}]
        /\ localObjects' \in [Workers -> SUBSET Procs]
    BY <1>3 DEF TypeOK
  <2>2. result' \in [Procs -> Procs \cup {None}]
        /\ pc' \in [Procs -> {"idle", "registering", "creating", "destroying",
                              "resolved", "rejected"}]
    BY <1>2 DEF TypeOK
  <2>3. /\ fn' \in [Procs -> {"none", "register", "spawn", "getOrSpawn", "destroy"}]
        /\ class' \in [Procs -> Classes \cup {None}]
        /\ key' \in [Procs -> Keys \cup {None}]
        /\ UNCHANGED <<target, original, behind, disposed, ended, cleared, outbox, importing,
                       loaded, actors, unknown>>
    BY DEF TypeOK, Invoke, workerVars, endVars
  <2> QED
    BY <1>2, <1>3, <1>4, <2>1, <2>2, <2>3 DEF TypeOK
<1>6. PortsOK'
  <2> SUFFICES ASSUME NEW v \in Workers
               PROVE  InboxOK(v)' /\ ImportingOK(v)' /\ OutboxOK(v)'
    BY DEF PortsOK
  <2>1. LeavesOthers(p, v)
    BY <1>3, <1>4 DEF LeavesOthers, Invoke, TypeOK, workerVars
  <2>2. p \notin importing'[v]
    BY <1>1, NotAwaited DEF Invoke, workerVars
  <2>3. /\ outbox' = outbox /\ Distinct(outbox[v]) /\ \A m \in Range(outbox[v]) : m.by # p
        /\ \A m \in Range(inbox[v]) : m.by # p
    BY <1>1, NotAwaited DEF Invoke, RuntimeInv, PortsOK, OutboxOK, Unasked
  <2>4. \A m \in Range(inbox'[v]) : m.by = p => Asks(v, m)'
    BY <1>2, <2>2, <2>3 DEF Asks
  <2>5. \A m \in Range(inbox'[v]) : m \in Range(inbox[v]) \/ m.by = p
    BY <1>2
  <2> QED
    BY <1>2, <2>1, <2>2, <2>3, <2>4, <2>5, PortsKept DEF RuntimeInv
<1>7. ASSUME NEW q \in Procs
      PROVE  ProcessOK(q)'
  <2>1. ProcessOK(q) /\ ProcessOK(p)
    BY DEF RuntimeInv
  <2>2. \A a : Exists(a) => Exists(a)'
    BY <1>1, <1>4 DEF Exists
  <2>3. CASE q = p
    BY <1>1, <1>3, <1>4, <2>1, <2>3, RuntimeAssumption
    DEF ProcessOK, Invoke, TypeOK, workerVars
  <2>4. CASE q # p
    BY <1>3, <1>4, <2>1, <2>2, <2>4, RuntimeAssumption
    DEF ProcessOK, LoadedEverywhere, Exists, Invoke, TypeOK, workerVars
  <2> QED
    BY <2>3, <2>4
<1>8. ActorsOK'
  <2>1. ActorsOK
    BY DEF RuntimeInv
  <2>2. \A a : Exists(a) => Exists(a)' /\ home'[a] = home[a]
    BY <1>1, <1>4 DEF Exists
  <2>3. \A v \in Workers : \A a \in localObjects'[v] :
          a \in Procs /\ (a \in localObjects[v] \/ (a = p /\ v = w))
    BY <1>3 DEF TypeOK
  <2>4. \A v \in Workers : \A a \in localObjects'[v] :
          home'[a] = v /\ pc'[a] \in {"creating", "resolved", "rejected"}
    BY <1>1, <1>4, <2>1, <2>3 DEF ActorsOK
  <2> QED
    BY <1>3, <2>1, <2>2, <2>4 DEF ActorsOK
<1>9. EndOK'
  BY <1>1, <1>4 DEF EndOK, RuntimeInv, TypeOK, Invoke, endVars
<1>10. FinitelyMany'
  BY <1>4, FinitelyManyKept DEF RuntimeInv
<1>11. \A q \in Procs : BehindOK(q)'
  BY <1>1, <1>4, BehindKept DEF Invoke
<1> QED
  BY <1>5, <1>6, <1>7, <1>8, <1>9, <1>10, <1>11 DEF RuntimeInv

\* process p records what it was called with
Records(p) ==
  /\ fn' \in [Procs -> {"none", "register", "spawn", "getOrSpawn", "destroy"}]
  /\ class' \in [Procs -> Classes \cup {None}] /\ key' \in [Procs -> Keys \cup {None}]
  /\ target' \in [Procs -> Procs \cup {None}] /\ original' \in [Procs -> BOOLEAN]
  /\ behind' = behind
  /\ \A q \in Procs \ {p} :
       /\ fn'[q] = fn[q] /\ class'[q] = class[q] /\ key'[q] = key[q]
       /\ target'[q] = target[q] /\ original'[q] = original[q]
  /\ fn'[p] = "getOrSpawn" => key'[p] \in Keys
  /\ target'[p] # None => Exists(target'[p])

LEMMA CallSettles ==
  ASSUME TypeOK, RuntimeInv, NEW p \in Procs, pc[p] = "idle",
         NEW outcome \in {"resolved", "rejected"}, NEW proxy \in Procs \cup {None},
         outcome = "resolved" /\ proxy # None => Exists(proxy),
         outcome = "resolved" => fn'[p] = "getOrSpawn",
         Records(p), Settle(p, outcome, proxy),
         UNCHANGED <<home, awaiting, registry, keyed, endVars, localObjects, inbox, outbox,
                     workerVars, own>>
  PROVE  TypeOK' /\ RuntimeInv'
<1>1. awaiting[p] = {} /\ p \notin own /\ home[p] = None
  BY DEF RuntimeInv, ProcessOK
<1>2. TypeOK'
  BY DEF TypeOK, Settle, endVars, workerVars, Records
<1>3. (\A q \in Procs \ {p} : pc'[q] = pc[q]) /\ pc'[p] = outcome
  BY DEF TypeOK, Settle
<1>4. PortsOK'
  <2> SUFFICES ASSUME NEW v \in Workers
               PROVE  InboxOK(v)' /\ ImportingOK(v)' /\ OutboxOK(v)'
    BY DEF PortsOK
  <2>1. p \notin importing[v] /\ Unasked(v, p) /\ \A m \in Range(outbox[v]) : m.by # p
    BY <1>1, NotAwaited
  <2>2. Distinct(inbox[v]) /\ Distinct(outbox[v])
    BY DEF RuntimeInv, PortsOK, InboxOK, OutboxOK
  <2>3. LeavesOthers(p, v)
    BY <1>3 DEF LeavesOthers, Records, TypeOK, workerVars
  <2> QED
    BY <2>1, <2>2, <2>3, PortsKept DEF RuntimeInv, workerVars, Unasked
<1>5. ASSUME NEW q \in Procs
      PROVE  ProcessOK(q)'
  <2>1. ProcessOK(q)
    BY DEF RuntimeInv
  <2>2. \A a \in Procs : Exists(a) => Exists(a)'
    BY <1>3 DEF Exists
  <2>3. CASE q = p
    BY <1>1, <1>3, <2>1, <2>2, <2>3 DEF ProcessOK, Records, Settle, workerVars, TypeOK
  <2>4. CASE q # p
    BY <1>3, <2>1, <2>2, <2>4
    DEF ProcessOK, LoadedEverywhere, Records, Settle, workerVars, TypeOK, Exists
  <2> QED
    BY <2>3, <2>4
<1>6. ActorsOK'
  <2>1. ActorsOK
    BY DEF RuntimeInv
  <2>2. \A v \in Workers : \A a \in localObjects[v] : a \in Procs
    BY DEF TypeOK
  <2>3. \A a : Exists(a) => Exists(a)'
    BY <1>3 DEF Exists
  <2> QED
    BY <1>3, <2>1, <2>2, <2>3 DEF ActorsOK
<1>7. EndOK'
  BY DEF EndOK, RuntimeInv, endVars
<1>8. FinitelyMany'
  BY <1>3, FinitelyManyKept DEF RuntimeInv
<1>9. \A q \in Procs : BehindOK(q)'
  BY <1>3, BehindKept DEF Records
<1> QED
  BY <1>2, <1>4, <1>5, <1>6, <1>7, <1>8, <1>9 DEF RuntimeInv

LEMMA CallDestroys ==
  ASSUME TypeOK, RuntimeInv, NEW p \in Procs, NEW a \in Held, NEW orig \in BOOLEAN,
         Destroy(p, a, orig)
  PROVE  TypeOK' /\ RuntimeInv'
<1>1. /\ pc[p] = "idle" /\ awaiting[p] = {} /\ p \notin own /\ home[p] = None
      /\ \A v \in Workers : Unasked(v, p)
      /\ "destroy" \in Commands /\ ended = {}
  BY NotAwaited DEF Destroy, IsNext, RuntimeInv, ProcessOK, EndOK, Commands
<1>2. Exists(a)
  BY DEF Held, RuntimeInv, ProcessOK, TypeOK
<1>3. CASE pc' = [pc EXCEPT ![p] = "destroying"] /\ Request(p, {home[a]}, "destroy")
           /\ UNCHANGED <<result, behind>>
  <2>1. /\ pc' = [pc EXCEPT ![p] = "destroying"]
        /\ Request(p, {home[a]}, "destroy") /\ UNCHANGED result
    BY <1>3
  <2>2. /\ inbox' \in [Workers -> Seq([cmd : Commands, by : Procs])]
        /\ awaiting' = [awaiting EXCEPT ![p] = {home[a]}]
        /\ Distinct(inbox'[home[a]])
        /\ Range(inbox'[home[a]]) = Range(inbox[home[a]]) \cup {[cmd |-> "destroy", by |-> p]}
        /\ \A v \in Workers \ {home[a]} : inbox'[v] = inbox[v]
    BY <1>1, <1>2, <2>1, RequestOne DEF RuntimeInv, Exists
  <2>3. TypeOK'
    <3>1. /\ fn' = [fn EXCEPT ![p] = "destroy"] /\ target' = [target EXCEPT ![p] = a]
          /\ original' = [original EXCEPT ![p] = orig]
          /\ UNCHANGED <<class, key, home, registry, keyed, disposed, ended, cleared,
                         localObjects, outbox, importing, loaded, actors, unknown, own>>
      BY DEF Destroy, endVars, workerVars
    <3>2. a \in Procs /\ home[a] \in Workers
      BY <1>2 DEF Exists
    <3>3. /\ fn' \in [Procs -> {"none", "register", "spawn", "getOrSpawn", "destroy"}]
          /\ target' \in [Procs -> Procs \cup {None}] /\ original' \in [Procs -> BOOLEAN]
          /\ awaiting' \in [Procs -> SUBSET Workers]
          /\ pc' \in [Procs -> {"idle", "registering", "creating", "destroying",
                                "resolved", "rejected"}]
      BY <2>1, <2>2, <3>1, <3>2 DEF TypeOK
    <3> QED
      BY <1>3, <2>2, <3>1, <3>3 DEF TypeOK
  <2>4. PortsOK'
    <3> SUFFICES ASSUME NEW v \in Workers
                 PROVE  InboxOK(v)' /\ ImportingOK(v)' /\ OutboxOK(v)'
      BY DEF PortsOK
    <3>1. LeavesOthers(p, v)
      BY <2>1, <2>2 DEF LeavesOthers, Destroy, TypeOK, workerVars
    <3>2. home[a] \in awaiting'[p] /\ p \notin importing'[v] /\ pc'[p] = "destroying"
      BY <1>1, <1>2, <2>1, <2>2, NotAwaited DEF TypeOK, Destroy, workerVars, Exists
    <3>3. /\ outbox' = outbox /\ Distinct(outbox[v]) /\ \A m \in Range(outbox[v]) : m.by # p
          /\ Distinct(inbox[v]) /\ \A m \in Range(inbox[v]) : m.by # p
      BY <1>1, NotAwaited DEF Destroy, RuntimeInv, PortsOK, InboxOK, OutboxOK, Unasked
    <3>4. CASE v = home[a]
      <4>1. \A m \in Range(inbox'[v]) : m.by = p => Asks(v, m)'
        BY <2>2, <3>2, <3>3, <3>4 DEF Asks
      <4> QED
        BY <2>2, <3>1, <3>2, <3>3, <3>4, <4>1, PortsKept DEF RuntimeInv
    <3>5. CASE v # home[a]
      <4>1. inbox'[v] = inbox[v]
        BY <2>2, <3>5
      <4> QED
        BY <3>1, <3>2, <3>3, <4>1, PortsKept DEF RuntimeInv
    <3> QED
      BY <3>4, <3>5
  <2>5. ASSUME NEW q \in Procs
        PROVE  ProcessOK(q)'
    BY <1>1, <1>2, <2>1, <2>2, RuntimeAssumption
    DEF ProcessOK, Exists, LoadedEverywhere, RuntimeInv, TypeOK, Destroy, workerVars
  <2>6. ActorsOK'
    BY <1>1, <2>1 DEF ActorsOK, Exists, RuntimeInv, TypeOK, Destroy
  <2>7. EndOK'
    BY <1>1, <2>2 DEF EndOK, RuntimeInv, TypeOK, Destroy, endVars
  <2>8. FinitelyMany'
    BY <2>1, FinitelyManyKept DEF RuntimeInv, TypeOK
  <2>9. \A q \in Procs : BehindOK(q)'
    <3>1. \A q \in Procs \ {p} : pc'[q] = pc[q] /\ awaiting'[q] = awaiting[q] /\ target'[q] = target[q]
      BY <2>1, <2>2 DEF Destroy, TypeOK
    <3> QED
      BY <1>1, <1>3, <3>1, BehindKept
  <2> QED
    BY <2>3, <2>4, <2>5, <2>6, <2>7, <2>8, <2>9 DEF RuntimeInv
<1>4. ASSUME NEW q \in LastTask(a), behind' = [behind EXCEPT ![p] = q],
             pc' = [pc EXCEPT ![p] = "destroying"], UNCHANGED <<awaiting, inbox, result>>
      PROVE  TypeOK' /\ RuntimeInv'
  <2>1. q \in Procs /\ pc[q] = "destroying" /\ target[q] = a /\ q # p /\ a \in Procs
    BY <1>1, <1>2 DEF LastTask, Exists
  <2>2. /\ fn' = [fn EXCEPT ![p] = "destroy"] /\ target' = [target EXCEPT ![p] = a]
        /\ original' = [original EXCEPT ![p] = orig]
        /\ UNCHANGED <<class, key, home, registry, keyed, endVars, localObjects, outbox,
                       workerVars, own>>
    BY DEF Destroy
  <2>3. /\ \A t \in Procs \ {p} :
             /\ pc'[t] = pc[t] /\ target'[t] = target[t] /\ fn'[t] = fn[t]
             /\ behind'[t] = behind[t]
        /\ pc'[p] = "destroying" /\ target'[p] = a /\ fn'[p] = "destroy" /\ behind'[p] = q
    BY <1>4, <2>2 DEF TypeOK
  <2>4. TypeOK'
    BY <1>4, <2>1, <2>2 DEF TypeOK, workerVars, endVars
  <2>5. PortsOK'
    <3> SUFFICES ASSUME NEW v \in Workers
                 PROVE  InboxOK(v)' /\ ImportingOK(v)' /\ OutboxOK(v)'
      BY DEF PortsOK
    <3>1. LeavesOthers(p, v)
      BY <1>4, <2>2, <2>3 DEF LeavesOthers, TypeOK, workerVars
    <3>2. /\ p \notin importing[v] /\ Distinct(outbox[v]) /\ \A m \in Range(outbox[v]) : m.by # p
          /\ Distinct(inbox[v]) /\ \A m \in Range(inbox[v]) : m.by # p
      BY <1>1, NotAwaited DEF RuntimeInv, PortsOK, InboxOK, OutboxOK, Unasked
    <3> QED
      BY <1>4, <2>2, <3>1, <3>2, PortsKept DEF RuntimeInv, workerVars
  <2>6. ASSUME NEW t \in Procs
        PROVE  ProcessOK(t)'
    <3>1. ProcessOK(t)
      BY DEF RuntimeInv
    <3>2. \A b : Exists(b) => Exists(b)'
      BY <1>1, <2>2, <2>3 DEF Exists
    <3>3. CASE t = p
      BY <1>1, <1>2, <1>4, <2>2, <2>3, <3>1, <3>2, <3>3 DEF ProcessOK, workerVars, Exists
    <3>4. CASE t # p
      BY <1>4, <2>2, <2>3, <3>1, <3>2, <3>4 DEF ProcessOK, LoadedEverywhere, workerVars, Exists
    <3> QED
      BY <3>3, <3>4
  <2>7. ActorsOK'
    BY <1>1, <2>2, <2>3 DEF ActorsOK, Exists, RuntimeInv, TypeOK
  <2>8. EndOK'
    BY <1>4, <2>2 DEF EndOK, RuntimeInv, endVars
  <2>9. FinitelyMany'
    BY <2>3, FinitelyManyKept DEF RuntimeInv
  <2>10. ASSUME NEW t \in Procs
         PROVE  BehindOK(t)'
    <3>1. BehindOK(t)
      BY DEF RuntimeInv
    <3>2. CASE t = p
      BY <1>1, <1>4, <2>1, <2>3, <3>2 DEF BehindOK
    <3>3. CASE t # p
      <4>1. behind[t] # None => behind[t] # p /\ behind[t] \in Procs
        BY <1>1, <3>1 DEF BehindOK, TypeOK
      <4> QED
        BY <1>4, <2>3, <3>1, <3>3, <4>1 DEF BehindOK
    <3> QED
      BY <3>2, <3>3
  <2> QED
    BY <2>4, <2>5, <2>6, <2>7, <2>8, <2>9, <2>10 DEF RuntimeInv
<1>5. CASE Settle(p, "rejected", None) /\ UNCHANGED <<behind, awaiting, inbox>>
  <2>1. Settle(p, "rejected", None) /\ UNCHANGED <<awaiting, inbox>>
    BY <1>5
  <2>2. a \in Procs
    BY <1>2 DEF Exists
  <2> QED
    <3>1. Records(p)
      BY <1>2, <1>5, <2>2 DEF Records, Destroy, TypeOK, Exists
    <3> QED
      BY <1>1, <2>1, <3>1, CallSettles DEF Destroy
<1> QED
  BY <1>3, <1>5, <1>4 DEF Destroy

LEMMA UserKeeps ==
  ASSUME TypeOK, RuntimeInv, NEW p \in Procs, UserStep(p)
  PROVE  TypeOK' /\ RuntimeInv'
<1>1. CASE Refuse(p)
  <2>1. Records(p)
    BY <1>1 DEF Refuse, IsNext, Records, callVars, TypeOK, RuntimeInv, ProcessOK
  <2> QED
    BY <1>1, <2>1, CallSettles DEF Refuse, IsNext
<1>2. ASSUME NEW c \in Classes, Register(p, c)
      PROVE  TypeOK' /\ RuntimeInv'
  BY <1>2, CallRegisters DEF Register
<1>3. ASSUME NEW c \in Classes, Spawn(p, c)
      PROVE  TypeOK' /\ RuntimeInv'
  <2>1. Invoke(p, "spawn", c, None)
    BY <1>3 DEF Spawn
  <2>2. CASE c \in registry
    <3>1. \A w \in Workers : \A q \in Procs : w \in awaiting[q] => pc[q] # "idle"
      BY DEF RuntimeInv, ProcessOK
    <3>2. Pick(awaiting) \in Workers /\ CreateOn(p, Pick(awaiting))
      BY <1>3, <2>2, <3>1, PickIsLeast DEF Spawn
    <3> QED
      BY <2>1, <3>2, CallCreates
  <2>3. CASE c \notin registry
    BY <1>3, <2>1, <2>3, CallRegisters DEF Spawn
  <2> QED
    BY <2>2, <2>3
<1>4. ASSUME NEW c \in Classes, NEW k \in Keys, GetOrSpawn(p, k, c)
      PROVE  TypeOK' /\ RuntimeInv'
  <2>1. Invoke(p, "getOrSpawn", c, k)
    BY <1>4 DEF GetOrSpawn
  <2>2. CASE keyed[k] # None
    <3>1. Exists(keyed[k])
      BY <2>2 DEF RuntimeInv, ActorsOK
    <3>2. Records(p) /\ fn'[p] = "getOrSpawn"
      BY <2>1 DEF Invoke, IsNext, Records, TypeOK, RuntimeInv, ProcessOK
    <3>3. PICK outcome \in {"resolved", "rejected"}, proxy \in {keyed[k], None} :
            (outcome = "resolved" => proxy = keyed[k]) /\ Settle(p, outcome, proxy)
      BY <1>4, <2>2 DEF GetOrSpawn
    <3>4. /\ pc[p] = "idle" /\ proxy \in Procs \cup {None}
          /\ outcome = "resolved" /\ proxy # None => Exists(proxy)
          /\ UNCHANGED <<home, awaiting, registry, keyed, endVars, localObjects, inbox, outbox,
                         workerVars, own>>
      BY <1>4, <2>1, <2>2, <3>1, <3>3 DEF GetOrSpawn, Invoke, IsNext, Exists
    <3> QED
      BY <3>2, <3>3, <3>4, CallSettles
  <2>3. CASE keyed[k] = None /\ c \in registry
    <3>1. Place[k] \in Workers /\ CreateOn(p, Place[k])
      BY <1>4, <2>3, RuntimeAssumption DEF GetOrSpawn
    <3> QED
      BY <2>1, <3>1, CallCreates
  <2>4. CASE keyed[k] = None /\ c \notin registry
    BY <1>4, <2>1, <2>4, CallRegisters DEF GetOrSpawn
  <2> QED
    BY <2>2, <2>3, <2>4
<1> QED
  BY <1>1, <1>2, <1>3, <1>4, CallDestroys DEF UserStep

LEMMA EndKeeps ==
  ASSUME TypeOK, RuntimeInv, Dispose \/ (\E w \in Workers : NodeEnds(w)) \/ DisposeEnds
  PROVE  TypeOK' /\ RuntimeInv'
<1>1. CASE Dispose
  <2>1. TypeOK' /\ EndOK' /\ ActorsOK'
    BY <1>1
    DEF Dispose, TypeOK, RuntimeInv, EndOK, ActorsOK, Exists, callVars, workerVars
  <2>2. PortsOK'
    BY <1>1 DEF Dispose, RuntimeInv, PortsOK, InboxOK, ImportingOK, OutboxOK, Asks, Says, Imports,
                Distinct, callVars, workerVars
  <2>3. \A q \in Procs : ProcessOK(q)'
    BY <1>1
    DEF Dispose, RuntimeInv, ProcessOK, LoadedEverywhere, Exists, callVars, workerVars
  <2>4. \A q \in Procs : BehindOK(q)'
    BY <1>1, BehindSame DEF Dispose, callVars
  <2> QED
    BY <1>1, <2>1, <2>2, <2>3, <2>4 DEF RuntimeInv, FinitelyMany, Dispose
<1>2. ASSUME NEW w \in Workers, NodeEnds(w)
      PROVE  TypeOK' /\ RuntimeInv'
  <2>1. TypeOK' /\ EndOK' /\ ActorsOK'
    <3>1. TypeOK'
      BY <1>2 DEF NodeEnds, TypeOK, callVars
    <3>2. EndOK'
      BY <1>2 DEF NodeEnds, TypeOK, RuntimeInv, EndOK
    <3>3. ActorsOK'
      BY <1>2 DEF NodeEnds, RuntimeInv, ActorsOK, Exists
    <3> QED
      BY <3>1, <3>2, <3>3
  <2>2. PortsOK'
    <3> SUFFICES ASSUME NEW v \in Workers
                 PROVE  InboxOK(v)' /\ ImportingOK(v)' /\ OutboxOK(v)'
      BY DEF PortsOK
    <3>1. InboxOK(v)' /\ ImportingOK(v)'
      BY <1>2 DEF NodeEnds, RuntimeInv, PortsOK, InboxOK, ImportingOK, Asks, Imports, Distinct,
                  callVars
    <3>2. v # w => actors'[v] = actors[v]
      BY <1>2 DEF NodeEnds, TypeOK
    <3>3. \A m \in Range(outbox[v]) : m.by \in Procs
      BY MessagesAreOfProcs
    <3>4. OutboxOK(v)'
      BY <1>2, <3>2, <3>3
      DEF NodeEnds, RuntimeInv, PortsOK, OutboxOK, Says, Distinct, callVars
    <3> QED
      BY <3>1, <3>4
  <2>3. \A q \in Procs : ProcessOK(q)'
    BY <1>2 DEF NodeEnds, RuntimeInv, ProcessOK, LoadedEverywhere, Exists, callVars
  <2>4. \A q \in Procs : BehindOK(q)'
    BY <1>2, BehindSame DEF NodeEnds, callVars
  <2> QED
    BY <1>2, <2>1, <2>2, <2>3, <2>4 DEF RuntimeInv, FinitelyMany, NodeEnds
<1>3. CASE DisposeEnds
  <2>1. TypeOK' /\ EndOK' /\ ActorsOK'
    BY <1>3 DEF DisposeEnds, TypeOK, RuntimeInv, EndOK, ActorsOK, Exists, callVars, workerVars
  <2>2. PortsOK'
    BY <1>3 DEF DisposeEnds, RuntimeInv, PortsOK, InboxOK, ImportingOK, OutboxOK, Asks, Says,
                Imports, Distinct, callVars, workerVars
  <2>3. \A q \in Procs : ProcessOK(q)'
    BY <1>3 DEF DisposeEnds, RuntimeInv, ProcessOK, LoadedEverywhere, Exists, callVars, workerVars
  <2>4. \A q \in Procs : BehindOK(q)'
    BY <1>3, BehindSame DEF DisposeEnds, callVars
  <2> QED
    BY <1>3, <2>1, <2>2, <2>3, <2>4 DEF RuntimeInv, FinitelyMany, DisposeEnds
<1> QED
  BY <1>1, <1>2, <1>3

\* When p reads the answer of w, nothing else of p is at the ports of w, and
\* what the answer says is so.
LEMMA AnswerIsTrue ==
  ASSUME TypeOK, RuntimeInv, NEW w \in Workers, NEW p \in Procs, NEW ok \in BOOLEAN,
         Answer(w, p, ok)
  PROVE  /\ w \in awaiting[p] /\ p \notin importing[w] /\ Unasked(w, p)
         /\ pc[p] = "registering" /\ ok => class[p] \in loaded[w]
         /\ pc[p] = "creating" /\ ok => p \in actors[w]
         /\ pc[p] = "destroying" => target[p] \notin actors[w]
<1> DEFINE m == [by |-> p, ok |-> ok]
<1>1. m \in Range(outbox[w]) /\ m.by = p /\ m.ok = ok
  BY AnswerPorts DEF RuntimeInv
<1> HIDE DEF m
<1>2. Says(w, m)
  BY <1>1 DEF RuntimeInv, PortsOK, OutboxOK
<1> QED
  BY <1>1, <1>2 DEF Says, Unasked

LEMMA RegisterAnsweredKeeps ==
  ASSUME TypeOK, RuntimeInv, NEW w \in Workers, NEW p \in Procs, RegisterAnswered(w, p)
  PROVE  TypeOK' /\ RuntimeInv'
<1>1. PICK ok \in BOOLEAN :
        /\ pc[p] = "registering" \/ (p \in own /\ pc[p] = "rejected")
        /\ Answer(w, p, ok)
        /\ \/ /\ pc[p] = "registering" /\ ok /\ awaiting[p] = {w}
              /\ fn[p] # "register" /\ ~disposed
              /\ CreateOn(p, WorkerFor(p, Answered(w, p)))
           \/ /\ awaiting' = Answered(w, p)
              /\ IF pc[p] = "rejected" \/ (ok /\ awaiting[p] # {w})
                   THEN UNCHANGED <<pc, result>>
                 ELSE IF ok /\ fn[p] = "register"
                   THEN Settle(p, "resolved", None)
                 ELSE (ok => disposed) /\ Settle(p, "rejected", None)
              /\ UNCHANGED <<home, registry, keyed, localObjects, inbox, own>>
  BY DEF RegisterAnswered
<1>2. /\ outbox' \in [Workers -> Seq([by : Procs, ok : BOOLEAN])]
      /\ \A v \in Workers :
           /\ Distinct(outbox'[v]) /\ Range(outbox'[v]) \subseteq Range(outbox[v])
           /\ v = w => \A m \in Range(outbox'[v]) : m.by # p
  BY <1>1, AnswerPorts DEF RuntimeInv
<1>3. /\ w \in awaiting[p] /\ p \notin importing[w] /\ Unasked(w, p)
      /\ pc[p] = "registering" /\ ok => class[p] \in loaded[w]
  BY <1>1, AnswerIsTrue
<1>4. UNCHANGED <<callVars, endVars, workerVars>>
  BY <1>1 DEF Answer
<1>5. ProcessOK(p) /\ \A v \in Workers : InboxOK(v) /\ ImportingOK(v) /\ OutboxOK(v)
  BY DEF RuntimeInv, PortsOK
<1>6. CASE CreateOn(p, WorkerFor(p, Answered(w, p))) /\ pc[p] = "registering" /\ ok
           /\ awaiting[p] = {w} /\ fn[p] # "register" /\ ~disposed
  <2> DEFINE h == WorkerFor(p, Answered(w, p))
  <2>1. h \in Workers /\ (fn[p] = "getOrSpawn" => key[p] \in Keys /\ h = Place[key[p]])
    <3>1. \A v \in Workers : \A q \in Procs : v \in Answered(w, p)[q] => pc[q] # "idle"
      BY DEF Answered, RuntimeInv, ProcessOK, TypeOK
    <3>2. Pick(Answered(w, p)) \in Workers
      BY <3>1, PickIsLeast
    <3> QED
      BY <1>5, <1>6, <3>2, RuntimeAssumption DEF WorkerFor, ProcessOK
  <2>2. CreateOn(p, h)
    BY <1>6
  <2> HIDE DEF h
  <2>3. \A v \in Workers : Unasked(v, p) /\ p \notin importing[v] /\ \A m \in Range(outbox'[v]) : m.by # p
    BY <1>2, <1>3, <1>6, NotAwaited
  <2>4. /\ inbox' \in [Workers -> Seq([cmd : Commands, by : Procs])]
        /\ \A v \in Workers : Distinct(inbox'[v])
        /\ \A v \in Workers : \A m \in Range(inbox'[v]) :
             \/ m \in Range(inbox[v])
             \/ /\ v = h /\ m = [cmd |-> "create", by |-> p]
                /\ h \in awaiting'[p] /\ pc'[p] = "creating"
        /\ \E W \in {{}, {h}} : awaiting' = [awaiting EXCEPT ![p] = W]
        /\ pc' \in {[pc EXCEPT ![p] = "creating"], [pc EXCEPT ![p] = "rejected"]}
        /\ result' \in {result, [result EXCEPT ![p] = None]}
    BY <2>1, <2>2, <2>3, CreatePorts DEF RuntimeInv
  <2>5. /\ home' = [home EXCEPT ![p] = h]
        /\ localObjects' = [localObjects EXCEPT ![h] = @ \cup {p}]
        /\ UNCHANGED <<registry, keyed, own>>
    BY <2>2 DEF CreateOn
  <2>6. /\ \A q \in Procs \ {p} :
             /\ pc'[q] = pc[q] /\ awaiting'[q] = awaiting[q] /\ home'[q] = home[q]
             /\ result'[q] = result[q]
        /\ pc'[p] \in {"creating", "rejected"} /\ awaiting'[p] \subseteq {h} /\ home'[p] = h
        /\ awaiting' \in [Procs -> SUBSET Workers]
    BY <2>1, <2>4, <2>5 DEF TypeOK
  <2>7. TypeOK'
    <3>1. /\ home' \in [Procs -> Workers \cup {None}]
          /\ localObjects' \in [Workers -> SUBSET Procs]
      BY <2>1, <2>5 DEF TypeOK
    <3>2. result' \in [Procs -> Procs \cup {None}]
          /\ pc' \in [Procs -> {"idle", "registering", "creating", "destroying",
                                "resolved", "rejected"}]
      BY <2>4 DEF TypeOK
    <3> QED
      BY <1>2, <1>4, <2>4, <2>5, <2>6, <3>1, <3>2 DEF TypeOK, callVars, workerVars, endVars
  <2>8. PortsOK'
    <3> SUFFICES ASSUME NEW v \in Workers
                 PROVE  InboxOK(v)' /\ ImportingOK(v)' /\ OutboxOK(v)'
      BY DEF PortsOK
    <3>1. LeavesOthers(p, v)
      BY <1>4, <2>5, <2>6 DEF LeavesOthers, TypeOK, callVars, workerVars
    <3>2. p \notin importing'[v]
      BY <1>4, <2>3 DEF workerVars
    <3>3. /\ Distinct(outbox'[v]) /\ \A m \in Range(outbox'[v]) : m.by # p /\ m \in Range(outbox[v])
          /\ \A m \in Range(inbox[v]) : m.by # p
      BY <1>2, <2>3 DEF Unasked
    <3>4. \A m \in Range(inbox'[v]) : m.by = p => Asks(v, m)'
      BY <2>4, <3>2, <3>3 DEF Asks
    <3>5. \A m \in Range(inbox'[v]) : m \in Range(inbox[v]) \/ m.by = p
      BY <2>4
    <3> QED
      BY <2>4, <3>1, <3>2, <3>3, <3>4, <3>5, PortsKept DEF RuntimeInv
  <2>9. ASSUME NEW q \in Procs
        PROVE  ProcessOK(q)'
    <3>1. ProcessOK(q)
      BY DEF RuntimeInv
    <3>2. \A a : Exists(a) => Exists(a)'
      BY <1>6, <2>6 DEF Exists
    <3>3. CASE q = p
      <4>1. p \in localObjects'[h]
        BY <2>1, <2>5 DEF TypeOK
      <4>2. LoadedEverywhere(p)'
        BY <1>3, <1>4, <1>5, <1>6 DEF ProcessOK, LoadedEverywhere, callVars, workerVars
      <4> QED
        BY <1>4, <1>5, <1>6, <2>1, <2>5, <2>6, <3>2, <3>3, <4>1, <4>2, RuntimeAssumption
        DEF ProcessOK, callVars, workerVars, Exists
    <3>4. CASE q # p
      BY <1>4, <2>1, <2>5, <2>6, <3>1, <3>2, <3>4
      DEF ProcessOK, LoadedEverywhere, TypeOK, callVars, workerVars, Exists
    <3> QED
      BY <3>3, <3>4
  <2>10. ActorsOK'
    <3>1. ActorsOK
      BY DEF RuntimeInv
    <3>2. \A a : Exists(a) => Exists(a)' /\ home'[a] = home[a]
      BY <1>6, <2>6 DEF Exists
    <3>3. \A v \in Workers : \A a \in localObjects'[v] :
            a \in Procs /\ (a \in localObjects[v] \/ (a = p /\ v = h))
      BY <2>1, <2>5 DEF TypeOK
    <3>4. \A v \in Workers : \A a \in localObjects'[v] :
            home'[a] = v /\ pc'[a] \in {"creating", "resolved", "rejected"}
      BY <1>6, <2>6, <3>1, <3>3 DEF ActorsOK
    <3> QED
      BY <2>5, <3>1, <3>2, <3>4 DEF ActorsOK
  <2>11. EndOK'
    BY <1>4, <1>6 DEF EndOK, RuntimeInv, TypeOK, endVars
  <2>12. FinitelyMany'
    BY <2>6, FinitelyManyKept DEF RuntimeInv
  <2>13. \A q \in Procs : BehindOK(q)'
    BY <1>4, <1>6, <2>6, BehindKept DEF callVars
  <2> QED
    BY <2>7, <2>8, <2>9, <2>10, <2>11, <2>12, <2>13 DEF RuntimeInv
<1>7. CASE /\ awaiting' = Answered(w, p)
           /\ IF pc[p] = "rejected" \/ (ok /\ awaiting[p] # {w})
                THEN UNCHANGED <<pc, result>>
              ELSE IF ok /\ fn[p] = "register"
                THEN Settle(p, "resolved", None)
              ELSE (ok => disposed) /\ Settle(p, "rejected", None)
           /\ UNCHANGED <<home, registry, keyed, localObjects, inbox, own>>
  <2>1. /\ \A q \in Procs \ {p} : pc'[q] = pc[q] /\ awaiting'[q] = awaiting[q] /\ result'[q] = result[q]
        /\ awaiting'[p] = awaiting[p] \ {w}
        /\ pc'[p] \in {"registering", "rejected", "resolved"}
        /\ pc'[p] = "registering" => pc[p] = "registering" /\ ok
        /\ pc'[p] = "resolved" => pc[p] = "registering" /\ ok /\ awaiting'[p] = {} /\ result'[p] = None
    BY <1>1, <1>3, <1>7 DEF Answered, Settle, TypeOK
  <2>2. TypeOK'
    BY <1>2, <1>4, <1>7 DEF TypeOK, Answered, Settle, callVars, workerVars, endVars
  <2>3. PortsOK'
    <3> SUFFICES ASSUME NEW v \in Workers
                 PROVE  InboxOK(v)' /\ ImportingOK(v)' /\ OutboxOK(v)'
      BY DEF PortsOK
    <3>1. LeavesOthers(p, v)
      BY <1>4, <1>7, <2>1 DEF LeavesOthers, TypeOK, callVars, workerVars
    <3>2. CASE v = w
      BY <1>2, <1>3, <1>4, <1>5, <1>7, <3>1, <3>2, PortsKept
      DEF RuntimeInv, InboxOK, Unasked, workerVars
    <3>3. CASE v # w
      <4>1. v \in awaiting[p] => v \in awaiting'[p] /\ pc'[p] \in {"registering", "rejected"}
        BY <2>1, <3>3
      <4>2. ASSUME NEW m \in Range(inbox[v]), m.by = p
            PROVE  Asks(v, m)'
        BY <1>1, <1>4, <1>5, <1>7, <4>1, <4>2 DEF InboxOK, Asks, workerVars
      <4>3. p \in importing[v] => Imports(v, p)'
        BY <1>5, <1>7, <4>1 DEF ImportingOK, Imports
      <4>4. ASSUME NEW m \in Range(outbox[v]), m.by = p
            PROVE  Says(v, m)'
        BY <1>4, <1>5, <1>7, <2>1, <4>1, <4>4 DEF OutboxOK, Says, callVars, workerVars
      <4> QED
        BY <1>2, <1>4, <1>5, <1>7, <3>1, <4>2, <4>3, <4>4, PortsKept
        DEF RuntimeInv, InboxOK, workerVars
    <3> QED
      BY <3>2, <3>3
  <2>4. ASSUME NEW q \in Procs
        PROVE  ProcessOK(q)'
    <3>1. ProcessOK(q) /\ ProcessOK(p)
      BY DEF RuntimeInv
    <3>2. \A a \in Procs : Exists(a) => Exists(a)'
      BY <1>1, <1>7, <2>1 DEF Exists
    <3>3. CASE q = p
      BY <1>1, <1>3, <1>4, <1>7, <2>1, <3>1, <3>2, <3>3, RuntimeAssumption
      DEF ProcessOK, LoadedEverywhere, TypeOK, callVars, workerVars, Exists
    <3>4. CASE q # p
      BY <1>4, <1>7, <2>1, <3>1, <3>2, <3>4
      DEF ProcessOK, LoadedEverywhere, TypeOK, callVars, workerVars, Exists
    <3> QED
      BY <3>3, <3>4
  <2>5. ActorsOK'
    <3>1. \A v \in Workers : \A a \in localObjects[v] :
            a \in Procs /\ pc'[a] \in {"creating", "resolved", "rejected"}
      BY <1>1, <1>7, <2>1 DEF ActorsOK, RuntimeInv, TypeOK
    <3>2. \A a : Exists(a) => Exists(a)'
      BY <1>1, <1>7, <2>1 DEF Exists
    <3> QED
      BY <1>7, <3>1, <3>2 DEF ActorsOK, Exists, RuntimeInv
  <2>6. EndOK'
    BY <1>4, <2>1 DEF EndOK, RuntimeInv, endVars
  <2>7. FinitelyMany'
    BY <2>1, FinitelyManyKept DEF RuntimeInv
  <2>8. \A q \in Procs : BehindOK(q)'
    BY <1>1, <1>4, <2>1, BehindKept DEF callVars
  <2> QED
    BY <2>2, <2>3, <2>4, <2>5, <2>6, <2>7, <2>8 DEF RuntimeInv
<1> QED
  BY <1>1, <1>6, <1>7

LEMMA CreateAnsweredKeeps ==
  ASSUME TypeOK, RuntimeInv, NEW w \in Workers, NEW p \in Procs, CreateAnswered(w, p)
  PROVE  TypeOK' /\ RuntimeInv'
<1>1. PICK ok \in BOOLEAN :
        /\ pc[p] = "creating" /\ Answer(w, p, ok) /\ awaiting' = Answered(w, p)
        /\ IF ok THEN Settle(p, "resolved", p) ELSE Settle(p, "rejected", None)
        /\ keyed' = IF ok /\ fn[p] = "getOrSpawn" THEN [keyed EXCEPT ![key[p]] = p] ELSE keyed
        /\ UNCHANGED <<home, registry, localObjects, inbox, own>>
  BY DEF CreateAnswered
<1>2. /\ outbox' \in [Workers -> Seq([by : Procs, ok : BOOLEAN])]
      /\ \A v \in Workers :
           /\ Distinct(outbox'[v]) /\ Range(outbox'[v]) \subseteq Range(outbox[v])
           /\ v = w => \A m \in Range(outbox'[v]) : m.by # p
  BY <1>1, AnswerPorts DEF RuntimeInv
<1>3. w \in awaiting[p] /\ p \notin importing[w] /\ Unasked(w, p)
  BY <1>1, AnswerIsTrue
<1>4. UNCHANGED <<callVars, endVars, workerVars>>
  BY <1>1 DEF Answer
<1>5. ProcessOK(p) /\ home[p] = w /\ awaiting[p] = {w}
  BY <1>1, <1>3 DEF RuntimeInv, ProcessOK, TypeOK
<1>6. /\ \A q \in Procs \ {p} : pc'[q] = pc[q] /\ awaiting'[q] = awaiting[q] /\ result'[q] = result[q]
      /\ awaiting'[p] = {} /\ pc'[p] \in {"rejected", "resolved"}
      /\ result'[p] \in {None, p} /\ (pc'[p] = "resolved" <=> ok)
  BY <1>1, <1>5 DEF Answered, Settle, TypeOK
<1>7. TypeOK'
  BY <1>1, <1>2, <1>4 DEF TypeOK, Answered, Settle, callVars, workerVars, endVars
<1>8. PortsOK'
  <2> SUFFICES ASSUME NEW v \in Workers
               PROVE  InboxOK(v)' /\ ImportingOK(v)' /\ OutboxOK(v)'
    BY DEF PortsOK
  <2>1. LeavesOthers(p, v)
    BY <1>1, <1>4, <1>6 DEF LeavesOthers, TypeOK, callVars, workerVars
  <2>2. Unasked(v, p) /\ p \notin importing[v] /\ \A m \in Range(outbox'[v]) : m.by # p
    BY <1>2, <1>3, <1>5, NotAwaited
  <2>3. Distinct(inbox[v])
    BY DEF RuntimeInv, PortsOK, InboxOK
  <2> QED
    BY <1>1, <1>2, <1>4, <2>1, <2>2, <2>3, PortsKept DEF RuntimeInv, Unasked, workerVars
<1>9. ASSUME NEW q \in Procs
      PROVE  ProcessOK(q)'
  <2>1. ProcessOK(q)
    BY DEF RuntimeInv
  <2>2. \A a \in Procs : Exists(a) => Exists(a)'
    BY <1>1, <1>6 DEF Exists
  <2>3. CASE q = p
    BY <1>1, <1>4, <1>5, <1>6, <1>7, <2>2, <2>3
    DEF ProcessOK, LoadedEverywhere, callVars, workerVars, Exists, TypeOK
  <2>4. CASE q # p
    BY <1>1, <1>4, <1>6, <2>1, <2>2, <2>4
    DEF ProcessOK, LoadedEverywhere, callVars, workerVars, Exists, TypeOK
  <2> QED
    BY <2>3, <2>4
<1>10. ActorsOK'
  <2>1. \A v \in Workers : \A a \in localObjects'[v] :
          home'[a] = v /\ pc'[a] \in {"creating", "resolved", "rejected"}
    BY <1>1, <1>6 DEF ActorsOK, RuntimeInv, TypeOK
  <2>2. \A a : Exists(a) => Exists(a)'
    BY <1>1, <1>6 DEF Exists
  <2>3. \A k \in Keys : keyed'[k] # keyed[k] =>
          ok /\ fn[p] = "getOrSpawn" /\ k = key[p] /\ keyed'[k] = p
    BY <1>1 DEF TypeOK
  <2>4. ok /\ fn[p] = "getOrSpawn" => Exists(p)' /\ home[p] = Place[key[p]]
    BY <1>1, <1>5, <1>6, RuntimeAssumption DEF ProcessOK, Exists
  <2> QED
    BY <1>1, <2>1, <2>2, <2>3, <2>4 DEF ActorsOK, RuntimeInv
<1>11. EndOK'
  BY <1>4, <1>6 DEF EndOK, RuntimeInv, endVars
<1>12. FinitelyMany'
  BY <1>6, FinitelyManyKept DEF RuntimeInv
<1>13. \A q \in Procs : BehindOK(q)'
  BY <1>1, <1>4, <1>6, BehindKept DEF callVars
<1> QED
  BY <1>7, <1>8, <1>9, <1>10, <1>11, <1>12, <1>13 DEF RuntimeInv

\* What a mailbox does when destroy p was answered: the calls Q behind p, one at
\* most, post their requests to w, and nothing else is posted.
Started(w, p, Q) ==
  /\ \A q \in Q : /\ q # p /\ behind[q] = p /\ pc[q] = "destroying"
                 /\ awaiting[q] = {} /\ target[q] = target[p]
  /\ awaiting' = [q \in Procs |-> IF q = p THEN {} ELSE IF q \in Q THEN {w} ELSE awaiting[q]]
  /\ inbox' \in [Workers -> Seq([cmd : Commands, by : Procs])]
  /\ \A v \in Workers : Distinct(inbox'[v])
  /\ \A v \in Workers : \A m \in Range(inbox'[v]) :
       \/ m \in Range(inbox[v])
       \/ v = w /\ m.cmd = "destroy" /\ m.by \in Q

\* When a destroy is answered, it settles, and at most destroys of the actor
\* that waited behind it post their requests.
LEMMA NextTaskStarts ==
  ASSUME TypeOK, RuntimeInv, NEW w \in Workers, NEW p \in Procs, NextTask(w, p),
         pc[p] = "destroying", awaiting[p] = {w}
  PROVE  \E Q \in SUBSET Procs : Started(w, p, Q)
<1> p \in Procs /\ awaiting \in [Procs -> SUBSET Workers]
  BY DEF TypeOK
<1>1. /\ inbox \in [Workers -> Seq([cmd : Commands, by : Procs])]
      /\ \A v \in Workers : Distinct(inbox[v])
  BY DEF TypeOK, RuntimeInv, PortsOK, InboxOK
<1>2. CASE awaiting' = Answered(w, p) /\ UNCHANGED inbox
  <2>1. awaiting' = [q \in Procs |-> IF q = p THEN {} ELSE IF q \in {} THEN {w}
                                    ELSE awaiting[q]]
    BY <1>2 DEF Answered
  <2> QED
    BY <1>1, <1>2, <2>1 DEF Started
<1>3. ASSUME NEW q \in Procs, behind[q] = p, Post(q, {w}, "destroy"),
             awaiting' = [Answered(w, p) EXCEPT ![q] = {w}]
      PROVE  \E Q \in SUBSET Procs : Started(w, p, Q)
  <2>1. pc[q] = "destroying" /\ awaiting[q] = {} /\ target[q] = target[p] /\ q # p
    BY <1>3, RuntimeAssumption DEF RuntimeInv, BehindOK
  <2>2. Unasked(w, q) /\ "destroy" \in Commands
    BY <2>1, NotAwaited DEF Commands
  <2>3. /\ inbox' \in [Workers -> Seq([cmd : Commands, by : Procs])]
        /\ Distinct(inbox'[w])
        /\ Range(inbox'[w]) = Range(inbox[w]) \cup {[cmd |-> "destroy", by |-> q]}
        /\ \A v \in Workers \ {w} : inbox'[v] = inbox[v]
    BY <1>3, <2>2, PostOne DEF RuntimeInv
  <2>4. awaiting' = [r \in Procs |-> IF r = p THEN {} ELSE IF r \in {q} THEN {w}
                                    ELSE awaiting[r]]
    BY <1>3, <2>1 DEF Answered
  <2>5. \A v \in Workers : \A m \in Range(inbox'[v]) :
          m \in Range(inbox[v]) \/ (v = w /\ m.cmd = "destroy" /\ m.by \in {q})
    BY <2>3
  <2>6. \A v \in Workers : Distinct(inbox'[v])
    BY <1>1, <2>3
  <2>7. \A r \in {q} : /\ r # p /\ behind[r] = p /\ pc[r] = "destroying"
                      /\ awaiting[r] = {} /\ target[r] = target[p]
    BY <1>3, <2>1
  <2> WITNESS {q} \in SUBSET Procs
  <2> QED
    BY <2>3, <2>4, <2>5, <2>6, <2>7 DEF Started
<1> QED
  BY <1>2, <1>3 DEF NextTask

LEMMA DestroyAnsweredKeeps ==
  ASSUME TypeOK, RuntimeInv, NEW w \in Workers, NEW p \in Procs, DestroyAnswered(w, p)
  PROVE  TypeOK' /\ RuntimeInv'
<1>1. /\ pc[p] = "destroying" /\ Answer(w, p, TRUE) /\ NextTask(w, p)
      /\ Settle(p, "resolved", None)
      /\ localObjects' = [localObjects EXCEPT ![w] = @ \ {target[p]}]
      /\ keyed' = [k \in Keys |-> IF original[p] /\ keyed[k] = target[p] THEN None ELSE keyed[k]]
      /\ UNCHANGED <<home, registry, own>>
  BY DEF DestroyAnswered
<1>2. /\ outbox' \in [Workers -> Seq([by : Procs, ok : BOOLEAN])]
      /\ \A v \in Workers :
           /\ Distinct(outbox'[v]) /\ Range(outbox'[v]) \subseteq Range(outbox[v])
           /\ v = w => \A m \in Range(outbox'[v]) : m.by # p
  BY <1>1, AnswerPorts DEF RuntimeInv
<1>3. w \in awaiting[p] /\ p \notin importing[w] /\ Unasked(w, p)
  BY <1>1, AnswerIsTrue
<1>4. UNCHANGED <<callVars, endVars, workerVars>>
  BY <1>1 DEF Answer
<1>5. ProcessOK(p) /\ awaiting[p] = {w}
  BY <1>1, <1>3 DEF RuntimeInv, ProcessOK, TypeOK
<1>6a. PICK Q \in SUBSET Procs : Started(w, p, Q)
  BY <1>1, <1>5, NextTaskStarts
<1>6. /\ \A q \in Q : /\ q # p /\ behind[q] = p /\ pc[q] = "destroying"
                      /\ awaiting[q] = {} /\ target[q] = target[p]
      /\ awaiting' = [q \in Procs |-> IF q = p THEN {} ELSE IF q \in Q THEN {w}
                                     ELSE awaiting[q]]
      /\ inbox' \in [Workers -> Seq([cmd : Commands, by : Procs])]
      /\ \A v \in Workers : Distinct(inbox'[v])
      /\ \A v \in Workers : \A m \in Range(inbox'[v]) :
           \/ m \in Range(inbox[v])
           \/ v = w /\ m.cmd = "destroy" /\ m.by \in Q
  BY <1>6a DEF Started
<1>7. /\ \A q \in Procs \ {p} : pc'[q] = pc[q] /\ result'[q] = result[q]
      /\ \A q \in Procs \ {p} : awaiting'[q] = IF q \in Q THEN {w} ELSE awaiting[q]
      /\ awaiting'[p] = {} /\ pc'[p] = "resolved" /\ result'[p] = None
      /\ awaiting' \in [Procs -> SUBSET Workers]
  BY <1>1, <1>6 DEF Settle, TypeOK
<1>8. TypeOK'
  <2>1. /\ pc' \in [Procs -> {"idle", "registering", "creating", "destroying",
                              "resolved", "rejected"}]
        /\ result' \in [Procs -> Procs \cup {None}]
        /\ localObjects' \in [Workers -> SUBSET Procs]
        /\ keyed' \in [Keys -> Procs \cup {None}]
    BY <1>1 DEF Settle, TypeOK
  <2>2. UNCHANGED <<fn, class, key, target, original, behind, home, registry, disposed, ended,
                    cleared, importing, loaded, actors, own, unknown>>
    BY <1>1, <1>4 DEF callVars, workerVars, endVars
  <2> QED
    BY <1>2, <1>6, <1>7, <2>1, <2>2 DEF TypeOK
<1>9. PortsOK'
  <2> SUFFICES ASSUME NEW v \in Workers
               PROVE  InboxOK(v)' /\ ImportingOK(v)' /\ OutboxOK(v)'
    BY DEF PortsOK
  <2>1. InboxOK(v) /\ ImportingOK(v) /\ OutboxOK(v)
    BY DEF RuntimeInv, PortsOK
  <2>2. Unasked(v, p) /\ p \notin importing[v] /\ \A m \in Range(outbox'[v]) : m.by # p
    BY <1>2, <1>3, <1>5, NotAwaited
  <2>3. \A q \in Q : /\ Unasked(v, q) /\ q \notin importing[v] /\ q \in Procs
                    /\ \A m \in Range(outbox[v]) : m.by # q
    BY <1>6, NotAwaited
  <2>4. /\ \A m \in Range(inbox[v]) : m.by \in Procs
        /\ \A m \in Range(outbox[v]) : m.by \in Procs
    BY MessagesAreOfProcs
  <2>5. ASSUME NEW m \in Range(inbox'[v])
        PROVE  Asks(v, m)'
    <3>1. CASE m \in Range(inbox[v])
      <4>1. m.by \in Procs \ {p} /\ m.by \notin Q /\ Asks(v, m)
        BY <2>1, <2>2, <2>3, <2>4, <3>1 DEF InboxOK, Unasked
      <4> QED
        BY <1>1, <1>4, <1>7, <4>1 DEF Asks, workerVars
    <3>2. CASE v = w /\ m.cmd = "destroy" /\ m.by \in Q
      <4>1. m.by \in Procs \ {p} /\ pc[m.by] = "destroying" /\ m.by \notin importing[v]
        BY <1>6, <2>3, <3>2
      <4> QED
        BY <1>4, <1>7, <3>2, <4>1 DEF Asks, workerVars
    <3> QED
      BY <1>6, <3>1, <3>2
  <2>6. ASSUME NEW q \in importing'[v]
        PROVE  Imports(v, q)'
    <3>1. q \in importing[v] /\ q # p /\ q \notin Q /\ q \in Procs /\ Imports(v, q)
      BY <1>4, <2>1, <2>2, <2>3 DEF workerVars, ImportingOK, TypeOK
    <3> QED
      BY <1>1, <1>7, <3>1 DEF Imports
  <2>7. ASSUME NEW m \in Range(outbox'[v])
        PROVE  Says(v, m)'
    <3>1. m \in Range(outbox[v]) /\ m.by # p /\ m.by \notin Q /\ m.by \in Procs /\ Says(v, m)
      BY <1>2, <2>1, <2>2, <2>3, <2>4 DEF OutboxOK
    <3>2. \A n \in Range(inbox'[v]) : n.by # m.by
      BY <1>6, <3>1 DEF Says
    <3> QED
      BY <1>4, <1>7, <3>1, <3>2 DEF Says, callVars, workerVars
  <2> QED
    BY <1>2, <1>6, <2>5, <2>6, <2>7 DEF InboxOK, ImportingOK, OutboxOK
<1>10. ASSUME NEW q \in Procs
      PROVE  ProcessOK(q)'
  <2>1. ProcessOK(q)
    BY DEF RuntimeInv
  <2>2. \A a : Exists(a) => Exists(a)'
    BY <1>1, <1>7 DEF Exists
  <2>3. CASE q = p
    BY <1>1, <1>4, <1>5, <1>7, <2>2, <2>3
    DEF ProcessOK, LoadedEverywhere, callVars, workerVars, Exists
  <2>4. CASE q # p /\ q \notin Q
    <3>1. pc[p] = "destroying" /\ Exists(target[p])
      BY <1>1, <1>5 DEF ProcessOK
    <3>2. pc[q] = "creating" /\ q \in localObjects[home[q]] /\ home[q] \in Workers
          => q \in localObjects'[home[q]]
      BY <1>1, <3>1 DEF Exists, TypeOK
    <3> QED
      BY <1>1, <1>4, <1>7, <2>1, <2>2, <2>4, <3>2
      DEF ProcessOK, LoadedEverywhere, callVars, workerVars, Exists
  <2>5. CASE q \in Q
    <3>1. q # p /\ pc[q] = "destroying" /\ Exists(target[q]) /\ home[target[q]] = w
      <4>1. q # p /\ pc[q] = "destroying" /\ target[q] = target[p]
        BY <1>6, <2>5
      <4>2. Exists(target[p]) /\ home[target[p]] = w
        BY <1>1, <1>5 DEF ProcessOK
      <4> QED
        BY <4>1, <4>2
    <3> QED
      BY <1>1, <1>4, <1>7, <2>1, <2>2, <2>5, <3>1
      DEF ProcessOK, LoadedEverywhere, callVars, workerVars, Exists
  <2> QED
    BY <2>3, <2>4, <2>5
<1>11. ActorsOK'
  <2>1. ActorsOK /\ \A a : Exists(a) => Exists(a)'
    BY <1>1, <1>7 DEF Exists, RuntimeInv
  <2>2. \A v \in Workers : \A a \in localObjects'[v] : a \in localObjects[v] /\ a \in Procs
    BY <1>1 DEF TypeOK
  <2>3. \A k \in Keys : keyed'[k] # None => keyed'[k] = keyed[k]
    BY <1>1
  <2> QED
    BY <1>1, <1>7, <2>1, <2>2, <2>3 DEF ActorsOK
<1>12. EndOK'
  <2>1. w \notin ended
    BY <1>3 DEF RuntimeInv, EndOK
  <2> QED
    BY <1>4, <1>7, <2>1 DEF EndOK, RuntimeInv, endVars
<1>13. FinitelyMany'
  BY <1>7, FinitelyManyKept DEF RuntimeInv
<1>14. ASSUME NEW q \in Procs
       PROVE  BehindOK(q)'
  <2>1. BehindOK(q) /\ (behind[q] # None => behind[q] \in Procs)
    BY DEF RuntimeInv, TypeOK
  <2>2. behind[q] # None /\ pc'[behind[q]] = "destroying" => behind[q] # p /\ q \notin Q
    BY <1>6, <1>7
  <2> QED
    BY <1>4, <1>5, <1>7, <2>1, <2>2 DEF BehindOK, callVars
<1> QED
  BY <1>8, <1>9, <1>10, <1>11, <1>12, <1>13, <1>14 DEF RuntimeInv

\* When worker w takes a command of p, p awaits it, and nothing else of p is
\* at the ports of w.
LEMMA TakenIsAwaited ==
  ASSUME TypeOK, RuntimeInv, NEW w \in Workers, NEW p \in Procs, NEW c \in Commands, Take(w, p, c)
  PROVE  /\ Asks(w, [cmd |-> c, by |-> p])
         /\ \A m \in Range(outbox[w]) : m.by # p
<1> DEFINE m == [cmd |-> c, by |-> p]
<1>1. m \in Range(inbox[w]) /\ m.by = p
  BY TakePorts DEF RuntimeInv
<1> HIDE DEF m
<1>2. Asks(w, m) /\ \A n \in Range(outbox[w]) : n.by # p
  BY <1>1 DEF RuntimeInv, PortsOK, InboxOK, OutboxOK, Says
<1> QED
  BY <1>2 DEF m

\* At the other workers' ports nothing changes, or a command is gone.
LEMMA ElsewhereKept ==
  ASSUME PortsOK, NEW v \in Workers, Distinct(inbox'[v]),
         Range(inbox'[v]) \subseteq Range(inbox[v]), outbox'[v] = outbox[v],
         importing'[v] = importing[v], loaded'[v] = loaded[v], actors'[v] = actors[v],
         UNCHANGED <<pc, class, target, awaiting, own>>
  PROVE  InboxOK(v)' /\ ImportingOK(v)' /\ OutboxOK(v)'
<1>1. InboxOK(v) /\ ImportingOK(v) /\ OutboxOK(v)
  BY DEF PortsOK
<1>2. InboxOK(v)'
  BY <1>1 DEF InboxOK, Asks
<1>3. ImportingOK(v)'
  BY <1>1 DEF ImportingOK, Imports
<1>4. OutboxOK(v)'
  BY <1>1 DEF OutboxOK, Says, Distinct
<1> QED
  BY <1>2, <1>3, <1>4

\* A step of a worker changes nothing on the host; it may load a class, and
\* note that p was told its class is unknown.
LEMMA HostKept ==
  ASSUME TypeOK, RuntimeInv, NEW p \in Procs, pc[p] # "idle",
         UNCHANGED <<pc, callVars, home, awaiting, result, registry, keyed, endVars,
                     localObjects, own>>,
         \A w \in Workers : loaded[w] \subseteq loaded'[w],
         unknown' \subseteq unknown \cup {p}, p \in own => p \notin unknown'
  PROVE  (\A q \in Procs : ProcessOK(q)' /\ BehindOK(q)') /\ ActorsOK' /\ EndOK' /\ FinitelyMany'
<1>1. ASSUME NEW q \in Procs
      PROVE  ProcessOK(q)'
  <2>1. ProcessOK(q)
    BY DEF RuntimeInv
  <2>2. \A a : Exists(a) => Exists(a)'
    BY DEF Exists
  <2> QED
    BY <2>1, <2>2 DEF ProcessOK, LoadedEverywhere, callVars, Exists
<1>2. ActorsOK'
  BY DEF ActorsOK, Exists, RuntimeInv
<1>3. EndOK'
  BY DEF EndOK, RuntimeInv, endVars
<1>4. FinitelyMany'
  BY DEF FinitelyMany, RuntimeInv
<1>5. \A q \in Procs : BehindOK(q)'
  BY BehindSame DEF callVars
<1> QED
  BY <1>1, <1>2, <1>3, <1>4, <1>5

LEMMA HandleRegisterKeeps ==
  ASSUME TypeOK, RuntimeInv, NEW w \in Workers, NEW p \in Procs, HandleRegister(w, p)
  PROVE  TypeOK' /\ RuntimeInv'
<1>1. /\ Take(w, p, "register") /\ "register" \in Commands
      /\ importing' = [importing EXCEPT ![w] = @ \cup {p}]
      /\ UNCHANGED <<outbox, loaded, actors, unknown>>
      /\ UNCHANGED <<pc, callVars, home, awaiting, result, registry, keyed, endVars,
                     localObjects, own>>
  BY DEF HandleRegister, Take, Commands
<1>2. /\ inbox' \in [Workers -> Seq([cmd : Commands, by : Procs])]
      /\ \A v \in Workers :
           /\ Distinct(inbox'[v]) /\ Range(inbox'[v]) \subseteq Range(inbox[v])
           /\ v = w => \A m \in Range(inbox'[v]) : m.by # p
  BY <1>1, TakePorts DEF RuntimeInv
<1>3. /\ w \in awaiting[p] /\ p \in own /\ pc[p] \in {"registering", "rejected"}
      /\ \A m \in Range(outbox[w]) : m.by # p
  BY <1>1, TakenIsAwaited DEF Asks
<1>4. TypeOK'
  BY <1>1, <1>2 DEF TypeOK, callVars, endVars
<1>5. PortsOK'
  <2> SUFFICES ASSUME NEW v \in Workers
               PROVE  InboxOK(v)' /\ ImportingOK(v)' /\ OutboxOK(v)'
    BY DEF PortsOK
  <2>1. CASE v = w
    <3>1. LeavesOthers(p, w)
      BY <1>1 DEF LeavesOthers, TypeOK, callVars
    <3>2. Distinct(outbox[w])
      BY DEF RuntimeInv, PortsOK, OutboxOK
    <3>3. Imports(w, p)'
      BY <1>1, <1>3 DEF Imports
    <3> QED
      BY <1>1, <1>2, <1>3, <2>1, <3>1, <3>2, <3>3, PortsKept DEF RuntimeInv
  <2>2. CASE v # w
    <3>1. importing'[v] = importing[v]
      BY <1>1, <2>2 DEF TypeOK
    <3> QED
      BY <1>1, <1>2, <3>1, ElsewhereKept DEF RuntimeInv, callVars
  <2> QED
    BY <2>1, <2>2
<1>6. p \notin unknown'
  BY <1>1, <1>3 DEF RuntimeInv, ProcessOK
<1> QED
  BY <1>1, <1>3, <1>4, <1>5, <1>6, HostKept DEF RuntimeInv

LEMMA ImportEndsKeeps ==
  ASSUME TypeOK, RuntimeInv, NEW w \in Workers, NEW p \in Procs, ImportEnds(w, p)
  PROVE  TypeOK' /\ RuntimeInv'
<1>1. PICK ok \in BOOLEAN :
        /\ Reply(w, p, ok)
        /\ loaded' = IF ok THEN [loaded EXCEPT ![w] = @ \cup {class[p]}] ELSE loaded
  BY RuntimeAssumption DEF ImportEnds
<1>2. /\ p \in importing[w] /\ importing' = [importing EXCEPT ![w] = @ \ {p}]
      /\ UNCHANGED <<inbox, actors, unknown>>
      /\ UNCHANGED <<pc, callVars, home, awaiting, result, registry, keyed, endVars,
                     localObjects, own>>
  BY DEF ImportEnds
<1>3. /\ w \in awaiting[p] /\ p \in own /\ pc[p] \in {"registering", "rejected"}
      /\ \A m \in Range(outbox[w]) : m.by # p
      /\ \A m \in Range(inbox[w]) : m.by # p
  BY <1>2 DEF RuntimeInv, PortsOK, ImportingOK, InboxOK, OutboxOK, Imports, Asks, Says
<1>4. class[p] \in Classes
  BY <1>3 DEF RuntimeInv, ProcessOK
<1>5. /\ outbox' \in [Workers -> Seq([by : Procs, ok : BOOLEAN])]
      /\ Distinct(outbox'[w])
      /\ Range(outbox'[w]) = Range(outbox[w]) \cup {[by |-> p, ok |-> ok]}
      /\ \A v \in Workers \ {w} : outbox'[v] = outbox[v]
  BY <1>1, <1>3, ReplyPorts DEF RuntimeInv
<1>6. /\ \A v \in Workers \ {w} : loaded'[v] = loaded[v]
      /\ loaded[w] \subseteq loaded'[w] /\ (ok => class[p] \in loaded'[w])
  BY <1>1 DEF TypeOK
<1>7. TypeOK'
  BY <1>1, <1>2, <1>4, <1>5 DEF TypeOK, callVars, endVars
<1>8. PortsOK'
  <2> SUFFICES ASSUME NEW v \in Workers
               PROVE  InboxOK(v)' /\ ImportingOK(v)' /\ OutboxOK(v)'
    BY DEF PortsOK
  <2>1. Distinct(inbox[v])
    BY DEF RuntimeInv, PortsOK, InboxOK
  <2>2. CASE v = w
    <3>1. LeavesOthers(p, w)
      BY <1>2, <1>6 DEF LeavesOthers, TypeOK, callVars
    <3>2. p \notin importing'[w]
      BY <1>2 DEF TypeOK
    <3>3. \A m \in Range(outbox'[w]) : m.by = p => Says(w, m)'
      BY <1>2, <1>3, <1>5, <1>6, <3>2 DEF Says, callVars
    <3> QED
      BY <1>2, <1>3, <1>5, <2>1, <2>2, <3>1, <3>2, <3>3, PortsKept DEF RuntimeInv
  <2>3. CASE v # w
    <3>1. importing'[v] = importing[v]
      BY <1>2, <2>3 DEF TypeOK
    <3> QED
      BY <1>2, <1>5, <1>6, <2>1, <2>3, <3>1, ElsewhereKept DEF RuntimeInv, callVars
  <2> QED
    BY <2>2, <2>3
<1>9. (\A q \in Procs : ProcessOK(q)' /\ BehindOK(q)') /\ ActorsOK' /\ EndOK' /\ FinitelyMany'
  <2>1. pc[p] # "idle" /\ \A v \in Workers : loaded[v] \subseteq loaded'[v]
    BY <1>3, <1>6
  <2>2. p \notin unknown'
    BY <1>2, <1>3 DEF RuntimeInv, ProcessOK
  <2> QED
    BY <1>2, <2>1, <2>2, HostKept
<1> QED
  BY <1>7, <1>8, <1>9 DEF RuntimeInv

LEMMA HandleCreateKeeps ==
  ASSUME TypeOK, RuntimeInv, NEW w \in Workers, NEW p \in Procs, HandleCreate(w, p)
  PROVE  TypeOK' /\ RuntimeInv'
<1>1. /\ Take(w, p, "create") /\ "create" \in Commands
      /\ UNCHANGED <<importing, loaded>>
      /\ UNCHANGED <<pc, callVars, home, awaiting, result, registry, keyed, endVars,
                     localObjects, own>>
  BY DEF HandleCreate, Take, Commands
<1>2. PICK ok \in BOOLEAN :
        /\ Reply(w, p, ok)
        /\ actors' = IF ok THEN [actors EXCEPT ![w] = @ \cup {p}] ELSE actors
        /\ unknown' = IF class[p] \in loaded[w] THEN unknown ELSE unknown \cup {p}
  BY RuntimeAssumption DEF HandleCreate
<1>3. /\ inbox' \in [Workers -> Seq([cmd : Commands, by : Procs])]
      /\ \A v \in Workers :
           /\ Distinct(inbox'[v]) /\ Range(inbox'[v]) \subseteq Range(inbox[v])
           /\ v = w => \A m \in Range(inbox'[v]) : m.by # p
  BY <1>1, TakePorts DEF RuntimeInv
<1>4. /\ w \in awaiting[p] /\ p \notin importing[w] /\ pc[p] = "creating"
      /\ \A m \in Range(outbox[w]) : m.by # p
  BY <1>1, TakenIsAwaited DEF Asks
<1>5. /\ outbox' \in [Workers -> Seq([by : Procs, ok : BOOLEAN])]
      /\ Distinct(outbox'[w])
      /\ Range(outbox'[w]) = Range(outbox[w]) \cup {[by |-> p, ok |-> ok]}
      /\ \A v \in Workers \ {w} : outbox'[v] = outbox[v]
  BY <1>2, <1>4, ReplyPorts DEF RuntimeInv
<1>6. /\ \A v \in Workers \ {w} : actors'[v] = actors[v]
      /\ actors[w] \subseteq actors'[w] /\ actors'[w] \subseteq actors[w] \cup {p}
      /\ ok => p \in actors'[w]
  BY <1>2 DEF TypeOK
<1>7. TypeOK'
  BY <1>1, <1>2, <1>3, <1>5 DEF TypeOK, callVars, endVars
<1>8. PortsOK'
  <2> SUFFICES ASSUME NEW v \in Workers
               PROVE  InboxOK(v)' /\ ImportingOK(v)' /\ OutboxOK(v)'
    BY DEF PortsOK
  <2>1. CASE v = w
    <3>1. \A q \in Procs : pc[q] = "destroying" => target[q] # p
      BY <1>4 DEF RuntimeInv, ProcessOK, Exists
    <3>2. LeavesOthers(p, w)
      BY <1>1, <1>6, <3>1 DEF LeavesOthers, TypeOK, callVars
    <3>3. \A m \in Range(outbox'[w]) : m.by = p => Says(w, m)'
      BY <1>1, <1>3, <1>4, <1>5, <1>6 DEF Says, callVars
    <3> QED
      BY <1>1, <1>3, <1>4, <1>5, <2>1, <3>2, <3>3, PortsKept DEF RuntimeInv
  <2>2. CASE v # w
    BY <1>1, <1>3, <1>5, <1>6, <2>2, ElsewhereKept DEF RuntimeInv, callVars
  <2> QED
    BY <2>1, <2>2
<1>9. p \in own => p \notin unknown'
  BY <1>2, <1>4 DEF RuntimeInv, ProcessOK, LoadedEverywhere
<1> QED
  BY <1>1, <1>2, <1>4, <1>7, <1>8, <1>9, HostKept DEF RuntimeInv

LEMMA HandleDestroyKeeps ==
  ASSUME TypeOK, RuntimeInv, NEW w \in Workers, NEW p \in Procs, HandleDestroy(w, p)
  PROVE  TypeOK' /\ RuntimeInv'
<1>1. /\ Take(w, p, "destroy") /\ "destroy" \in Commands
      /\ actors' = [actors EXCEPT ![w] = @ \ {target[p]}]
      /\ Reply(w, p, TRUE)
      /\ UNCHANGED <<importing, loaded, unknown>>
      /\ UNCHANGED <<pc, callVars, home, awaiting, result, registry, keyed, endVars,
                     localObjects, own>>
  BY DEF HandleDestroy, Take, Commands
<1>2. /\ inbox' \in [Workers -> Seq([cmd : Commands, by : Procs])]
      /\ \A v \in Workers :
           /\ Distinct(inbox'[v]) /\ Range(inbox'[v]) \subseteq Range(inbox[v])
           /\ v = w => \A m \in Range(inbox'[v]) : m.by # p
  BY <1>1, TakePorts DEF RuntimeInv
<1>3. /\ w \in awaiting[p] /\ p \notin importing[w] /\ pc[p] = "destroying"
      /\ \A m \in Range(outbox[w]) : m.by # p
  BY <1>1, TakenIsAwaited DEF Asks
<1>4. pc[target[p]] = "resolved"
  BY <1>3 DEF RuntimeInv, ProcessOK, Exists
<1>5. /\ outbox' \in [Workers -> Seq([by : Procs, ok : BOOLEAN])]
      /\ Distinct(outbox'[w])
      /\ Range(outbox'[w]) = Range(outbox[w]) \cup {[by |-> p, ok |-> TRUE]}
      /\ \A v \in Workers \ {w} : outbox'[v] = outbox[v]
  BY <1>1, <1>3, ReplyPorts DEF RuntimeInv
<1>6. /\ \A v \in Workers \ {w} : actors'[v] = actors[v]
      /\ actors'[w] = actors[w] \ {target[p]}
  BY <1>1 DEF TypeOK
<1>7. TypeOK'
  BY <1>1, <1>2, <1>5 DEF TypeOK, callVars, endVars
<1>8. PortsOK'
  <2> SUFFICES ASSUME NEW v \in Workers
               PROVE  InboxOK(v)' /\ ImportingOK(v)' /\ OutboxOK(v)'
    BY DEF PortsOK
  <2>1. CASE v = w
    <3>1. LeavesOthers(p, w)
      BY <1>1, <1>4, <1>6 DEF LeavesOthers, TypeOK, callVars
    <3>2. \A m \in Range(outbox'[w]) : m.by = p => Says(w, m)'
      BY <1>1, <1>2, <1>3, <1>5, <1>6 DEF Says, callVars
    <3>3. \A m \in Range(outbox'[w]) : m \in Range(outbox[w]) \/ m.by = p
      BY <1>5
    <3> QED
      BY <1>1, <1>2, <1>3, <1>5, <2>1, <3>1, <3>2, <3>3, PortsKept DEF RuntimeInv
  <2>2. CASE v # w
    BY <1>1, <1>2, <1>5, <1>6, <2>2, ElsewhereKept DEF RuntimeInv, callVars
  <2> QED
    BY <2>1, <2>2
<1>9. p \in own => p \notin unknown'
  BY <1>1 DEF RuntimeInv, ProcessOK
<1> QED
  BY <1>1, <1>3, <1>7, <1>8, <1>9, HostKept DEF RuntimeInv

LEMMA NextKeeps ==
  ASSUME TypeOK, RuntimeInv, [Next]_vars
  PROVE  TypeOK' /\ RuntimeInv'
<1>1. CASE \E p \in Procs : UserStep(p)
  BY <1>1, UserKeeps
<1>2. CASE Dispose \/ (\E w \in Workers : NodeEnds(w)) \/ DisposeEnds
  BY <1>2, EndKeeps
<1>3. CASE \E w \in Workers : HostReceive(w)
  BY <1>3, RegisterAnsweredKeeps, CreateAnsweredKeeps, DestroyAnsweredKeeps DEF HostReceive
<1>4. CASE \E w \in Workers : WorkerHandles(w)
  BY <1>4, HandleRegisterKeeps, HandleCreateKeeps, HandleDestroyKeeps DEF WorkerHandles
<1>5. CASE \E w \in Workers, p \in Procs : ImportEnds(w, p)
  BY <1>5, ImportEndsKeeps
<1>6. CASE UNCHANGED vars
  <2>1. TypeOK' /\ ActorsOK' /\ EndOK' /\ FinitelyMany'
    BY <1>6 DEF vars, callVars, endVars, workerVars, RuntimeInv, TypeOK, ActorsOK, Exists, EndOK,
                FinitelyMany
  <2>2. PortsOK'
    BY <1>6, ElsewhereKept
    DEF vars, callVars, endVars, workerVars, RuntimeInv, PortsOK, InboxOK
  <2>3. \A p \in Procs : ProcessOK(p)'
    BY <1>6 DEF vars, callVars, endVars, workerVars, RuntimeInv, ProcessOK, Exists, LoadedEverywhere
  <2>4. \A p \in Procs : BehindOK(p)'
    BY <1>6, BehindSame DEF vars, callVars
  <2> QED
    BY <2>1, <2>2, <2>3, <2>4 DEF RuntimeInv
<1> QED
  BY <1>1, <1>2, <1>3, <1>4, <1>5, <1>6 DEF Next

LEMMA InitInv == Init => TypeOK /\ RuntimeInv
<1> SUFFICES ASSUME Init
             PROVE  TypeOK /\ RuntimeInv
  OBVIOUS
<1>1. TypeOK
  <2>1. /\ inbox \in [Workers -> Seq([cmd : Commands, by : Procs])]
        /\ outbox \in [Workers -> Seq([by : Procs, ok : BOOLEAN])]
    BY EmptySeq DEF Init
  <2> QED
    BY <2>1 DEF Init, TypeOK
<1>2. ASSUME NEW w \in Workers
      PROVE  InboxOK(w) /\ ImportingOK(w) /\ OutboxOK(w)
  BY DEF Init, InboxOK, ImportingOK, OutboxOK, Distinct, Range
<1>3. ASSUME NEW p \in Procs
      PROVE  ProcessOK(p) /\ BehindOK(p)
  BY DEF Init, ProcessOK, BehindOK
<1>4. ActorsOK /\ EndOK
  BY DEF Init, ActorsOK, EndOK
<1>5. FinitelyMany
  <2>1. {p \in Procs : pc[p] # "idle"} = {}
    BY DEF Init
  <2> QED
    BY <2>1, FS_EmptySet DEF FinitelyMany
<1> QED
  BY <1>1, <1>2, <1>3, <1>4, <1>5 DEF PortsOK, RuntimeInv

LEMMA InvHolds == Spec => [](TypeOK /\ RuntimeInv)
<1>1. TypeOK /\ RuntimeInv /\ [Next]_vars => TypeOK' /\ RuntimeInv'
  BY NextKeeps
<1> QED
  BY <1>1, InitInv, PTL DEF Spec

-----------------------------------------------------------------------------
(* What follows from it.                                                   *)

\* The variables keep their types for any number of workers, processes,
\* classes and keys, whether or not imports and constructors may fail.
THEOREM TypeOKHolds == Spec => []TypeOK
BY InvHolds, PTL

\* A resolved register has loaded its class in every worker (runtime.ts
\* register: Promise.all over the nodes): the process counts off a worker
\* only when the worker's own answer said so.
THEOREM RegisteredEverywhereHolds == Spec => []RegisteredEverywhere
<1>1. RuntimeInv => RegisteredEverywhere
  BY DEF RuntimeInv, ProcessOK, LoadedEverywhere, RegisteredEverywhere
<1> QED
  BY <1>1, InvHolds, PTL

\* A spawn or getOrSpawn that registered its class itself is never answered
\* "Unknown class", although import() lets later commands overtake it.
THEOREM OwnRegisterSufficesHolds == Spec => []OwnRegisterSuffices
<1>1. TypeOK /\ RuntimeInv => OwnRegisterSuffices
  BY DEF TypeOK, RuntimeInv, ProcessOK, OwnRegisterSuffices
<1> QED
  BY <1>1, InvHolds, PTL

\* A step of p before its actor is there: the workers are left alone and no
\* key is bound or freed.
Early(p) ==
  /\ pc[p] \in {"idle", "registering", "rejected"}
  /\ pc[p] = "rejected" => pc'[p] = "rejected"
  /\ \A q \in Procs \ {p} :
       pc'[q] = pc[q] /\ target'[q] = target[q] /\ original'[q] = original[q]
  /\ UNCHANGED <<actors, keyed, endVars>>
  /\ \A w \in Workers :
       /\ localObjects[w] \subseteq localObjects'[w]
       /\ \A a \in localObjects'[w] \ localObjects[w] : a = p /\ pc'[p] \in {"creating", "rejected"}

LEMMA CreatesAreEarly ==
  ASSUME TypeOK, NEW p \in Procs, NEW w, pc[p] \in {"idle", "registering"}, CreateOn(p, w),
         UNCHANGED <<target, original, actors, endVars>>
  PROVE  Early(p)
<1>1. /\ \A q \in Procs \ {p} : pc'[q] = pc[q]
      /\ pc'[p] \in {"creating", "rejected"}
  BY DEF CreateOn, Settle, TypeOK
<1>2. /\ keyed' = keyed
      /\ \A v \in Workers : /\ localObjects[v] \subseteq localObjects'[v]
                            /\ \A a \in localObjects'[v] \ localObjects[v] : a = p
  BY DEF CreateOn, TypeOK
<1> QED
  BY <1>1, <1>2 DEF Early

LEMMA CallsAreEarly ==
  ASSUME TypeOK, NEW p \in Procs, UserStep(p)
  PROVE  Early(p)
<1>1. CASE Refuse(p)
  BY <1>1 DEF Refuse, IsNext, Early, Settle, TypeOK, callVars, workerVars
<1>2. ASSUME NEW f, NEW c, NEW k, Invoke(p, f, c, k), RegisterOnAll(p, c)
      PROVE  Early(p)
  BY <1>2 DEF Invoke, IsNext, RegisterOnAll, Early, TypeOK, workerVars
<1>3. ASSUME NEW f, NEW c, NEW k, NEW w, Invoke(p, f, c, k), CreateOn(p, w)
      PROVE  Early(p)
  BY <1>3, CreatesAreEarly DEF Invoke, IsNext, workerVars
<1>4. ASSUME NEW c \in Classes, NEW k \in Keys, GetOrSpawn(p, k, c)
      PROVE  Early(p)
  <2>1. CASE keyed[k] # None
    BY <1>4, <2>1 DEF GetOrSpawn, Invoke, IsNext, Settle, Early, TypeOK, workerVars
  <2>2. CASE keyed[k] = None
    BY <1>2, <1>3, <1>4, <2>2 DEF GetOrSpawn
  <2> QED
    BY <2>1, <2>2
<1>5. ASSUME NEW a, NEW orig, Destroy(p, a, orig)
      PROVE  Early(p)
  <2>1. /\ pc[p] = "idle" /\ UNCHANGED <<keyed, endVars, localObjects, actors>>
        /\ pc' \in {[pc EXCEPT ![p] = "destroying"], [pc EXCEPT ![p] = "rejected"]}
    BY <1>5 DEF Destroy, IsNext, Settle, workerVars
  <2>2. \A q \in Procs \ {p} : target'[q] = target[q] /\ original'[q] = original[q]
    BY <1>5 DEF Destroy, TypeOK
  <2> QED
    BY <2>1, <2>2 DEF Early, TypeOK
<1> QED
  BY <1>1, <1>2, <1>3, <1>4, <1>5 DEF UserStep, Register, Spawn

LEMMA RegisterAnswersAreEarly ==
  ASSUME TypeOK, NEW w \in Workers, NEW p \in Procs, RegisterAnswered(w, p)
  PROVE  Early(p)
<1>1. PICK ok \in BOOLEAN :
        /\ pc[p] = "registering" \/ pc[p] = "rejected"
        /\ UNCHANGED <<callVars, endVars, workerVars>>
        /\ \/ pc[p] = "registering" /\ CreateOn(p, WorkerFor(p, Answered(w, p)))
           \/ /\ IF pc[p] = "rejected" \/ (ok /\ awaiting[p] # {w})
                   THEN UNCHANGED <<pc, result>>
                 ELSE IF ok /\ fn[p] = "register"
                   THEN Settle(p, "resolved", None)
                 ELSE (ok => disposed) /\ Settle(p, "rejected", None)
              /\ UNCHANGED <<home, registry, keyed, localObjects, inbox, own>>
  BY DEF RegisterAnswered, Answer
<1>2. CASE pc[p] = "registering" /\ CreateOn(p, WorkerFor(p, Answered(w, p)))
  BY <1>1, <1>2, CreatesAreEarly DEF callVars, workerVars
<1>3. CASE /\ IF pc[p] = "rejected" \/ (ok /\ awaiting[p] # {w})
                THEN UNCHANGED <<pc, result>>
              ELSE IF ok /\ fn[p] = "register"
                THEN Settle(p, "resolved", None)
              ELSE (ok => disposed) /\ Settle(p, "rejected", None)
           /\ UNCHANGED <<home, registry, keyed, localObjects, inbox, own>>
  BY <1>1, <1>3 DEF Settle, Early, TypeOK, callVars, workerVars
<1> QED
  BY <1>1, <1>2, <1>3

\* a step that changes none of what the three properties look at
Elsewhere == UNCHANGED <<pc, target, original, keyed, localObjects, actors, endVars>>

LEMMA RestIsElsewhere ==
  ASSUME UNCHANGED vars
         \/ \E w \in Workers, p \in Procs : HandleRegister(w, p) \/ ImportEnds(w, p)
  PROVE  Elsewhere
BY DEF Elsewhere, vars, HandleRegister, Take, ImportEnds, callVars, workerVars, endVars

\* The kinds of steps the three properties below are kept by.
LEMMA KindsOfSteps ==
  ASSUME TypeOK, [Next]_vars
  PROVE  \/ \E p \in Procs : Early(p)
         \/ Dispose \/ (\E w \in Workers : NodeEnds(w)) \/ DisposeEnds
         \/ \E w \in Workers, p \in Procs :
              \/ CreateAnswered(w, p) \/ DestroyAnswered(w, p)
              \/ HandleCreate(w, p) \/ HandleDestroy(w, p)
         \/ Elsewhere
<1>1. CASE \E p \in Procs : UserStep(p)
  BY <1>1, CallsAreEarly
<1>2. CASE \E w \in Workers, p \in Procs : RegisterAnswered(w, p)
  BY <1>2, RegisterAnswersAreEarly
<1>3. CASE UNCHANGED vars
           \/ \E w \in Workers, p \in Procs : HandleRegister(w, p) \/ ImportEnds(w, p)
  BY <1>3, RestIsElsewhere
<1> QED
  BY <1>1, <1>2, <1>3 DEF Next, HostReceive, WorkerHandles

\* where p is while its create or destroy is answered or handled
LEMMA CreateIsAtHome ==
  ASSUME TypeOK, RuntimeInv, NEW w \in Workers, NEW p \in Procs,
         CreateAnswered(w, p) \/ HandleCreate(w, p)
  PROVE  home[p] = w /\ pc[p] = "creating" /\ p \in localObjects[w]
<1>1. w \in awaiting[p] /\ pc[p] = "creating"
  <2>1. CASE CreateAnswered(w, p)
    BY <2>1, AnswerIsTrue DEF CreateAnswered
  <2>2. CASE HandleCreate(w, p)
    BY <2>2, TakenIsAwaited DEF HandleCreate, Asks, Commands
  <2> QED
    BY <2>1, <2>2
<1> QED
  BY <1>1 DEF RuntimeInv, ProcessOK

LEMMA DestroyIsAtHome ==
  ASSUME TypeOK, RuntimeInv, NEW w \in Workers, NEW p \in Procs,
         DestroyAnswered(w, p) \/ HandleDestroy(w, p)
  PROVE  /\ home[target[p]] = w /\ pc[p] = "destroying" /\ pc[target[p]] = "resolved"
         /\ target[p] \in Procs
<1>1. w \in awaiting[p] /\ pc[p] = "destroying"
  BY AnswerIsTrue, TakenIsAwaited DEF DestroyAnswered, HandleDestroy, Asks, Commands
<1> QED
  BY <1>1 DEF RuntimeInv, ProcessOK, Exists

LEMMA LoadKept ==
  ASSUME TypeOK, RuntimeInv, LoadIsAccurate, [Next]_vars
  PROVE  LoadIsAccurate'
<1>1. ASSUME NEW p \in Procs, Early(p)
      PROVE  LoadIsAccurate'
  <2>1. \A a : BeingDestroyed(a) => BeingDestroyed(a)'
    BY <1>1 DEF Early, BeingDestroyed
  <2>2. \A w \in Workers : \A a \in localObjects[w] : a \in Procs /\ home[a] = w
    BY DEF RuntimeInv, ActorsOK, TypeOK
  <2> QED
    BY <1>1, <2>1, <2>2 DEF Early, LoadIsAccurate, endVars
<1>2. CASE Dispose \/ (\E w \in Workers : NodeEnds(w)) \/ DisposeEnds
  BY <1>2 DEF Dispose, NodeEnds, DisposeEnds, LoadIsAccurate, BeingDestroyed, TypeOK, callVars,
              workerVars
<1>3. ASSUME NEW w \in Workers, NEW p \in Procs, CreateAnswered(w, p)
      PROVE  LoadIsAccurate'
  <2>1. PICK ok \in BOOLEAN :
          /\ Answer(w, p, ok) /\ UNCHANGED localObjects
          /\ IF ok THEN Settle(p, "resolved", p) ELSE Settle(p, "rejected", None)
    BY <1>3 DEF CreateAnswered
  <2>2. home[p] = w /\ pc[p] = "creating" /\ (ok => p \in actors[w])
    BY <1>3, <2>1, CreateIsAtHome, AnswerIsTrue
  <2>3. /\ UNCHANGED <<target, ended, actors, localObjects>>
        /\ \A q \in Procs \ {p} : pc'[q] = pc[q]
        /\ pc'[p] = "rejected" \/ p \in actors[w]
    BY <2>1, <2>2 DEF Answer, Settle, TypeOK, callVars, workerVars, endVars
  <2>4. \A a : BeingDestroyed(a) => BeingDestroyed(a)'
    BY <2>2, <2>3 DEF BeingDestroyed
  <2>5. \A v \in Workers : p \in localObjects[v] => v = w
    BY <2>2 DEF RuntimeInv, ActorsOK
  <2>6. \A v \in Workers : localObjects[v] \subseteq Procs
    BY DEF TypeOK
  <2> QED
    BY <2>2, <2>3, <2>4, <2>5, <2>6 DEF LoadIsAccurate
<1>4. ASSUME NEW w \in Workers, NEW p \in Procs, DestroyAnswered(w, p)
      PROVE  LoadIsAccurate'
  <2>1. Answer(w, p, TRUE) /\ Settle(p, "resolved", None)
        /\ localObjects' = [localObjects EXCEPT ![w] = @ \ {target[p]}]
    BY <1>4 DEF DestroyAnswered
  <2>2. home[target[p]] = w /\ pc[p] = "destroying" /\ target[p] \notin actors[w]
    <3>1. home[target[p]] = w /\ pc[p] = "destroying"
      BY <1>4, DestroyIsAtHome
    <3> QED
      BY <2>1, <3>1, AnswerIsTrue
  <2>3. /\ UNCHANGED <<target, ended, actors>>
        /\ \A q \in Procs \ {p} : pc'[q] = pc[q]
        /\ \A v \in Workers : localObjects'[v] \subseteq localObjects[v]
        /\ \A v \in Workers : \A a \in localObjects[v] : a = target[p] \/ a \in localObjects'[v]
        /\ \A v \in Workers : target[p] \notin localObjects'[v]
    BY <2>1, <2>2 DEF Answer, Settle, TypeOK, callVars, workerVars, endVars, RuntimeInv, ActorsOK
  <2>4. \A a : a # target[p] /\ BeingDestroyed(a) => BeingDestroyed(a)'
    BY <2>3 DEF BeingDestroyed
  <2>5. \A v \in Workers : \A a \in localObjects[v] : a \in Procs /\ a # p /\ home[a] = v
    BY <2>2 DEF RuntimeInv, ActorsOK, TypeOK
  <2>6. \A v \in Workers \ ended : target[p] \notin actors[v]
    BY <2>2, <2>5 DEF LoadIsAccurate
  <2> QED
    BY <2>3, <2>4, <2>5, <2>6 DEF LoadIsAccurate
<1>5. ASSUME NEW w \in Workers, NEW p \in Procs, HandleCreate(w, p)
      PROVE  LoadIsAccurate'
  <2>1. p \in localObjects[w]
    BY <1>5, CreateIsAtHome
  <2>2. /\ UNCHANGED <<pc, target, ended, localObjects>>
        /\ \A v \in Workers : actors[v] \subseteq actors'[v]
        /\ \A v \in Workers : \A a \in actors'[v] : a \in actors[v] \/ (v = w /\ a = p)
    <3>1. actors' \in {actors, [actors EXCEPT ![w] = @ \cup {p}]}
      BY <1>5 DEF HandleCreate
    <3>2. UNCHANGED <<pc, target, ended, localObjects>>
      BY <1>5 DEF HandleCreate, Take, callVars, endVars
    <3>3. CASE actors' = actors
      BY <3>2, <3>3
    <3>4. CASE actors' = [actors EXCEPT ![w] = @ \cup {p}]
      BY <3>2, <3>4 DEF TypeOK
    <3> QED
      BY <3>1, <3>3, <3>4
  <2> QED
    BY <2>1, <2>2 DEF LoadIsAccurate, BeingDestroyed
<1>6. ASSUME NEW w \in Workers, NEW p \in Procs, HandleDestroy(w, p)
      PROVE  LoadIsAccurate'
  <2>1. pc[p] = "destroying"
    BY <1>6, DestroyIsAtHome
  <2>2. /\ UNCHANGED <<pc, target, ended, localObjects>>
        /\ \A v \in Workers : actors'[v] \subseteq actors[v]
        /\ \A v \in Workers : \A a \in actors[v] : a \in actors'[v] \/ a = target[p]
    BY <1>6 DEF HandleDestroy, Take, TypeOK, callVars, endVars
  <2> QED
    BY <2>1, <2>2 DEF LoadIsAccurate, BeingDestroyed
<1>7. CASE Elsewhere
  BY <1>7 DEF Elsewhere, LoadIsAccurate, BeingDestroyed, endVars
<1> QED
  BY <1>1, <1>2, <1>3, <1>4, <1>5, <1>6, <1>7, KindsOfSteps

\* the actor of a key is no longer there because it was destroyed through an alias
Aliased(a) == \E q \in Procs : target[q] = a /\ ~original[q] /\ pc[q] = "resolved"

LEMMA KeyedKept ==
  ASSUME TypeOK, RuntimeInv, KeyedIsLive, [Next]_vars
  PROVE  KeyedIsLive'
<1>1. ASSUME NEW p \in Procs, Early(p)
      PROVE  KeyedIsLive'
  <2>1. \A a : (BeingDestroyed(a) => BeingDestroyed(a)') /\ (Aliased(a) => Aliased(a)')
    BY <1>1 DEF Early, BeingDestroyed, Aliased
  <2> QED
    BY <1>1, <2>1 DEF Early, KeyedIsLive, Aliased, endVars
<1>2. CASE Dispose \/ (\E w \in Workers : NodeEnds(w)) \/ DisposeEnds
  BY <1>2 DEF Dispose, NodeEnds, DisposeEnds, KeyedIsLive
<1>3. ASSUME NEW w \in Workers, NEW p \in Procs, CreateAnswered(w, p)
      PROVE  KeyedIsLive'
  <2>1. PICK ok \in BOOLEAN :
          /\ Answer(w, p, ok)
          /\ IF ok THEN Settle(p, "resolved", p) ELSE Settle(p, "rejected", None)
          /\ keyed' = IF ok /\ fn[p] = "getOrSpawn" THEN [keyed EXCEPT ![key[p]] = p] ELSE keyed
    BY <1>3 DEF CreateAnswered
  <2>2. /\ home[p] = w /\ pc[p] = "creating" /\ (ok => p \in actors[w])
        /\ fn[p] = "getOrSpawn" => w = Place[key[p]]
    BY <1>3, <2>1, CreateIsAtHome, AnswerIsTrue DEF RuntimeInv, ProcessOK
  <2>3. UNCHANGED <<target, original, disposed, actors>> /\ \A q \in Procs \ {p} : pc'[q] = pc[q]
    BY <2>1 DEF Answer, Settle, TypeOK, callVars, workerVars, endVars
  <2>4. \A a : (BeingDestroyed(a) => BeingDestroyed(a)') /\ (Aliased(a) => Aliased(a)')
    BY <2>2, <2>3 DEF BeingDestroyed, Aliased
  <2>5. \A k \in Keys : keyed'[k] = keyed[k] \/ keyed'[k] \in actors[Place[k]]
    BY <2>1, <2>2 DEF TypeOK
  <2> QED
    BY <2>3, <2>4, <2>5 DEF KeyedIsLive, Aliased
<1>4. ASSUME NEW w \in Workers, NEW p \in Procs, DestroyAnswered(w, p)
      PROVE  KeyedIsLive'
  <2>1. /\ Answer(w, p, TRUE) /\ Settle(p, "resolved", None)
        /\ keyed' = [k \in Keys |-> IF original[p] /\ keyed[k] = target[p] THEN None ELSE keyed[k]]
    BY <1>4 DEF DestroyAnswered
  <2>2. /\ UNCHANGED <<target, original, disposed, actors>>
        /\ pc'[p] = "resolved" /\ \A q \in Procs \ {p} : pc'[q] = pc[q]
    BY <2>1 DEF Answer, Settle, TypeOK, callVars, workerVars, endVars
  <2>3. /\ \A a : BeingDestroyed(a) => BeingDestroyed(a)' \/ a = target[p]
        /\ \A a : Aliased(a) => Aliased(a)'
        /\ ~original[p] => Aliased(target[p])'
    BY <2>2 DEF BeingDestroyed, Aliased
  <2>4. ASSUME NEW k \in Keys, keyed'[k] # None
        PROVE  keyed'[k] = keyed[k] /\ (original[p] => keyed[k] # target[p])
    BY <2>1, <2>4
  <2> QED
    BY <2>2, <2>3, <2>4 DEF KeyedIsLive, Aliased
<1>5. ASSUME NEW w \in Workers, NEW p \in Procs, HandleCreate(w, p)
      PROVE  KeyedIsLive'
  <2>1. /\ UNCHANGED <<pc, target, original, disposed, keyed>>
        /\ \A v \in Workers : actors[v] \subseteq actors'[v]
    <3>1. actors' \in {actors, [actors EXCEPT ![w] = @ \cup {p}]}
      BY <1>5 DEF HandleCreate
    <3>2. UNCHANGED <<pc, target, original, disposed, keyed>>
      BY <1>5 DEF HandleCreate, Take, callVars, endVars
    <3> QED
      BY <3>1, <3>2 DEF TypeOK
  <2> QED
    BY <2>1, RuntimeAssumption DEF KeyedIsLive, BeingDestroyed
<1>6. ASSUME NEW w \in Workers, NEW p \in Procs, HandleDestroy(w, p)
      PROVE  KeyedIsLive'
  <2>1. pc[p] = "destroying"
    BY <1>6, DestroyIsAtHome
  <2>2. /\ UNCHANGED <<pc, target, original, disposed, keyed>>
        /\ \A v \in Workers : \A a \in actors[v] : a \in actors'[v] \/ a = target[p]
    BY <1>6 DEF HandleDestroy, Take, TypeOK, callVars, endVars
  <2> QED
    BY <2>1, <2>2, RuntimeAssumption DEF KeyedIsLive, BeingDestroyed
<1>7. CASE Elsewhere
  BY <1>7 DEF Elsewhere, KeyedIsLive, BeingDestroyed, endVars
<1> QED
  BY <1>1, <1>2, <1>3, <1>4, <1>5, <1>6, <1>7, KindsOfSteps

LEMMA DisposedKept ==
  ASSUME TypeOK, RuntimeInv, NothingKeyedAfterDispose, [Next]_vars
  PROVE  NothingKeyedAfterDispose'
<1>1. ASSUME NEW p \in Procs, Early(p)
      PROVE  NothingKeyedAfterDispose'
  BY <1>1 DEF Early, NothingKeyedAfterDispose, endVars
<1>2. CASE Dispose \/ (\E w \in Workers : NodeEnds(w)) \/ DisposeEnds
  BY <1>2 DEF Dispose, NodeEnds, DisposeEnds, NothingKeyedAfterDispose
<1>3. ASSUME NEW w \in Workers, NEW p \in Procs, CreateAnswered(w, p)
      PROVE  NothingKeyedAfterDispose'
  <2>1. PICK ok \in BOOLEAN : Answer(w, p, ok)
    BY <1>3 DEF CreateAnswered
  <2>2. w \in awaiting[p] /\ UNCHANGED cleared
    BY <2>1, AnswerIsTrue DEF Answer, endVars
  <2>3. ~cleared
    BY <2>2 DEF RuntimeInv, EndOK
  <2> QED
    BY <2>2, <2>3 DEF NothingKeyedAfterDispose
<1>4. ASSUME NEW w \in Workers, NEW p \in Procs, DestroyAnswered(w, p)
      PROVE  NothingKeyedAfterDispose'
  BY <1>4 DEF DestroyAnswered, Answer, endVars, NothingKeyedAfterDispose
<1>5. CASE \E w \in Workers, p \in Procs : HandleCreate(w, p) \/ HandleDestroy(w, p)
  BY <1>5 DEF HandleCreate, HandleDestroy, Take, endVars, NothingKeyedAfterDispose
<1>6. CASE Elsewhere
  BY <1>6 DEF Elsewhere, NothingKeyedAfterDispose, endVars
<1> QED
  BY <1>1, <1>2, <1>3, <1>4, <1>5, <1>6, KindsOfSteps

\* What getSchedulingLoad counts on a node is what lives on its worker, plus
\* creates under way or failed and destroys under way.
THEOREM LoadIsAccurateHolds == Spec => []LoadIsAccurate
<1>1. Init => LoadIsAccurate
  BY DEF Init, LoadIsAccurate
<1>2. TypeOK /\ RuntimeInv /\ LoadIsAccurate /\ [Next]_vars => LoadIsAccurate'
  BY LoadKept
<1> QED
  BY <1>1, <1>2, InvHolds, PTL DEF Spec

\* A key of getOrSpawn leads to a live actor on the worker of the key, while
\* nobody destroys it and nobody destroyed it through another of its proxies.
THEOREM KeyedIsLiveHolds == Spec => []KeyedIsLive
<1>1. Init => KeyedIsLive
  BY DEF Init, KeyedIsLive
<1>2. TypeOK /\ RuntimeInv /\ KeyedIsLive /\ [Next]_vars => KeyedIsLive'
  BY KeyedKept
<1> QED
  BY <1>1, <1>2, InvHolds, PTL DEF Spec

\* No key is bound once dispose is done: a node ends only when no create is
\* pending there, so none is answered after keyed.clear().
THEOREM NothingKeyedAfterDisposeHolds == Spec => []NothingKeyedAfterDispose
<1>1. Init => NothingKeyedAfterDispose
  BY DEF Init, NothingKeyedAfterDispose
<1>2. TypeOK /\ RuntimeInv /\ NothingKeyedAfterDispose /\ [Next]_vars
      => NothingKeyedAfterDispose'
  BY DisposedKept
<1> QED
  BY <1>1, <1>2, InvHolds, PTL DEF Spec

=============================================================================
