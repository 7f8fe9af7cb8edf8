------------------------- MODULE AnswerStream_proofs -------------------------
(***************************************************************************)
(* Proofs about AnswerStream: whatever the upstream service sends, however *)
(* it is cut and damaged, the client sees a message of SseGrammar.         *)
(*                                                                         *)
(* The argument: the events that have been made and not yet delivered lead *)
(* the client, one legal event at a time, from the message it has to the   *)
(* one the translation believes in (Flow, Mirrors).  Every operator of     *)
(* SseStream keeps that (Writing), a fold of them over the events of a     *)
(* chunk too, and each delivery takes the first legal event off the list.  *)
(*                                                                         *)
(* The decoder: an intact or body-damaged frame is all there and has no    *)
(* other intact one in it (Aligned), so no error skips into one; a turn    *)
(* moves the first event from what is buffered to what is handed on        *)
(* (Carrying).  With damage to bodies alone frame follows frame (Whole),   *)
(* and the errors in a row are no more than the harm that was sent (Fits). *)
(*                                                                         *)
(* The reason for stopping: after each event the translation knows of it   *)
(* what the answer as a whole says (Reported), and once the stream is over *)
(* the only reason on its way or told is the right one (ReasonRight).      *)
(*                                                                         *)
(* Last, what the proofs about words and calls need: operators only add to *)
(* the list of events, and none but StartTool gives a tool a block (Onward). *)
(***************************************************************************)
EXTENDS AnswerStream, FiniteSetTheorems, SequenceTheorems, WellFoundedInduction, TLAPS

(* Folds. *)

\* Every inhabited set of naturals has a least element: its initial segments are
\* finite sets, on which strict inclusion is well founded.
LEMMA LeastNat ==
    ASSUME NEW T \in SUBSET Nat, T # {}
    PROVE  \E m \in T : \A k \in T : m <= k
<1> DEFINE U == {0 .. n : n \in T}
           R == StrictSubsetOrdering(Nat)
<1>1. U \subseteq FiniteSubsetsOf(Nat) /\ U # {}
  <2>1. ASSUME NEW n \in T PROVE 0 .. n \in FiniteSubsetsOf(Nat)
    BY FS_Interval DEF FiniteSubsetsOf
  <2> QED BY <2>1
<1>2. IsWellFoundedOn(R, FiniteSubsetsOf(Nat))
  BY FS_StrictSubsetOrderingWellFounded
<1> HIDE DEF U, R
<1>3. PICK x \in U : \A y \in U : ~(<<y, x>> \in R)
  BY <1>1, <1>2, WFMin
<1>4. PICK m \in T : x = 0 .. m
  BY DEF U
<1>5. ASSUME NEW k \in T, k < m PROVE FALSE
  <2>1. 0 .. k \in U /\ 0 .. k \subseteq 0 .. m /\ 0 .. k # 0 .. m
    BY <1>4, <1>5 DEF U
  <2>2. <<0 .. k, 0 .. m>> \in R
    BY <2>1 DEF R, StrictSubsetOrdering
  <2> QED BY <1>3, <1>4, <2>1, <2>2
<1> QED BY <1>5

\* A set with 0 and the successor of each of its members holds every natural.
LEMMA Induction ==
    ASSUME NEW T \in SUBSET Nat, 0 \in T, \A k \in T : k + 1 \in T
    PROVE  \A k \in Nat : k \in T
<1> SUFFICES ASSUME NEW k \in Nat \ T PROVE FALSE
  OBVIOUS
<1>1. PICK m \in Nat \ T : \A l \in Nat \ T : m <= l
  BY LeastNat
<1>2. m # 0 /\ m - 1 \in Nat /\ (m - 1) + 1 = m
  BY <1>1
<1>3. m - 1 \in T
  BY <1>1, <1>2
<1> QED BY <1>1, <1>2, <1>3

\* The greatest position of a set of positions.
LEMMA MaxOf ==
    ASSUME NEW n \in Nat, NEW s \in SUBSET (1 .. n), s # {}
    PROVE  Max(s) \in s /\ \A y \in s : y <= Max(s)
<1> DEFINE B == {k \in Nat : \A y \in s : y <= k}
<1>1. n \in B
  OBVIOUS
<1>2. PICK m \in B : \A k \in B : m <= k
  <2>1. B \in SUBSET Nat /\ B # {}
    BY <1>1
  <2> QED BY <2>1, LeastNat
<1>3. m \in s
  <2> SUFFICES ASSUME m \notin s PROVE FALSE
    OBVIOUS
  <2>1. PICK z \in s : TRUE
    OBVIOUS
  <2>2. z \in Nat /\ z >= 1 /\ z <= m /\ m \in Nat
    BY <1>2, <2>1
  <2>3. m - 1 \in Nat
    BY <2>2
  <2>4. m - 1 \in B
    BY <1>2, <2>3
  <2> QED BY <1>2, <2>2, <2>4
<1>4. m \in s /\ \A y \in s : m >= y
  BY <1>2, <1>3
<1>5. Max(s) \in s /\ \A y \in s : Max(s) >= y
  BY <1>4 DEF Max
<1> QED BY <1>5

\* it takes each set of positions to the fold of the functions G at them, from a on.
IsFold(it, a, n, G) ==
    \A s \in SUBSET (1 .. n) : it[s] = IF s = {} THEN a ELSE G[Max(s)][it[s \ {Max(s)}]]

\* A fold from the left has a value: the function on sets of positions that FoldLeft
\* takes exists, whatever functions on A the elements stand for.
LEMMA FoldExists ==
    ASSUME NEW A, NEW a \in A, NEW n \in Nat, NEW G \in [1 .. n -> [A -> A]]
    PROVE  \E it \in [SUBSET (1 .. n) -> A] : IsFold(it, a, n, G)
<1> DEFINE P(m) == \E it \in [SUBSET (1 .. m) -> A] :
                      \A s \in SUBSET (1 .. m) :
                         it[s] = IF s = {} THEN a ELSE G[Max(s)][it[s \ {Max(s)}]]
           T == {m \in Nat : m <= n => P(m)}
<1>1. 0 \in T
  <2> DEFINE it == [s \in SUBSET (1 .. 0) |-> a]
  <2>1. it \in [SUBSET (1 .. 0) -> A] /\ \A s \in SUBSET (1 .. 0) : s = {} /\ it[s] = a
    OBVIOUS
  <2>2. P(0)
    BY <2>1
  <2> QED BY <2>2
<1>2. ASSUME NEW m \in Nat, P(m), m + 1 <= n PROVE P(m + 1)
  <2>1. PICK it \in [SUBSET (1 .. m) -> A] :
          \A s \in SUBSET (1 .. m) :
             it[s] = IF s = {} THEN a ELSE G[Max(s)][it[s \ {Max(s)}]]
    BY <1>2
  <2> DEFINE next == [s \in SUBSET (1 .. m + 1) |->
                        IF m + 1 \in s THEN G[m + 1][it[s \ {m + 1}]] ELSE it[s]]
  <2>2. ASSUME NEW s \in SUBSET (1 .. m + 1), m + 1 \in s
        PROVE  s \ {m + 1} \in SUBSET (1 .. m) /\ Max(s) = m + 1
    <3>1. s \ {m + 1} \in SUBSET (1 .. m)
      OBVIOUS
    <3>2. m + 1 \in Nat /\ s # {}
      BY <2>2
    <3>3. Max(s) \in s /\ \A y \in s : y <= Max(s)
      BY <3>2, MaxOf
    <3>4. Max(s) \in 1 .. m + 1 /\ m + 1 <= Max(s)
      BY <2>2, <3>3
    <3> QED BY <3>1, <3>4
  <2>3. ASSUME NEW s \in SUBSET (1 .. m + 1), m + 1 \notin s
        PROVE  s \in SUBSET (1 .. m)
    BY <2>3
  <2>4. next \in [SUBSET (1 .. m + 1) -> A]
    <3>1. ASSUME NEW s \in SUBSET (1 .. m + 1), m + 1 \in s PROVE G[m + 1][it[s \ {m + 1}]] \in A
      <4>1. it[s \ {m + 1}] \in A
        BY <2>2, <3>1
      <4>2. m + 1 \in 1 .. n
        BY <1>2
      <4>3. G[m + 1] \in [A -> A]
        BY <4>2
      <4> QED BY <4>1, <4>3
    <3> QED BY <2>1, <2>3, <3>1
  <2>5. ASSUME NEW s \in SUBSET (1 .. m + 1)
        PROVE  next[s] = IF s = {} THEN a ELSE G[Max(s)][next[s \ {Max(s)}]]
    <3>1. CASE m + 1 \in s
      <4>1. next[s] = G[m + 1][it[s \ {m + 1}]] /\ s # {}
        BY <3>1
      <4>2. next[s \ {m + 1}] = it[s \ {m + 1}]
        BY <2>2, <3>1
      <4> QED BY <2>2, <3>1, <4>1, <4>2
    <3>2. CASE m + 1 \notin s /\ s # {}
      <4>1. s \in SUBSET (1 .. m) /\ Max(s) \in s
        BY <2>3, <3>2, MaxOf
      <4>2. next[s] = it[s] /\ next[s \ {Max(s)}] = it[s \ {Max(s)}]
        BY <3>2
      <4> QED BY <2>1, <3>2, <4>1, <4>2
    <3>3. CASE s = {}
      BY <2>1, <2>3, <3>3
    <3> QED BY <3>1, <3>2, <3>3
  <2> HIDE DEF next
  <2> QED BY <2>4, <2>5
<1>3. P(n)
  <2> HIDE DEF P
  <2>1. \A m \in T : m + 1 \in T
    BY <1>2
  <2>2. T \in SUBSET Nat
    OBVIOUS
  <2>3. \A k \in Nat : k \in T
    <3> HIDE DEF T
    <3> QED BY <1>1, <2>1, <2>2, Induction
  <2> QED BY <2>3
<1> QED BY <1>3 DEF IsFold

\* A property of the empty run that each next element keeps holds of the whole run.
LEMMA RunStays ==
    ASSUME NEW A, NEW n \in Nat, NEW run, run[{}] \in A,
           \A k \in 1 .. n : run[1 .. k - 1] \in A => run[1 .. k] \in A
    PROVE  run[1 .. n] \in A
<1> DEFINE T == {k \in Nat : k <= n => run[1 .. k] \in A}
<1>1. 0 \in T
  <2>1. 1 .. 0 = {}
    OBVIOUS
  <2> QED BY <2>1
<1>2. ASSUME NEW k \in Nat, run[1 .. k] \in A, k + 1 <= n PROVE run[1 .. k + 1] \in A
  <2>1. k + 1 \in 1 .. n /\ (k + 1) - 1 = k
    BY <1>2
  <2> QED BY <1>2, <2>1
<1>3. \A k \in T : k + 1 \in T
  BY <1>2
<1>4. T \in SUBSET Nat
  OBVIOUS
<1> HIDE DEF T
<1>5. n \in T
  BY <1>1, <1>3, <1>4, Induction
<1> QED BY <1>5 DEF T

\* The greatest position of an initial segment, and the segment without it.
LEMMA MaxOfSegment ==
    ASSUME NEW k \in Nat \ {0}
    PROVE  Max(1 .. k) = k /\ (1 .. k) \ {k} = 1 .. k - 1
<1>1. 1 .. k \in SUBSET (1 .. k) /\ 1 .. k # {}
  OBVIOUS
<1>2. Max(1 .. k) \in 1 .. k /\ \A y \in 1 .. k : y <= Max(1 .. k)
  BY <1>1, MaxOf
<1>3. k <= Max(1 .. k)
  BY <1>2
<1>4. Max(1 .. k) = k
  BY <1>2, <1>3
<1>5. (1 .. k) \ {k} = 1 .. k - 1
  OBVIOUS
<1> QED BY <1>4, <1>5

\* A run over sets of positions, at the initial segments.
LEMMA RunSegments ==
    ASSUME NEW n \in Nat, NEW k \in 1 .. n
    PROVE  1 .. k \in SUBSET (1 .. n) /\ 1 .. k # {} /\ Max(1 .. k) = k /\ (1 .. k) \ {k} = 1 .. k - 1
<1>1. k \in Nat \ {0} /\ k <= n
  OBVIOUS
<1>2. \A i \in 1 .. k : i \in 1 .. n
  BY <1>1
<1>3. 1 \in 1 .. k
  BY <1>1
<1> QED BY <1>1, <1>2, <1>3, MaxOfSegment

\* The translation goes from x through the events.
EventChain(f, x, events) ==
    /\ f[0] = x /\ FoldLeft(OnEvent, x, events) = f[Len(events)]
    /\ \A k \in 1 .. Len(events) : f[k] = OnEvent(f[k - 1], events[k])

LEMMA EventsSteps ==
    ASSUME NEW A, NEW x \in A, NEW E, NEW events \in Seq(E),
           \A y \in A, e \in E : OnEvent(y, e) \in A
    PROVE  \E f \in [0 .. Len(events) -> A] : EventChain(f, x, events)
<1> DEFINE n == Len(events)
           G == [i \in 1 .. n |-> [y \in A |-> OnEvent(y, events[i])]]
           Q(f) == f = [s \in SUBSET (DOMAIN events) |->
                           IF s = {} THEN x ELSE OnEvent(f[s \ {Max(s)}], events[Max(s)])]
<1>1. n \in Nat /\ DOMAIN events = 1 .. n /\ \A i \in 1 .. n : events[i] \in E
  OBVIOUS
<1>2. FoldLeft(OnEvent, x, events) = (CHOOSE f : Q(f))[DOMAIN events]
  BY DEF FoldLeft, MapThenFoldSet
<1>3. G \in [1 .. n -> [A -> A]] /\ \A i \in 1 .. n, y \in A : G[i][y] = OnEvent(y, events[i])
  BY <1>1
<1> HIDE DEF G
<1>4. PICK it \in [SUBSET (1 .. n) -> A] : IsFold(it, x, n, G)
  <2>1. n \in Nat /\ x \in A /\ G \in [1 .. n -> [A -> A]]
    BY <1>1, <1>3
  <2> HIDE DEF n, Q
  <2> QED BY <2>1, FoldExists
<1>5. ASSUME NEW s \in SUBSET (1 .. n), s # {}
      PROVE  Max(s) \in 1 .. n /\ s \ {Max(s)} \in SUBSET (1 .. n)
  BY <1>1, <1>5, MaxOf
<1>6. Q(it)
  <2>1. ASSUME NEW s \in SUBSET (1 .. n)
        PROVE  it[s] = IF s = {} THEN x ELSE OnEvent(it[s \ {Max(s)}], events[Max(s)])
    BY <1>3, <1>4, <1>5, <2>1 DEF IsFold
  <2> QED BY <1>1, <1>4, <2>1
<1> DEFINE run == CHOOSE f : Q(f)
<1>7. Q(run)
  BY <1>6
<1> HIDE DEF run, n
<1>8. \A s \in SUBSET (1 .. n) :
         run[s] = IF s = {} THEN x ELSE OnEvent(run[s \ {Max(s)}], events[Max(s)])
  BY <1>1, <1>7
<1>9. \A k \in 1 .. n : run[1 .. k] = OnEvent(run[1 .. k - 1], events[k])
  BY <1>1, <1>8, RunSegments
<1>10. run[{}] = x
  BY <1>8
<1>11. \A k \in 1 .. n : run[1 .. k - 1] \in A => run[1 .. k] \in A
  BY <1>1, <1>9
<1>12. ASSUME NEW k \in 0 .. n PROVE run[1 .. k] \in A
  <2>1. k \in Nat /\ \A l \in 1 .. k : l \in 1 .. n
    BY <1>1
  <2>2. \A l \in 1 .. k : run[1 .. l - 1] \in A => run[1 .. l] \in A
    BY <1>11, <2>1
  <2>3. run[{}] \in A
    BY <1>10
  <2> QED BY <2>1, <2>2, <2>3, RunStays
<1> DEFINE f == [k \in 0 .. n |-> run[1 .. k]]
<1>13. f \in [0 .. n -> A]
  BY <1>12
<1>14. \A k \in 0 .. n : f[k] = run[1 .. k]
  OBVIOUS
<1>15. f[0] = x /\ f[n] = run[1 .. n]
  <2>1. 1 .. 0 = {} /\ 0 \in 0 .. n /\ n \in 0 .. n
    BY <1>1
  <2> QED BY <1>10, <1>14, <2>1
<1> HIDE DEF f
<1>16. ASSUME NEW k \in 1 .. n PROVE f[k] = OnEvent(f[k - 1], events[k])
  <2>1. k \in 0 .. n /\ k - 1 \in 0 .. n
    BY <1>1
  <2> QED BY <1>9, <1>14, <2>1
<1>17. FoldLeft(OnEvent, x, events) = f[n]
  BY <1>1, <1>2, <1>15 DEF run
<1> QED BY <1>13, <1>15, <1>16, <1>17 DEF EventChain, n

LEMMA FoldOfEvents ==
    ASSUME NEW A, NEW x \in A, NEW E, NEW events \in Seq(E),
           \A y \in A, e \in E : OnEvent(y, e) \in A
    PROVE  FoldLeft(OnEvent, x, events) \in A
<1>1. PICK f \in [0 .. Len(events) -> A] : EventChain(f, x, events)
  BY EventsSteps
<1>2. Len(events) \in 0 .. Len(events)
  OBVIOUS
<1> QED BY <1>1, <1>2 DEF EventChain

-----------------------------------------------------------------------------
(* The client's view of the message, and what one event makes of it.       *)

Phase  == {"waiting", "open", "delta", "stopped", "failed", "gone"}
Part   == [type : BlockType, open : BOOLEAN, signatures : Nat]
View   == [phase : Phase, blocks : Seq(Part)]
Reasons == {"end_turn", "tool_use", "max_tokens", "model_context_window_exceeded"}
Event  == {"message_start", "start", "text", "thinking", "json", "signature", "stop",
           "message_delta", "message_stop", "error"}
Tag    == {"", "signed", "given", "made", "empty"} \cup BlockType \cup Reasons \cup Failure
Item   == [ev : Event, at : SUBSET Nat, tag : Tag, text : Seq(Char)]

OpenParts(w, types) == {i \in DOMAIN w.blocks : w.blocks[i].open /\ w.blocks[i].type \in types}

\* The event is about the block i, which is open and not signed.
Fills(w, item, i, types) ==
    i \in OpenParts(w, types) /\ item.at = {i} /\ w.blocks[i].signatures = 0

\* The type of block that a delta is for.
Takes(ev) == CASE ev = "text" -> "text" [] ev = "thinking" -> "thinking" [] OTHER -> "tool_use"

Legal(w, item) ==
    \/ item.ev = "message_start" /\ w.phase = "waiting" /\ item.at = {}
    \/ /\ item.ev = "start" /\ w.phase = "open" /\ item.tag \in BlockType
       /\ item.at = {Len(w.blocks) + 1}
       /\ item.tag # "thinking" => OpenParts(w, {"text"}) = {}
    \/ /\ item.ev \in {"text", "thinking", "json"} /\ w.phase = "open"
       /\ \E i \in DOMAIN w.blocks : Fills(w, item, i, {Takes(item.ev)})
    \/ /\ item.ev = "signature" /\ w.phase = "open"
       /\ \E i \in DOMAIN w.blocks : Fills(w, item, i, {"thinking"})
    \/ /\ item.ev = "stop" /\ w.phase = "open"
       /\ item.at # {} /\ item.at \subseteq OpenParts(w, BlockType)
       /\ item.tag = "signed" => \A i \in item.at : w.blocks[i].type = "thinking"
                                                    => w.blocks[i].signatures = 0
    \/ /\ item.ev = "message_delta" /\ w.phase = "open" /\ OpenParts(w, BlockType) = {}
       /\ item.tag \in Reasons /\ item.at = {}
    \/ item.ev = "message_stop" /\ w.phase = "delta" /\ item.at = {}
    \/ item.ev = "error" /\ w.phase = "open" /\ OpenParts(w, BlockType) = {} /\ item.at = {}

PhaseAfter(phase, ev) ==
    CASE ev = "message_start" -> "open"
      [] ev = "message_delta" -> "delta"
      [] ev = "message_stop"  -> "stopped"
      [] ev = "error"         -> "failed"
      [] OTHER                -> phase

Signs(part, item) ==
    \/ item.ev = "signature"
    \/ item.ev = "stop" /\ item.tag = "signed" /\ part.type = "thinking"

PartAfter(part, item) ==
    [type       |-> part.type,
     open       |-> part.open /\ item.ev # "stop",
     signatures |-> IF Signs(part, item) THEN part.signatures + 1 ELSE part.signatures]

After(w, item) ==
    [phase  |-> PhaseAfter(w.phase, item.ev),
     blocks |-> IF item.ev = "start"
                THEN Append(w.blocks, [type |-> item.tag, open |-> TRUE, signatures |-> 0])
                ELSE [i \in DOMAIN w.blocks |->
                         IF i \in item.at THEN PartAfter(w.blocks[i], item) ELSE w.blocks[i]]]

\* The events lead from the view v to the view w, each legal where it comes.
Leads(f, v, events, w) ==
    /\ f[0] = v /\ f[Len(events)] = w
    /\ \A k \in 1 .. Len(events) : Legal(f[k - 1], events[k]) /\ f[k] = After(f[k - 1], events[k])

Flow(v, events, w) == \E f \in [0 .. Len(events) -> View] : Leads(f, v, events, w)

LEMMA AfterIsView ==
    ASSUME NEW w \in View, NEW item \in Item, Legal(w, item)
    PROVE  After(w, item) \in View
<1>1. w.blocks \in Seq(Part) /\ w.phase \in Phase
  BY DEF View
<1>2. PhaseAfter(w.phase, item.ev) \in Phase
  BY <1>1 DEF PhaseAfter, Phase
<1>3. CASE item.ev = "start"
  <2>1. [type |-> item.tag, open |-> TRUE, signatures |-> 0] \in Part
    BY <1>3 DEF Legal, Part
  <2>2. Append(w.blocks, [type |-> item.tag, open |-> TRUE, signatures |-> 0]) \in Seq(Part)
    BY <1>1, <2>1
  <2> QED BY <1>2, <1>3, <2>2 DEF After, View
<1>4. CASE item.ev # "start"
  <2>1. ASSUME NEW part \in Part PROVE PartAfter(part, item) \in Part
    BY DEF PartAfter, Part
  <2>2. \A i \in 1 .. Len(w.blocks) : w.blocks[i] \in Part
    BY <1>1
  <2>3. Len(w.blocks) \in Nat /\ DOMAIN w.blocks = 1 .. Len(w.blocks)
    BY <1>1
  <2>4. [i \in DOMAIN w.blocks |->
            IF i \in item.at THEN PartAfter(w.blocks[i], item) ELSE w.blocks[i]] \in Seq(Part)
    BY <2>1, <2>2, <2>3
  <2> QED BY <1>2, <1>4, <2>4 DEF After, View
<1> QED BY <1>3, <1>4

LEMMA FlowEmpty ==
    ASSUME NEW v \in View
    PROVE  Flow(v, <<>>, v) /\ \A w : Flow(v, <<>>, w) => w = v
<1>1. Len(<<>>) = 0
  OBVIOUS
<1>2. Leads([k \in 0 .. 0 |-> v], v, <<>>, v)
  BY <1>1 DEF Leads
<1>3. [k \in 0 .. 0 |-> v] \in [0 .. Len(<<>>) -> View]
  BY <1>1
<1>4. ASSUME NEW w, Flow(v, <<>>, w) PROVE w = v
  BY <1>1, <1>4 DEF Flow, Leads
<1> QED BY <1>2, <1>3, <1>4 DEF Flow

LEMMA FlowAppend ==
    ASSUME NEW v \in View, NEW w \in View, NEW events \in Seq(Item), NEW item \in Item,
           Flow(v, events, w), Legal(w, item)
    PROVE  After(w, item) \in View /\ Flow(v, Append(events, item), After(w, item))
<1> DEFINE n == Len(events)
           more == Append(events, item)
<1>1. PICK f \in [0 .. n -> View] : Leads(f, v, events, w)
  BY DEF Flow
<1>2. /\ n \in Nat /\ Len(more) = n + 1 /\ more[n + 1] = item
      /\ \A k \in 1 .. n : more[k] = events[k]
  OBVIOUS
<1>3. After(w, item) \in View
  BY AfterIsView
<1> DEFINE g == [k \in 0 .. n + 1 |-> IF k <= n THEN f[k] ELSE After(w, item)]
<1> HIDE DEF n, more
<1>4. g \in [0 .. Len(more) -> View]
  <2>1. \A k \in 0 .. n : f[k] \in View
    BY <1>1
  <2> QED BY <1>2, <1>3, <2>1
<1>5. \A k \in 0 .. n : g[k] = f[k]
  BY <1>2
<1>6. g[n + 1] = After(w, item)
  BY <1>2
<1> HIDE DEF g
<1>7. f[0] = v /\ f[n] = w
      /\ \A k \in 1 .. n : Legal(f[k - 1], events[k]) /\ f[k] = After(f[k - 1], events[k])
  BY <1>1 DEF Leads, n
<1>8. ASSUME NEW k \in 1 .. n + 1
      PROVE  Legal(g[k - 1], more[k]) /\ g[k] = After(g[k - 1], more[k])
  <2>1. CASE k \in 1 .. n
    <3>1. k - 1 \in 0 .. n /\ k \in 0 .. n
      BY <1>2, <2>1
    <3> QED BY <1>2, <1>5, <1>7, <2>1, <3>1
  <2>2. CASE k = n + 1
    <3>1. g[k - 1] = w /\ g[k] = After(w, item) /\ more[k] = item
      BY <1>2, <1>5, <1>6, <1>7, <2>2
    <3> QED BY <3>1
  <2> QED BY <1>2, <2>1, <2>2
<1>9. Leads(g, v, more, After(w, item))
  <2>1. g[0] = v
    BY <1>2, <1>5, <1>7
  <2> QED BY <1>2, <1>6, <1>8, <2>1 DEF Leads
<1> QED BY <1>3, <1>4, <1>9 DEF Flow, more

LEMMA FlowHead ==
    ASSUME NEW v \in View, NEW w \in View, NEW events \in Seq(Item), events # <<>>,
           Flow(v, events, w)
    PROVE  /\ Head(events) \in Item /\ Legal(v, Head(events)) /\ After(v, Head(events)) \in View
           /\ Tail(events) \in Seq(Item) /\ Flow(After(v, Head(events)), Tail(events), w)
<1> DEFINE n == Len(events)
           rest == Tail(events)
<1>1. PICK f \in [0 .. n -> View] : Leads(f, v, events, w)
  BY DEF Flow
<1>2. /\ n \in Nat \ {0} /\ rest \in Seq(Item) /\ Len(rest) = n - 1
      /\ Head(events) = events[1] /\ Head(events) \in Item
      /\ \A k \in 1 .. n - 1 : rest[k] = events[k + 1]
  BY HeadTailProperties, EmptySeq
<1> HIDE DEF n, rest
<1>3. f[0] = v /\ f[n] = w
      /\ \A k \in 1 .. n : Legal(f[k - 1], events[k]) /\ f[k] = After(f[k - 1], events[k])
  BY <1>1 DEF Leads, n
<1>4. Legal(v, Head(events)) /\ f[1] = After(v, Head(events)) /\ f[1] \in View
  <2>1. 1 \in 1 .. n /\ 1 - 1 = 0 /\ 1 \in 0 .. n
    BY <1>2
  <2> QED BY <1>1, <1>2, <1>3, <2>1
<1> DEFINE g == [k \in 0 .. n - 1 |-> f[k + 1]]
<1>5. g \in [0 .. Len(rest) -> View]
  <2>1. \A k \in 0 .. n - 1 : k + 1 \in 0 .. n
    BY <1>2
  <2> QED BY <1>1, <1>2, <2>1
<1>6. \A k \in 0 .. n - 1 : g[k] = f[k + 1]
  OBVIOUS
<1> HIDE DEF g
<1>7. ASSUME NEW k \in 1 .. n - 1
      PROVE  Legal(g[k - 1], rest[k]) /\ g[k] = After(g[k - 1], rest[k])
  <2>1. k + 1 \in 1 .. n /\ (k + 1) - 1 = k /\ k \in 0 .. n - 1 /\ k - 1 \in 0 .. n - 1 /\ (k - 1) + 1 = k
    BY <1>2
  <2>2. g[k - 1] = f[k] /\ g[k] = f[k + 1] /\ rest[k] = events[k + 1]
    BY <1>2, <1>6, <2>1
  <2> QED BY <1>3, <2>1, <2>2
<1>8. Leads(g, f[1], rest, w)
  <2>1. g[0] = f[1] /\ g[n - 1] = f[n]
    BY <1>2, <1>6
  <2> QED BY <1>2, <1>3, <1>7, <2>1 DEF Leads
<1> QED BY <1>2, <1>4, <1>5, <1>8 DEF Flow, rest

LEMMA FlowCons ==
    ASSUME NEW v \in View, NEW w \in View, NEW events \in Seq(Item), NEW item \in Item,
           Legal(v, item), Flow(After(v, item), events, w)
    PROVE  <<item>> \o events \in Seq(Item) /\ Flow(v, <<item>> \o events, w)
<1> DEFINE n == Len(events)
           more == <<item>> \o events
<1>1. PICK f \in [0 .. n -> View] : Leads(f, After(v, item), events, w)
  BY DEF Flow
<1>2. /\ n \in Nat /\ more \in Seq(Item) /\ Len(more) = n + 1 /\ more[1] = item
      /\ \A k \in 2 .. n + 1 : more[k] = events[k - 1]
  OBVIOUS
<1> HIDE DEF n, more
<1>3. f[0] = After(v, item) /\ f[n] = w
      /\ \A k \in 1 .. n : Legal(f[k - 1], events[k]) /\ f[k] = After(f[k - 1], events[k])
  BY <1>1 DEF Leads, n
<1> DEFINE g == [k \in 0 .. n + 1 |-> IF k = 0 THEN v ELSE f[k - 1]]
<1>4. g \in [0 .. Len(more) -> View]
  <2>1. \A k \in 0 .. n + 1 : k # 0 => k - 1 \in 0 .. n
    BY <1>2
  <2> QED BY <1>1, <1>2, <2>1
<1>5. g[0] = v /\ \A k \in 1 .. n + 1 : g[k] = f[k - 1]
  BY <1>2
<1> HIDE DEF g
<1>6. ASSUME NEW k \in 1 .. n + 1
      PROVE  Legal(g[k - 1], more[k]) /\ g[k] = After(g[k - 1], more[k])
  <2>1. CASE k = 1
    <3>1. g[k - 1] = v /\ g[k] = f[0] /\ more[k] = item
      BY <1>2, <1>5, <2>1
    <3> QED BY <1>3, <3>1
  <2>2. CASE k # 1
    <3>1. /\ k - 1 \in 1 .. n /\ k \in 2 .. n + 1 /\ k - 1 \in 1 .. n + 1
          /\ (k - 1) - 1 \in 0 .. n
      BY <1>2, <2>2
    <3>2. g[k - 1] = f[(k - 1) - 1] /\ g[k] = f[k - 1] /\ more[k] = events[k - 1]
      BY <1>2, <1>5, <3>1
    <3> QED BY <1>3, <3>1, <3>2
  <2> QED BY <2>1, <2>2
<1>7. Leads(g, v, more, w)
  <2>1. g[n + 1] = f[n]
    BY <1>2, <1>5
  <2> QED BY <1>2, <1>3, <1>5, <1>6, <2>1 DEF Leads
<1> QED BY <1>2, <1>4, <1>7 DEF Flow, more

-----------------------------------------------------------------------------
(* The translation's context.                                              *)

BlockState == [type : BlockType, stopped : BOOLEAN]

Context ==
    [thinking : BOOLEAN, blocks : Seq(BlockState), started : BOOLEAN, hasTool : BOOLEAN,
     reason : Reason, produced : BOOLEAN, tools : [ToolId -> Nat], buffer : Seq(Char),
     inside : BOOLEAN, extracted : BOOLEAN, strip : BOOLEAN, thinkAt : Nat, textAt : Nat,
     reasoning : BOOLEAN, native : BOOLEAN, signature : BOOLEAN, failure : Failure,
     out : Seq(Item)]

\* The client's view, when all is delivered, is what the translation believes.
Mirrors(w, x) ==
    /\ w.phase = IF x.started THEN "open" ELSE "waiting"
    /\ Len(w.blocks) = Len(x.blocks)
    /\ \A i \in 1 .. Len(x.blocks) :
          /\ w.blocks[i].type = x.blocks[i].type
          /\ w.blocks[i].open = ~x.blocks[i].stopped
          /\ w.blocks[i].open => w.blocks[i].signatures = 0

Told(v, x) == \E w \in View : Flow(v, x.out, w) /\ Mirrors(w, x)

\* Where text and tools go: one text block at most is open, the one that is being filled.
PlacesOK(x) ==
    /\ x.textAt \in 0 .. Len(x.blocks) /\ x.thinkAt \in 0 .. Len(x.blocks)
    /\ x.textAt # 0 => x.blocks[x.textAt].type = "text"
    /\ OpenText(x) \subseteq {x.textAt}
    /\ \A t \in ToolId : /\ x.tools[t] \in 0 .. Len(x.blocks)
                         /\ x.tools[t] # 0 => x.blocks[x.tools[t]].type = "tool_use"

\* Where thinking goes, and that the two ways of thinking exclude each other.
ThinkingOK(x) ==
    /\ x.inside \/ x.reasoning =>
          x.thinkAt \in OpenBlocks(x) /\ x.blocks[x.thinkAt].type = "thinking"
    /\ x.native => ~x.inside
    /\ x.reasoning => x.native

\* The contexts of an answer that has begun, for a client that has seen v.
Writing(v) == {x \in Context : x.started /\ Told(v, x) /\ PlacesOK(x)}

LEMMA ContextBlocks ==
    ASSUME NEW x \in Context
    PROVE  /\ Len(x.blocks) \in Nat /\ DOMAIN x.blocks = 1 .. Len(x.blocks)
           /\ \A i \in 1 .. Len(x.blocks) : x.blocks[i] \in BlockState
           /\ OpenBlocks(x) \subseteq 1 .. Len(x.blocks) /\ OpenText(x) \subseteq OpenBlocks(x)
           /\ OpenBlocks(x) \in SUBSET Nat
<1>1. x.blocks \in Seq(BlockState)
  BY DEF Context
<1>2. Len(x.blocks) \in Nat /\ DOMAIN x.blocks = 1 .. Len(x.blocks)
  BY <1>1
<1>3. \A i \in 1 .. Len(x.blocks) : x.blocks[i] \in BlockState
  BY <1>1
<1>4. OpenBlocks(x) \subseteq 1 .. Len(x.blocks) /\ OpenText(x) \subseteq OpenBlocks(x)
  BY <1>2 DEF OpenBlocks, OpenText
<1> QED BY <1>2, <1>3, <1>4

\* What the client knows of the blocks of a context that it has been told.
LEMMA MirroredOpen ==
    ASSUME NEW x \in Context, NEW w \in View, Mirrors(w, x)
    PROVE  /\ DOMAIN w.blocks = 1 .. Len(x.blocks)
           /\ OpenParts(w, BlockType) = OpenBlocks(x) /\ OpenParts(w, {"text"}) = OpenText(x)
           /\ \A i \in OpenBlocks(x) : w.blocks[i].signatures = 0
<1>1. w.blocks \in Seq(Part) /\ Len(w.blocks) = Len(x.blocks)
  BY DEF View, Mirrors
<1>2. DOMAIN w.blocks = 1 .. Len(x.blocks)
  BY <1>1
<1>3. \A i \in 1 .. Len(x.blocks) : x.blocks[i].type \in BlockType
  BY ContextBlocks DEF BlockState
<1> QED BY <1>2, <1>3, ContextBlocks DEF Mirrors, OpenParts, OpenBlocks, OpenText

\* A change of a context that tells the client nothing.
LEMMA Silent ==
    ASSUME NEW v \in View, NEW x \in Context, Told(v, x), NEW y \in Context,
           y.out = x.out, y.blocks = x.blocks, y.started = x.started
    PROVE  Told(v, y)
BY DEF Told, Mirrors

\* A change of a context that tells the client one event.
LEMMA TellsOne ==
    ASSUME NEW v \in View, NEW x \in Context, Told(v, x), NEW y \in Context, NEW item \in Item,
           y.out = Append(x.out, item),
           \A w \in View : Mirrors(w, x) => Legal(w, item) /\ Mirrors(After(w, item), y)
    PROVE  Told(v, y)
<1>1. PICK w \in View : Flow(v, x.out, w) /\ Mirrors(w, x)
  BY DEF Told
<1>2. x.out \in Seq(Item) /\ Legal(w, item) /\ Mirrors(After(w, item), y)
  BY <1>1 DEF Context
<1>3. After(w, item) \in View /\ Flow(v, Append(x.out, item), After(w, item))
  BY <1>1, <1>2, FlowAppend
<1> QED BY <1>2, <1>3 DEF Told

\* The same for two events.
LEMMA TellsTwo ==
    ASSUME NEW v \in View, NEW x \in Context, Told(v, x), NEW y \in Context,
           NEW one \in Item, NEW two \in Item,
           y.out = Append(Append(x.out, one), two),
           \A w \in View : Mirrors(w, x) =>
              /\ Legal(w, one)
              /\ After(w, one) \in View =>
                    Legal(After(w, one), two) /\ Mirrors(After(After(w, one), two), y)
    PROVE  Told(v, y)
<1>1. PICK w \in View : Flow(v, x.out, w) /\ Mirrors(w, x)
  BY DEF Told
<1>2. x.out \in Seq(Item) /\ Legal(w, one)
  BY <1>1 DEF Context
<1>3. After(w, one) \in View /\ Flow(v, Append(x.out, one), After(w, one))
  BY <1>1, <1>2, FlowAppend
<1>4. Legal(After(w, one), two) /\ Mirrors(After(After(w, one), two), y)
  BY <1>1, <1>3
<1>5. Append(x.out, one) \in Seq(Item)
  BY <1>2
<1>6. /\ After(After(w, one), two) \in View
      /\ Flow(v, Append(Append(x.out, one), two), After(After(w, one), two))
  BY <1>3, <1>4, <1>5, FlowAppend
<1> QED BY <1>4, <1>6 DEF Told

\* Fields that no event is about.
LEMMA Quiet ==
    ASSUME NEW v \in View, NEW x \in Writing(v), NEW y \in Context,
           y.out = x.out, y.blocks = x.blocks, y.started = x.started,
           y.textAt = x.textAt, y.thinkAt = x.thinkAt, y.tools = x.tools
    PROVE  y \in Writing(v)
<1>1. Told(v, y)
  BY Silent DEF Writing
<1>2. PlacesOK(y)
  BY DEF Writing, PlacesOK, OpenText, OpenBlocks
<1> QED BY <1>1, <1>2 DEF Writing

-----------------------------------------------------------------------------
(* Each operator that tells the client something.                          *)

LEMMA ItemIs ==
    ASSUME NEW ev \in Event, NEW at \in SUBSET Nat, NEW tag \in Tag, NEW text \in Seq(Char)
    PROVE  [ev |-> ev, at |-> at, tag |-> tag, text |-> text] \in Item
BY DEF Item

LEMMA NoText == <<>> \in Seq(Char)
OBVIOUS

LEMMA Appended ==
    ASSUME NEW S, NEW s \in Seq(S), NEW e \in S
    PROVE  /\ Append(s, e) \in Seq(S) /\ Len(s) \in Nat /\ Len(Append(s, e)) = Len(s) + 1
           /\ Append(s, e)[Len(s) + 1] = e
           /\ \A i \in 1 .. Len(s) : Append(s, e)[i] = s[i]
OBVIOUS

\* x with a new block of the type at its end, and the event of its start.
LEMMA StartBlockTells ==
    ASSUME NEW v \in View, NEW x \in Context, x.started, Told(v, x), NEW type \in BlockType,
           type # "thinking" => OpenText(x) = {}
    PROVE  /\ StartBlock(x, type) \in Context /\ Told(v, StartBlock(x, type))
           /\ StartBlock(x, type) =
                [x EXCEPT !.blocks = Append(x.blocks, [type |-> type, stopped |-> FALSE]),
                          !.out = StartBlock(x, type).out]
<1> DEFINE item == [ev |-> "start", at |-> {Len(x.blocks) + 1}, tag |-> type, text |-> <<>>]
           y == StartBlock(x, type)
           new == [type |-> type, stopped |-> FALSE]
<1>1. y = [x EXCEPT !.blocks = Append(x.blocks, new), !.out = Append(x.out, item)]
  BY DEF StartBlock, Emit, Context
<1>2. item \in Item
  <2>1. Len(x.blocks) + 1 \in Nat
    BY ContextBlocks
  <2>2. type \in Tag /\ "start" \in Event
    BY DEF Tag, Event
  <2> QED BY <2>1, <2>2, NoText, ItemIs
<1>3. x.blocks \in Seq(BlockState) /\ x.out \in Seq(Item) /\ new \in BlockState
  BY DEF Context, BlockState
<1>4. Append(x.blocks, new) \in Seq(BlockState) /\ Append(x.out, item) \in Seq(Item)
  BY <1>2, <1>3
<1>5. y \in Context
  BY <1>1, <1>4 DEF Context
<1>6. y.out = Append(x.out, item) /\ y.blocks = Append(x.blocks, new) /\ y.started = x.started
  BY <1>1 DEF Context
<1>7. /\ Len(y.blocks) = Len(x.blocks) + 1 /\ y.blocks[Len(x.blocks) + 1] = new
      /\ \A i \in 1 .. Len(x.blocks) : y.blocks[i] = x.blocks[i]
      /\ Len(x.blocks) \in Nat
  BY <1>3, <1>6, Appended
<1>8. ASSUME NEW w \in View, Mirrors(w, x) PROVE Legal(w, item) /\ Mirrors(After(w, item), y)
  <2>1. w.phase = "open" /\ w.blocks \in Seq(Part) /\ Len(w.blocks) = Len(x.blocks)
    BY <1>8 DEF Mirrors, View
  <2>2. Legal(w, item)
    BY <1>8, <2>1, MirroredOpen DEF Legal
  <2>3. /\ After(w, item).phase = "open"
        /\ After(w, item).blocks =
              Append(w.blocks, [type |-> type, open |-> TRUE, signatures |-> 0])
    BY <2>1 DEF After, PhaseAfter
  <2> DEFINE part == [type |-> type, open |-> TRUE, signatures |-> 0]
  <2>4. /\ Len(After(w, item).blocks) = Len(w.blocks) + 1
        /\ After(w, item).blocks[Len(w.blocks) + 1] = part
        /\ \A i \in 1 .. Len(w.blocks) : After(w, item).blocks[i] = w.blocks[i]
    <3>1. part \in Part
      BY DEF Part
    <3> HIDE DEF part, item
    <3> QED BY <2>1, <2>3, <3>1, Appended DEF part
  <2>5. ASSUME NEW i \in 1 .. Len(y.blocks)
        PROVE  /\ After(w, item).blocks[i].type = y.blocks[i].type
               /\ After(w, item).blocks[i].open = ~y.blocks[i].stopped
               /\ After(w, item).blocks[i].open => After(w, item).blocks[i].signatures = 0
    <3> HIDE DEF item, y
    <3>1. CASE i = Len(x.blocks) + 1
      <4>1. After(w, item).blocks[i] = part /\ y.blocks[i] = new
        BY <1>7, <2>1, <2>4, <3>1
      <4>2. /\ part.type = type /\ part.open = TRUE /\ part.signatures = 0
            /\ new.type = type /\ new.stopped = FALSE
        BY DEF part, new
      <4> HIDE DEF part, new
      <4> QED BY <4>1, <4>2
    <3>2. CASE i \in 1 .. Len(x.blocks)
      <4>1. After(w, item).blocks[i] = w.blocks[i] /\ y.blocks[i] = x.blocks[i]
        BY <1>7, <2>1, <2>4, <3>2
      <4> QED BY <1>8, <3>2, <4>1 DEF Mirrors
    <3> QED BY <1>7, <3>1, <3>2
  <2> QED BY <1>6, <1>7, <2>1, <2>2, <2>3, <2>4, <2>5 DEF Mirrors
<1>9. Told(v, y)
  BY <1>2, <1>5, <1>6, <1>8, TellsOne
<1> QED BY <1>1, <1>5, <1>6, <1>9

\* Nothing but the blocks and the events is another.
Apart(x, y) ==
    /\ y.thinking = x.thinking /\ y.started = x.started /\ y.hasTool = x.hasTool
    /\ y.reason = x.reason /\ y.produced = x.produced /\ y.tools = x.tools
    /\ y.buffer = x.buffer /\ y.inside = x.inside /\ y.extracted = x.extracted
    /\ y.strip = x.strip /\ y.thinkAt = x.thinkAt /\ y.textAt = x.textAt
    /\ y.reasoning = x.reasoning /\ y.native = x.native /\ y.signature = x.signature
    /\ y.failure = x.failure

LEMMA EmitKeeps ==
    ASSUME NEW x \in Context, NEW ev \in Event, NEW at \in SUBSET Nat, NEW tag \in Tag,
           NEW text \in Seq(Char)
    PROVE  /\ Emit(x, ev, at, tag, text) \in Context /\ Apart(x, Emit(x, ev, at, tag, text))
           /\ Emit(x, ev, at, tag, text).blocks = x.blocks
           /\ Emit(x, ev, at, tag, text).out =
                 Append(x.out, [ev |-> ev, at |-> at, tag |-> tag, text |-> text])
<1> DEFINE item == [ev |-> ev, at |-> at, tag |-> tag, text |-> text]
<1>1. item \in Item
  BY ItemIs
<1>2. Emit(x, ev, at, tag, text) = [x EXCEPT !.out = Append(x.out, item)]
  BY DEF Emit, Context
<1> HIDE DEF item
<1>3. Append(x.out, item) \in Seq(Item)
  BY <1>1 DEF Context
<1>4. [x EXCEPT !.out = Append(x.out, item)] \in Context
  BY <1>3 DEF Context
<1> DEFINE y == [x EXCEPT !.out = Append(x.out, item)]
<1>5. y.blocks = x.blocks /\ y.out = Append(x.out, item)
  BY DEF Context
<1>6. Apart(x, y)
  BY DEF Context, Apart
<1> QED BY <1>2, <1>4, <1>5, <1>6 DEF item

\* What an event other than the start of a block makes of the view.
LEMMA AfterBlocks ==
    ASSUME NEW w \in View, NEW item \in Item, item.ev # "start"
    PROVE  /\ Len(After(w, item).blocks) = Len(w.blocks) /\ Len(w.blocks) \in Nat
           /\ \A i \in 1 .. Len(w.blocks) : After(w, item).blocks[i] =
                 IF i \in item.at THEN PartAfter(w.blocks[i], item) ELSE w.blocks[i]
<1>1. w.blocks \in Seq(Part)
  BY DEF View
<1>2. ASSUME NEW part \in Part PROVE PartAfter(part, item) \in Part
  BY DEF PartAfter, Part
<1>3. Len(w.blocks) \in Nat /\ DOMAIN w.blocks = 1 .. Len(w.blocks)
      /\ \A i \in 1 .. Len(w.blocks) : w.blocks[i] \in Part
  BY <1>1
<1> DEFINE s == [i \in 1 .. Len(w.blocks) |->
                    IF i \in item.at THEN PartAfter(w.blocks[i], item) ELSE w.blocks[i]]
<1>4. After(w, item).blocks = s
  BY <1>3 DEF After
<1>5. s \in Seq(Part) /\ DOMAIN s = 1 .. Len(w.blocks)
  BY <1>2, <1>3
<1>6. Len(s) = Len(w.blocks)
  BY <1>3, <1>5
<1> QED BY <1>3, <1>4, <1>6

\* A delta to an open block of its type.
LEMMA Fill ==
    ASSUME NEW v \in View, NEW x \in Writing(v), NEW i \in OpenBlocks(x),
           NEW ev \in {"text", "thinking", "json"}, NEW text \in Seq(Char),
           x.blocks[i].type = Takes(ev)
    PROVE  /\ Emit(x, ev, {i}, "", text) \in Writing(v)
           /\ Apart(x, Emit(x, ev, {i}, "", text))
           /\ Emit(x, ev, {i}, "", text).blocks = x.blocks
<1> DEFINE item == [ev |-> ev, at |-> {i}, tag |-> "", text |-> text]
           y == Emit(x, ev, {i}, "", text)
<1>1. x \in Context /\ x.started /\ Told(v, x) /\ PlacesOK(x)
  BY DEF Writing
<1>2. i \in Nat /\ i \in 1 .. Len(x.blocks) /\ ev \in Event /\ "" \in Tag
  BY <1>1, ContextBlocks DEF Event, Tag
<1>3. item \in Item
  BY <1>2, ItemIs
<1>4. y \in Context /\ Apart(x, y) /\ y.blocks = x.blocks /\ y.out = Append(x.out, item)
  <2>1. {i} \in SUBSET Nat
    BY <1>2
  <2> QED BY <1>1, <1>2, <2>1, EmitKeeps
<1>5. item.ev = ev /\ item.at = {i} /\ item.tag = ""
  OBVIOUS
<1> HIDE DEF item, y
<1>6. ASSUME NEW w \in View, Mirrors(w, x) PROVE Legal(w, item) /\ Mirrors(After(w, item), y)
  <2>1. w.phase = "open" /\ i \in OpenParts(w, BlockType) /\ w.blocks[i].signatures = 0
        /\ i \in DOMAIN w.blocks
    BY <1>1, <1>2, <1>6, MirroredOpen DEF Mirrors
  <2>2. Legal(w, item)
    <3>1. w.blocks[i].type = x.blocks[i].type
      BY <1>2, <1>6 DEF Mirrors
    <3>2. i \in OpenParts(w, {Takes(ev)})
      BY <2>1, <3>1 DEF OpenParts
    <3> QED BY <1>5, <2>1, <3>2 DEF Legal, Fills
  <2>3. After(w, item).phase = "open"
    BY <1>5, <2>1 DEF After, PhaseAfter
  <2>4. /\ Len(After(w, item).blocks) = Len(w.blocks)
        /\ \A j \in 1 .. Len(w.blocks) : After(w, item).blocks[j] =
              IF j \in item.at THEN PartAfter(w.blocks[j], item) ELSE w.blocks[j]
    BY <1>3, <1>5, AfterBlocks
  <2>5. \A j \in 1 .. Len(w.blocks) :
           /\ After(w, item).blocks[j].type = w.blocks[j].type
           /\ After(w, item).blocks[j].open = w.blocks[j].open
           /\ After(w, item).blocks[j].signatures = w.blocks[j].signatures
    <3>1. ASSUME NEW part \in Part
          PROVE  /\ PartAfter(part, item).type = part.type
                 /\ PartAfter(part, item).open = part.open
                 /\ PartAfter(part, item).signatures = part.signatures
      BY <1>5 DEF PartAfter, Signs, Part
    <3>2. \A j \in 1 .. Len(w.blocks) : w.blocks[j] \in Part
      BY DEF View
    <3> QED BY <2>4, <3>1, <3>2
  <2>6. y.started /\ y.blocks = x.blocks
    BY <1>1, <1>4 DEF Apart
  <2>7. Len(w.blocks) = Len(x.blocks)
    BY <1>6 DEF Mirrors
  <2>8. ASSUME NEW j \in 1 .. Len(x.blocks)
        PROVE  /\ After(w, item).blocks[j].type = x.blocks[j].type
               /\ After(w, item).blocks[j].open = ~x.blocks[j].stopped
               /\ After(w, item).blocks[j].open => After(w, item).blocks[j].signatures = 0
    <3>1. /\ w.blocks[j].type = x.blocks[j].type /\ w.blocks[j].open = ~x.blocks[j].stopped
          /\ w.blocks[j].open => w.blocks[j].signatures = 0
      BY <1>6 DEF Mirrors
    <3> QED BY <2>5, <2>7, <3>1
  <2> QED BY <2>2, <2>3, <2>4, <2>6, <2>7, <2>8 DEF Mirrors
<1>7. Told(v, y)
  BY <1>1, <1>3, <1>4, <1>6, TellsOne
<1>8. PlacesOK(y) /\ y.started
  BY <1>1, <1>4 DEF PlacesOK, OpenText, OpenBlocks, Apart
<1> QED BY <1>4, <1>7, <1>8 DEF Writing, y

LEMMA ApartTwice ==
    ASSUME NEW x, NEW y, NEW z, Apart(x, y), Apart(y, z)
    PROVE  Apart(x, z)
BY Zenon DEF Apart

\* y has the blocks of x, with those in S stopped.
Closes(x, y, S) ==
    /\ Len(y.blocks) = Len(x.blocks)
    /\ \A i \in 1 .. Len(x.blocks) :
          /\ y.blocks[i].type = x.blocks[i].type
          /\ y.blocks[i].stopped = (x.blocks[i].stopped \/ i \in S)

LEMMA ClosesPlaces ==
    ASSUME NEW x \in Context, NEW y \in Context, NEW S, Closes(x, y, S), Apart(x, y)
    PROVE  OpenBlocks(y) = OpenBlocks(x) \ S /\ (PlacesOK(x) => PlacesOK(y))
<1>1. DOMAIN x.blocks = 1 .. Len(x.blocks) /\ DOMAIN y.blocks = 1 .. Len(x.blocks)
  BY ContextBlocks DEF Closes
<1>2. OpenBlocks(y) = OpenBlocks(x) \ S
  BY <1>1 DEF OpenBlocks, Closes
<1>3. OpenText(y) \subseteq OpenText(x)
  BY <1>1, <1>2 DEF OpenText, OpenBlocks, Closes
<1>4. ASSUME PlacesOK(x) PROVE PlacesOK(y)
  <2>1. y.textAt \in 0 .. Len(y.blocks) /\ y.thinkAt \in 0 .. Len(y.blocks)
    BY <1>4 DEF PlacesOK, Closes, Apart
  <2>2. ASSUME y.textAt # 0 PROVE y.blocks[y.textAt].type = "text"
    <3>1. x.textAt \in 1 .. Len(x.blocks) /\ y.textAt = x.textAt /\ x.blocks[x.textAt].type = "text"
      BY <1>4, <2>2, ContextBlocks DEF PlacesOK, Apart
    <3> QED BY <3>1 DEF Closes
  <2>3. OpenText(y) \subseteq {y.textAt}
    BY <1>3, <1>4 DEF PlacesOK, Apart
  <2>4. ASSUME NEW t \in ToolId
        PROVE  /\ y.tools[t] \in 0 .. Len(y.blocks)
               /\ y.tools[t] # 0 => y.blocks[y.tools[t]].type = "tool_use"
    <3>1. /\ x.tools[t] \in 0 .. Len(x.blocks) /\ y.tools[t] = x.tools[t]
          /\ x.tools[t] # 0 => x.blocks[x.tools[t]].type = "tool_use"
      BY <1>4 DEF PlacesOK, Apart
    <3>2. x.tools[t] # 0 => x.tools[t] \in 1 .. Len(x.blocks)
      BY <3>1, ContextBlocks
    <3> QED BY <3>1, <3>2 DEF Closes
  <2> QED BY <2>1, <2>2, <2>3, <2>4 DEF PlacesOK
<1> QED BY <1>2, <1>4

LEMMA StoppedIs ==
    ASSUME NEW x \in Context, NEW S
    PROVE  /\ Stopped(x, S) \in Context /\ Apart(x, Stopped(x, S))
           /\ Stopped(x, S).out = x.out /\ Closes(x, Stopped(x, S), S)
<1> DEFINE s == [i \in 1 .. Len(x.blocks) |->
                    [type |-> x.blocks[i].type, stopped |-> x.blocks[i].stopped \/ i \in S]]
           y == [x EXCEPT !.blocks = s]
<1>1. Len(x.blocks) \in Nat /\ DOMAIN x.blocks = 1 .. Len(x.blocks)
      /\ \A i \in 1 .. Len(x.blocks) : x.blocks[i] \in BlockState
  BY ContextBlocks
<1>2. Stopped(x, S) = y
  BY <1>1 DEF Stopped
<1>3. s \in Seq(BlockState) /\ DOMAIN s = 1 .. Len(x.blocks)
  <2>1. \A i \in 1 .. Len(x.blocks) :
           [type |-> x.blocks[i].type, stopped |-> x.blocks[i].stopped \/ i \in S] \in BlockState
    BY <1>1 DEF BlockState
  <2> QED BY <1>1, <2>1
<1>4. Len(s) = Len(x.blocks)
  BY <1>1, <1>3
<1>5. \A i \in 1 .. Len(x.blocks) :
         s[i].type = x.blocks[i].type /\ s[i].stopped = (x.blocks[i].stopped \/ i \in S)
  OBVIOUS
<1> HIDE DEF s
<1>6. y \in Context /\ y.out = x.out /\ y.blocks = s
  BY <1>3 DEF Context
<1>7. Apart(x, y)
  BY DEF Context, Apart
<1> QED BY <1>2, <1>4, <1>5, <1>6, <1>7 DEF Closes

\* The view after a stop of blocks that were open mirrors the blocks that are stopped.
LEMMA MirrorsClosed ==
    ASSUME NEW x \in Context, NEW y \in Context, NEW w \in View, NEW item \in Item,
           NEW S \in SUBSET (1 .. Len(x.blocks)),
           item.ev = "stop", item.at = S, y.started, Closes(x, y, S),
           w.phase = "open", Len(w.blocks) = Len(x.blocks),
           \A i \in 1 .. Len(x.blocks) :
              /\ w.blocks[i].type = x.blocks[i].type
              /\ w.blocks[i].open = ~x.blocks[i].stopped
              /\ w.blocks[i].open /\ i \notin S => w.blocks[i].signatures = 0
    PROVE  Mirrors(After(w, item), y)
<1>1. /\ Len(After(w, item).blocks) = Len(w.blocks)
      /\ \A i \in 1 .. Len(w.blocks) : After(w, item).blocks[i] =
            IF i \in item.at THEN PartAfter(w.blocks[i], item) ELSE w.blocks[i]
  BY AfterBlocks
<1>2. After(w, item).phase = "open"
  BY DEF After, PhaseAfter
<1>3. ASSUME NEW i \in 1 .. Len(x.blocks)
      PROVE  /\ After(w, item).blocks[i].type = y.blocks[i].type
             /\ After(w, item).blocks[i].open = ~y.blocks[i].stopped
             /\ After(w, item).blocks[i].open => After(w, item).blocks[i].signatures = 0
  <2>1. /\ y.blocks[i].type = x.blocks[i].type
        /\ y.blocks[i].stopped = (x.blocks[i].stopped \/ i \in S)
    BY DEF Closes
  <2>2. CASE i \in S
    <3>1. After(w, item).blocks[i] = PartAfter(w.blocks[i], item)
      BY <1>1, <2>2
    <3>2. PartAfter(w.blocks[i], item).type = w.blocks[i].type
          /\ PartAfter(w.blocks[i], item).open = FALSE
      BY DEF PartAfter
    <3> QED BY <2>1, <2>2, <3>1, <3>2
  <2>3. CASE i \notin S
    <3>1. After(w, item).blocks[i] = w.blocks[i]
      BY <1>1, <2>3
    <3>2. y.blocks[i].stopped = x.blocks[i].stopped
      <4>1. x.blocks[i].stopped \in BOOLEAN
        BY ContextBlocks DEF BlockState
      <4> QED BY <2>1, <2>3, <4>1
    <3> QED BY <2>1, <2>3, <3>1, <3>2
  <2> QED BY <2>2, <2>3
<1> QED BY <1>1, <1>2, <1>3 DEF Mirrors, Closes

\* The stop of a set of open blocks.
LEMMA CloseTells ==
    ASSUME NEW v \in View, NEW x \in Writing(v), NEW S \in SUBSET OpenBlocks(x), S # {},
           NEW tag \in {"", "signed"}
    PROVE  /\ Emit(Stopped(x, S), "stop", S, tag, <<>>) \in Writing(v)
           /\ Apart(x, Emit(Stopped(x, S), "stop", S, tag, <<>>))
           /\ Closes(x, Emit(Stopped(x, S), "stop", S, tag, <<>>), S)
<1> DEFINE item == [ev |-> "stop", at |-> S, tag |-> tag, text |-> <<>>]
           z == Stopped(x, S)
           y == Emit(z, "stop", S, tag, <<>>)
<1>1. x \in Context /\ x.started /\ Told(v, x) /\ PlacesOK(x)
  BY DEF Writing
<1>2. S \in SUBSET (1 .. Len(x.blocks)) /\ S \in SUBSET Nat
  BY <1>1, ContextBlocks
<1>3. "stop" \in Event /\ tag \in Tag
  BY DEF Event, Tag
<1>4. z \in Context /\ Apart(x, z) /\ z.out = x.out /\ Closes(x, z, S)
  BY <1>1, StoppedIs
<1> HIDE DEF z
<1>5. item \in Item
  BY <1>2, <1>3, NoText, ItemIs
<1>6. y \in Context /\ Apart(z, y) /\ y.blocks = z.blocks /\ y.out = Append(x.out, item)
  <2>1. y \in Context /\ Apart(z, y) /\ y.blocks = z.blocks /\ y.out = Append(z.out, item)
    BY <1>2, <1>3, <1>4, NoText, EmitKeeps
  <2> QED BY <1>4, <2>1
<1>7. Apart(x, y) /\ Closes(x, y, S) /\ y.started
  <2>1. Apart(x, y)
    BY <1>4, <1>6, ApartTwice
  <2>2. y.started
    BY <1>1, <2>1 DEF Apart
  <2> QED BY <1>4, <1>6, <2>1, <2>2 DEF Closes
<1>8. item.ev = "stop" /\ item.at = S /\ item.tag = tag
  OBVIOUS
<1> HIDE DEF item, y
<1>9. ASSUME NEW w \in View, Mirrors(w, x) PROVE Legal(w, item) /\ Mirrors(After(w, item), y)
  <2>1. w.phase = "open"
    BY <1>1, <1>9 DEF Mirrors
  <2>2. OpenParts(w, BlockType) = OpenBlocks(x) /\ \A i \in OpenBlocks(x) : w.blocks[i].signatures = 0
    BY <1>1, <1>9, MirroredOpen
  <2>3. Legal(w, item)
    BY <1>8, <2>1, <2>2 DEF Legal
  <2>4. Mirrors(After(w, item), y)
    <3>1. Len(w.blocks) = Len(x.blocks) /\ \A i \in 1 .. Len(x.blocks) :
              /\ w.blocks[i].type = x.blocks[i].type
              /\ w.blocks[i].open = ~x.blocks[i].stopped
              /\ w.blocks[i].open => w.blocks[i].signatures = 0
      BY <1>9 DEF Mirrors
    <3> QED BY <1>1, <1>2, <1>5, <1>6, <1>7, <1>8, <2>1, <3>1, MirrorsClosed
  <2> QED BY <2>3, <2>4
<1>10. Told(v, y)
  BY <1>1, <1>5, <1>6, <1>9, TellsOne
<1>11. PlacesOK(y)
  BY <1>1, <1>6, <1>7, ClosesPlaces
<1> QED BY <1>6, <1>7, <1>10, <1>11 DEF Writing, y, z

\* The signature of an open thinking block, and its stop.
LEMMA SignTells ==
    ASSUME NEW v \in View, NEW x \in Writing(v), NEW tag \in {"given", "made", "empty"},
           x.thinkAt \in OpenBlocks(x), x.blocks[x.thinkAt].type = "thinking"
    PROVE  LET y == StopBlock(Emit(x, "signature", {x.thinkAt}, tag, <<>>), x.thinkAt)
           IN  y \in Writing(v) /\ Apart(x, y) /\ Closes(x, y, {x.thinkAt})
<1> DEFINE i == x.thinkAt
           one == [ev |-> "signature", at |-> {i}, tag |-> tag, text |-> <<>>]
           two == [ev |-> "stop", at |-> {i}, tag |-> "", text |-> <<>>]
           u == Emit(x, "signature", {i}, tag, <<>>)
           z == Stopped(u, {i})
           y == StopBlock(u, i)
<1>1. x \in Context /\ x.started /\ Told(v, x) /\ PlacesOK(x)
  BY DEF Writing
<1>2. i \in Nat /\ i \in 1 .. Len(x.blocks) /\ {i} \in SUBSET Nat
  BY <1>1, ContextBlocks
<1>3. {"signature", "stop"} \subseteq Event /\ tag \in Tag /\ "" \in Tag
  BY DEF Event, Tag
<1>4. one \in Item /\ two \in Item
  BY <1>2, <1>3, NoText, ItemIs
<1>5. u \in Context /\ Apart(x, u) /\ u.blocks = x.blocks /\ u.out = Append(x.out, one)
  BY <1>1, <1>2, <1>3, NoText, EmitKeeps
<1>6. OpenBlocks(u) = OpenBlocks(x)
  BY <1>5 DEF OpenBlocks
<1> HIDE DEF u
<1>7. z \in Context /\ Apart(u, z) /\ z.out = u.out /\ Closes(u, z, {i})
  BY <1>5, StoppedIs
<1> HIDE DEF z
<1>8. y = Emit(z, "stop", {i}, "", <<>>)
  <2>1. {i} \cap OpenBlocks(u) = {i} /\ {i} # {}
    BY <1>6
  <2> QED BY <2>1 DEF StopBlock, Stop, z
<1> HIDE DEF y
<1>9. y \in Context /\ Apart(z, y) /\ y.blocks = z.blocks /\ y.out = Append(Append(x.out, one), two)
  <2>1. y \in Context /\ Apart(z, y) /\ y.blocks = z.blocks /\ y.out = Append(z.out, two)
    BY <1>2, <1>3, <1>7, <1>8, NoText, EmitKeeps
  <2> QED BY <1>5, <1>7, <2>1
<1>10. Apart(x, y) /\ Closes(x, y, {i}) /\ y.started
  <2>1. Apart(x, y)
    BY <1>5, <1>7, <1>9, ApartTwice
  <2>2. y.started
    BY <1>1, <2>1 DEF Apart
  <2>3. Closes(x, y, {i})
    BY <1>5, <1>7, <1>9 DEF Closes
  <2> QED BY <2>1, <2>2, <2>3
<1>11. /\ one.ev = "signature" /\ one.at = {i}
       /\ two.ev = "stop" /\ two.at = {i} /\ two.tag = ""
  OBVIOUS
<1>12. x.blocks[i].type = "thinking" /\ i \in OpenBlocks(x)
  OBVIOUS
<1> HIDE DEF one, two, i
<1>13. ASSUME NEW w \in View, Mirrors(w, x)
       PROVE  /\ Legal(w, one)
              /\ After(w, one) \in View =>
                    Legal(After(w, one), two) /\ Mirrors(After(After(w, one), two), y)
  <2>1. Len(w.blocks) = Len(x.blocks) /\ w.phase = "open"
    BY <1>1, <1>13 DEF Mirrors
  <2>2. \A j \in 1 .. Len(x.blocks) :
              /\ w.blocks[j].type = x.blocks[j].type
              /\ w.blocks[j].open = ~x.blocks[j].stopped
              /\ w.blocks[j].open => w.blocks[j].signatures = 0
    BY <1>13 DEF Mirrors
  <2>3. i \in OpenParts(w, BlockType) /\ w.blocks[i].signatures = 0 /\ i \in DOMAIN w.blocks
    BY <1>1, <1>2, <1>12, <1>13, MirroredOpen
  <2>4. w.blocks[i].open /\ w.blocks[i].type = "thinking"
    BY <1>2, <1>12, <2>2, <2>3 DEF OpenParts
  <2>5. Legal(w, one)
    BY <1>11, <2>1, <2>3, <2>4 DEF Legal, Fills, OpenParts
  <2> SUFFICES ASSUME After(w, one) \in View
               PROVE  Legal(After(w, one), two) /\ Mirrors(After(After(w, one), two), y)
    BY <2>5
  <2>6. /\ Len(After(w, one).blocks) = Len(w.blocks)
        /\ \A j \in 1 .. Len(w.blocks) : After(w, one).blocks[j] =
              IF j \in one.at THEN PartAfter(w.blocks[j], one) ELSE w.blocks[j]
    BY <1>4, <1>11, AfterBlocks
  <2>7. After(w, one).phase = "open"
    BY <1>11, <2>1 DEF After, PhaseAfter
  <2>8. \A j \in 1 .. Len(w.blocks) :
           /\ After(w, one).blocks[j].type = w.blocks[j].type
           /\ After(w, one).blocks[j].open = w.blocks[j].open
           /\ j # i => After(w, one).blocks[j] = w.blocks[j]
    <3>1. ASSUME NEW part \in Part
          PROVE  PartAfter(part, one).type = part.type /\ PartAfter(part, one).open = part.open
      BY <1>11 DEF PartAfter, Part
    <3>2. \A j \in 1 .. Len(w.blocks) : w.blocks[j] \in Part
      BY DEF View
    <3> QED BY <1>11, <2>6, <3>1, <3>2
  <2> DEFINE w1 == After(w, one)
  <2>9. /\ w1 \in View /\ w1.phase = "open" /\ Len(w1.blocks) = Len(x.blocks)
        /\ \A j \in 1 .. Len(x.blocks) :
              /\ w1.blocks[j].type = x.blocks[j].type
              /\ w1.blocks[j].open = ~x.blocks[j].stopped
              /\ w1.blocks[j].open /\ j \notin {i} => w1.blocks[j].signatures = 0
    <3>1. w1 \in View /\ w1.phase = "open" /\ Len(w1.blocks) = Len(x.blocks)
      BY <2>1, <2>6, <2>7
    <3>2. \A j \in 1 .. Len(x.blocks) :
             /\ w1.blocks[j].type = w.blocks[j].type /\ w1.blocks[j].open = w.blocks[j].open
             /\ j # i => w1.blocks[j] = w.blocks[j]
      BY <2>1, <2>8
    <3> HIDE DEF w1
    <3>3. ASSUME NEW j \in 1 .. Len(x.blocks)
          PROVE  /\ w1.blocks[j].type = x.blocks[j].type
                 /\ w1.blocks[j].open = ~x.blocks[j].stopped
                 /\ w1.blocks[j].open /\ j \notin {i} => w1.blocks[j].signatures = 0
      BY <2>2, <3>2
    <3> QED BY <3>1, <3>3
  <2> HIDE DEF w1
  <2>10. Legal(w1, two)
    <3>1. i \in DOMAIN w1.blocks
      <4>1. w1.blocks \in Seq(Part)
        BY <2>9 DEF View
      <4> QED BY <1>2, <2>9, <4>1
    <3>2. w1.blocks[i].open /\ w1.blocks[i].type \in BlockType
      <4>1. ~x.blocks[i].stopped
        BY <1>12 DEF OpenBlocks
      <4> QED BY <1>2, <1>12, <2>9, <4>1 DEF BlockType
    <3>3. i \in OpenParts(w1, BlockType)
      BY <3>1, <3>2 DEF OpenParts
    <3> QED BY <1>11, <2>9, <3>3 DEF Legal
  <2>11. Mirrors(After(w1, two), y)
    <3>1. {i} \in SUBSET (1 .. Len(x.blocks))
      BY <1>2
    <3> QED BY <1>1, <1>4, <1>9, <1>10, <1>11, <2>9, <3>1, MirrorsClosed
  <2> QED BY <2>10, <2>11 DEF w1
<1>14. Told(v, y)
  BY <1>1, <1>4, <1>9, <1>13, TellsTwo
<1>15. PlacesOK(y)
  BY <1>1, <1>9, <1>10, ClosesPlaces
<1>16. y \in Writing(v)
  BY <1>9, <1>10, <1>14, <1>15 DEF Writing
<1> QED BY <1>10, <1>16 DEF y, u, i

\* y has the blocks of x and a new one of the type.
Grows(x, y, type) ==
    /\ Len(y.blocks) = Len(x.blocks) + 1
    /\ \A i \in 1 .. Len(x.blocks) : y.blocks[i] = x.blocks[i]
    /\ y.blocks[Len(x.blocks) + 1] = [type |-> type, stopped |-> FALSE]

LEMMA GrowsOpen ==
    ASSUME NEW x \in Context, NEW y \in Context, NEW type \in BlockType, Grows(x, y, type)
    PROVE  /\ OpenBlocks(y) = OpenBlocks(x) \cup {Len(x.blocks) + 1}
           /\ OpenText(y) = IF type = "text" THEN OpenText(x) \cup {Len(x.blocks) + 1}
                            ELSE OpenText(x)
           /\ Len(x.blocks) + 1 \in 1 .. Len(y.blocks)
           /\ y.blocks[Len(x.blocks) + 1].type = type
<1>1. /\ Len(x.blocks) \in Nat /\ DOMAIN x.blocks = 1 .. Len(x.blocks)
      /\ DOMAIN y.blocks = 1 .. Len(y.blocks)
  BY ContextBlocks
<1>2. DOMAIN y.blocks = DOMAIN x.blocks \cup {Len(x.blocks) + 1}
  BY <1>1 DEF Grows
<1>3. Len(x.blocks) + 1 \notin DOMAIN x.blocks
  BY <1>1
<1>4. /\ y.blocks[Len(x.blocks) + 1].type = type
      /\ y.blocks[Len(x.blocks) + 1].stopped = FALSE
  BY DEF Grows
<1>5. \A i \in DOMAIN x.blocks : y.blocks[i] = x.blocks[i]
  BY <1>1 DEF Grows
<1>6. OpenBlocks(y) = OpenBlocks(x) \cup {Len(x.blocks) + 1}
  BY <1>2, <1>3, <1>4, <1>5 DEF OpenBlocks
<1>7. OpenText(y) = IF type = "text" THEN OpenText(x) \cup {Len(x.blocks) + 1} ELSE OpenText(x)
  <2>1. OpenBlocks(x) \subseteq DOMAIN x.blocks
    BY DEF OpenBlocks
  <2> QED BY <1>3, <1>4, <1>5, <1>6, <2>1 DEF OpenText
<1> QED BY <1>1, <1>4, <1>6, <1>7 DEF Grows

\* A block is started for what y is about to fill.
LEMMA StartPlaced ==
    ASSUME NEW v \in View, NEW x \in Writing(v), NEW y \in Context, NEW type \in BlockType,
           y.out = x.out, y.blocks = x.blocks, y.started = x.started,
           type # "thinking" => OpenText(x) = {},
           y.textAt = IF type = "text" THEN Len(x.blocks) + 1 ELSE x.textAt,
           y.thinkAt = IF type = "thinking" THEN Len(x.blocks) + 1 ELSE x.thinkAt,
           \A t \in ToolId : \/ y.tools[t] = x.tools[t]
                             \/ type = "tool_use" /\ y.tools[t] = Len(x.blocks) + 1
    PROVE  /\ StartBlock(y, type) \in Writing(v) /\ Apart(y, StartBlock(y, type))
           /\ Grows(x, StartBlock(y, type), type)
<1> DEFINE z == StartBlock(y, type)
           n == Len(x.blocks)
<1>1. x \in Context /\ x.started /\ Told(v, x) /\ PlacesOK(x)
  BY DEF Writing
<1>2. Told(v, y) /\ OpenText(y) = OpenText(x)
  <2>1. Told(v, y)
    BY <1>1, Silent
  <2> QED BY <2>1 DEF OpenText, OpenBlocks
<1>3. z \in Context /\ Told(v, z)
      /\ z = [y EXCEPT !.blocks = Append(y.blocks, [type |-> type, stopped |-> FALSE]),
                       !.out = z.out]
  <2>1. y.started /\ (type # "thinking" => OpenText(y) = {})
    BY <1>1, <1>2
  <2> QED BY <1>2, <2>1, StartBlockTells
<1>4. z.blocks = Append(x.blocks, [type |-> type, stopped |-> FALSE])
  BY <1>3 DEF Context
<1>5. Apart(y, z)
  <2> HIDE DEF z
  <2> QED BY <1>3 DEF Context, Apart
<1> HIDE DEF z
<1>6. Grows(x, z, type)
  <2>1. x.blocks \in Seq(BlockState) /\ [type |-> type, stopped |-> FALSE] \in BlockState
    BY <1>1 DEF Context, BlockState
  <2> QED BY <1>4, <2>1, Appended DEF Grows
<1>7. /\ OpenText(z) = IF type = "text" THEN OpenText(x) \cup {n + 1} ELSE OpenText(x)
      /\ n + 1 \in 1 .. Len(z.blocks) /\ z.blocks[n + 1].type = type
      /\ Len(z.blocks) = n + 1 /\ n \in Nat
      /\ \A i \in 1 .. n : z.blocks[i] = x.blocks[i]
  BY <1>1, <1>3, <1>6, GrowsOpen, ContextBlocks DEF Grows
<1>8. PlacesOK(z)
  <2>1. /\ x.textAt \in 0 .. n /\ x.thinkAt \in 0 .. n
        /\ x.textAt # 0 => x.blocks[x.textAt].type = "text"
        /\ OpenText(x) \subseteq {x.textAt}
    BY <1>1 DEF PlacesOK
  <2>2. z.textAt = y.textAt /\ z.thinkAt = y.thinkAt /\ z.tools = y.tools
    BY <1>5 DEF Apart
  <2>3. z.textAt \in 0 .. Len(z.blocks) /\ z.thinkAt \in 0 .. Len(z.blocks)
    BY <1>7, <2>1, <2>2
  <2>4. z.textAt # 0 => z.blocks[z.textAt].type = "text"
    BY <1>7, <2>1, <2>2
  <2>5. OpenText(z) \subseteq {z.textAt}
    BY <1>7, <2>1, <2>2
  <2>6. ASSUME NEW t \in ToolId
        PROVE  /\ z.tools[t] \in 0 .. Len(z.blocks)
               /\ z.tools[t] # 0 => z.blocks[z.tools[t]].type = "tool_use"
    <3>1. x.tools[t] \in 0 .. n /\ (x.tools[t] # 0 => x.blocks[x.tools[t]].type = "tool_use")
      BY <1>1 DEF PlacesOK
    <3>2. z.tools[t] = x.tools[t] \/ (type = "tool_use" /\ z.tools[t] = n + 1)
      BY <2>2
    <3> QED BY <1>7, <3>1, <3>2
  <2> QED BY <2>3, <2>4, <2>5, <2>6 DEF PlacesOK
<1>9. z.started
  BY <1>1, <1>5 DEF Apart
<1> QED BY <1>3, <1>5, <1>6, <1>8, <1>9 DEF Writing, z

-----------------------------------------------------------------------------
(* Text and tools leave what is being thought alone.                       *)

Beside(x, y) ==
    /\ y.thinking = x.thinking /\ y.inside = x.inside /\ y.reasoning = x.reasoning
    /\ y.native = x.native /\ y.thinkAt = x.thinkAt /\ y.failure = x.failure
    /\ \A i \in OpenBlocks(x) : x.blocks[i].type = "thinking" =>
          i \in OpenBlocks(y) /\ y.blocks[i].type = "thinking"

Steady(v) == {x \in Writing(v) : ThinkingOK(x)}

LEMMA BesideSelf ==
    ASSUME NEW x, NEW y, y.blocks = x.blocks,
           y.thinking = x.thinking, y.inside = x.inside, y.reasoning = x.reasoning,
           y.native = x.native, y.thinkAt = x.thinkAt, y.failure = x.failure
    PROVE  Beside(x, y)
BY DEF Beside, OpenBlocks

LEMMA BesideTwice ==
    ASSUME NEW x, NEW y, NEW z, Beside(x, y), Beside(y, z)
    PROVE  Beside(x, z)
BY DEF Beside

LEMMA BesideSteady ==
    ASSUME NEW v, NEW x \in Steady(v), NEW y \in Writing(v), Beside(x, y)
    PROVE  y \in Steady(v)
<1>1. ThinkingOK(x)
  BY DEF Steady
<1>2. ThinkingOK(y)
  BY <1>1 DEF ThinkingOK, Beside
<1> QED BY <1>2 DEF Steady

LEMMA BesideClosing ==
    ASSUME NEW x \in Context, NEW y \in Context, NEW S, Apart(x, y), Closes(x, y, S),
           \A i \in S \cap OpenBlocks(x) : x.blocks[i].type # "thinking"
    PROVE  Beside(x, y)
<1>1. OpenBlocks(y) = OpenBlocks(x) \ S /\ OpenBlocks(x) \subseteq 1 .. Len(x.blocks)
  BY ClosesPlaces, ContextBlocks
<1>2. ASSUME NEW i \in OpenBlocks(x), x.blocks[i].type = "thinking"
      PROVE  i \in OpenBlocks(y) /\ y.blocks[i].type = "thinking"
  BY <1>1, <1>2 DEF Closes
<1> QED BY <1>2 DEF Beside, Apart

\* Stopping open blocks that are not thinking, or none.
LEMMA StopKeeps ==
    ASSUME NEW v \in View, NEW x \in Writing(v), NEW S \in SUBSET OpenBlocks(x),
           \A i \in S : x.blocks[i].type # "thinking"
    PROVE  /\ Stop(x, S) \in Writing(v) /\ Beside(x, Stop(x, S)) /\ Apart(x, Stop(x, S))
           /\ OpenBlocks(Stop(x, S)) = OpenBlocks(x) \ S
           /\ OpenText(Stop(x, S)) \subseteq OpenText(x) \ S
<1>1. x \in Context
  BY DEF Writing
<1>2. CASE S = {}
  BY <1>2, BesideSelf DEF Stop, Apart
<1>3. CASE S # {}
  <2> DEFINE y == Stop(x, S)
  <2>1. y = Emit(Stopped(x, S), "stop", S, "", <<>>)
    BY <1>3 DEF Stop
  <2>2. y \in Writing(v) /\ Apart(x, y) /\ Closes(x, y, S)
    BY <1>3, <2>1, CloseTells
  <2> HIDE DEF y
  <2>3. y \in Context
    BY <2>2 DEF Writing
  <2>4. Beside(x, y)
    BY <1>1, <2>2, <2>3, BesideClosing
  <2>5. OpenBlocks(y) = OpenBlocks(x) \ S
    BY <1>1, <2>2, <2>3, ClosesPlaces
  <2>6. OpenText(y) \subseteq OpenText(x) \ S
    <3>1. OpenBlocks(x) \subseteq 1 .. Len(x.blocks)
      BY <1>1, ContextBlocks
    <3>2. \A i \in OpenBlocks(x) : y.blocks[i].type = x.blocks[i].type
      BY <2>2, <3>1 DEF Closes
    <3> QED BY <2>5, <3>2 DEF OpenText
  <2> QED BY <2>2, <2>4, <2>5, <2>6 DEF y
<1> QED BY <1>2, <1>3

\* A context with one or more quiet fields changed.
LEMMA TextDeltaKeeps ==
    ASSUME NEW v \in View, NEW x \in Writing(v), NEW text \in Seq(Char)
    PROVE  TextDelta(x, text) \in Writing(v) /\ Beside(x, TextDelta(x, text))
<1>1. x \in Context /\ PlacesOK(x)
  BY DEF Writing
<1>2. ASSUME NEW y \in Writing(v), NEW i, i \in OpenBlocks(y) => y.blocks[i].type = "text"
      PROVE  Delta(y, i, "text", text) \in Writing(v) /\ Beside(y, Delta(y, i, "text", text))
  <2>1. CASE i \in OpenBlocks(y)
    <3> DEFINE z == Emit(y, "text", {i}, "", text)
    <3>1. z \in Writing(v) /\ Apart(y, z) /\ z.blocks = y.blocks
      BY <1>2, <2>1, Fill DEF Takes
    <3> HIDE DEF z
    <3>2. Beside(y, z)
      BY <3>1, BesideSelf DEF Apart
    <3>3. Delta(y, i, "text", text) = z
      BY <2>1 DEF Delta, z
    <3> QED BY <3>1, <3>2, <3>3
  <2>2. CASE i \notin OpenBlocks(y)
    BY <2>2, BesideSelf DEF Delta
  <2> QED BY <2>1, <2>2
<1>3. CASE x.textAt \in OpenText(x)
  BY <1>2, <1>3 DEF TextDelta, TextDeltaTo, OpenText
<1>4. CASE x.textAt \notin OpenText(x)
  <2> DEFINE y == [x EXCEPT !.textAt = Len(x.blocks) + 1]
             z == StartBlock(y, "text")
  <2>1. y \in Context
    <3>1. Len(x.blocks) + 1 \in Nat
      BY <1>1, ContextBlocks
    <3> QED BY <1>1, <3>1 DEF Context
  <2>2. /\ y.out = x.out /\ y.blocks = x.blocks /\ y.started = x.started
        /\ y.textAt = Len(x.blocks) + 1 /\ y.thinkAt = x.thinkAt /\ y.tools = x.tools
        /\ y.thinking = x.thinking /\ y.inside = x.inside /\ y.reasoning = x.reasoning
        /\ y.native = x.native /\ y.failure = x.failure
    BY <1>1 DEF Context
  <2>3. OpenText(x) = {}
    BY <1>1, <1>4 DEF PlacesOK
  <2> HIDE DEF y
  <2>4. z \in Writing(v) /\ Apart(y, z) /\ Grows(x, z, "text")
    <3>1. "text" \in BlockType /\ "text" # "thinking"
      BY DEF BlockType
    <3> QED BY <2>1, <2>2, <2>3, <3>1, StartPlaced
  <2> HIDE DEF z
  <2>5. Beside(x, z)
    <3>1. z \in Context /\ "text" \in BlockType
      BY <2>4 DEF Writing, BlockType
    <3>2. OpenBlocks(z) = OpenBlocks(x) \cup {Len(x.blocks) + 1} /\ OpenBlocks(x) \subseteq 1 .. Len(x.blocks)
      BY <1>1, <2>4, <3>1, GrowsOpen, ContextBlocks
    <3>3. \A i \in OpenBlocks(x) : i \in OpenBlocks(z) /\ z.blocks[i] = x.blocks[i]
      BY <2>4, <3>2 DEF Grows
    <3> QED BY <2>2, <2>4, <3>3 DEF Beside, Apart
  <2>6. TextDelta(x, text) = Delta(z, z.textAt, "text", text)
    BY <1>4 DEF TextDelta, TextDeltaTo, y, z
  <2>7. z.blocks[z.textAt].type = "text"
    BY <2>2, <2>4 DEF Grows, Apart
  <2> QED BY <1>2, <2>4, <2>5, <2>6, <2>7, BesideTwice
<1> QED BY <1>3, <1>4

-----------------------------------------------------------------------------
(* Texts and the tags in them.                                             *)

LEMMA Found ==
    ASSUME NEW n \in Nat, NEW T \in SUBSET (1 .. n)
    PROVE  Least(T) \in 0 .. n
<1>1. CASE T = {}
  BY <1>1 DEF Least
<1>2. CASE T # {}
  <2>1. PICK m \in T : \A k \in T : m <= k
    <3>1. T \in SUBSET Nat
      OBVIOUS
    <3> QED BY <1>2, <3>1, LeastNat
  <2>2. Least(T) \in T
    BY <1>2, <2>1 DEF Least
  <2>3. Least(T) \in 1 .. n
    BY <2>2
  <2> HIDE DEF Least
  <2> QED BY <2>3
<1> QED BY <1>1, <1>2

LEMMA Positions ==
    ASSUME NEW s \in Seq(Char)
    PROVE  /\ StartTag(s) \in Nat /\ EndTag(s) \in Nat /\ EndTagAtBufferEnd(s) \in Nat
           /\ Least({i \in DOMAIN s : s[i] \notin White}) \in Nat
           /\ StartTag(s) <= Len(s) /\ EndTag(s) <= Len(s) /\ EndTagAtBufferEnd(s) <= Len(s)
<1>1. Len(s) \in Nat /\ DOMAIN s = 1 .. Len(s)
  OBVIOUS
<1>2. ASSUME NEW T \in SUBSET (1 .. Len(s) - 1)
      PROVE  Least(T) \in Nat /\ Least(T) <= Len(s)
  <2>1. T \in SUBSET (1 .. Len(s))
    BY <1>1
  <2>2. Least(T) \in 0 .. Len(s)
    BY <1>1, <2>1, Found
  <2> QED BY <1>1, <2>2
<1>3. StartTag(s) \in Nat /\ StartTag(s) <= Len(s)
  BY <1>2 DEF StartTag
<1>4. EndTag(s) \in Nat /\ EndTag(s) <= Len(s)
  BY <1>2 DEF EndTag
<1>5. EndTagAtBufferEnd(s) \in Nat /\ EndTagAtBufferEnd(s) <= Len(s)
  BY <1>2 DEF EndTagAtBufferEnd
<1>6. Least({i \in DOMAIN s : s[i] \notin White}) \in Nat
  <2>1. {i \in DOMAIN s : s[i] \notin White} \in SUBSET (1 .. Len(s))
    BY <1>1
  <2>2. Least({i \in DOMAIN s : s[i] \notin White}) \in 0 .. Len(s)
    BY <1>1, <2>1, Found
  <2> QED BY <1>1, <2>2
<1> QED BY <1>3, <1>4, <1>5, <1>6

LEMMA Pieces ==
    ASSUME NEW s \in Seq(Char)
    PROVE  /\ \A p \in Nat : p # 0 => From(s, p) \in Seq(Char)
           /\ \A p \in Nat : p <= Len(s) => SubSeq(s, 1, p - 1) \in Seq(Char)
           /\ \A k \in Nat : Releasable(s, k) \in Seq(Char)
           /\ StripNewline(s) \in Seq(Char) /\ TrimStart(s) \in Seq(Char)
<1>1. Len(s) \in Nat /\ DOMAIN s = 1 .. Len(s) /\ \A i \in 1 .. Len(s) : s[i] \in Char
  OBVIOUS
<1>2. ASSUME NEW m \in Nat \ {0}, NEW n \in Int, n <= Len(s) PROVE SubSeq(s, m, n) \in Seq(Char)
  <2>1. CASE m <= n
    BY <1>1, <1>2, <2>1, SubSeqProperties
  <2>2. CASE n < m
    BY <1>1, <1>2, <2>2, SubSeqProperties
  <2> QED BY <2>1, <2>2
<1>3. \A p \in Nat : p # 0 => From(s, p) \in Seq(Char)
  BY <1>1, <1>2 DEF From
<1>4. \A p \in Nat : p <= Len(s) => SubSeq(s, 1, p - 1) \in Seq(Char)
  BY <1>1, <1>2
<1>5. \A k \in Nat : Releasable(s, k) \in Seq(Char)
  BY <1>1, <1>2 DEF Releasable
<1>6. StripNewline(s) \in Seq(Char)
  BY HeadTailProperties DEF StripNewline
<1>7. TrimStart(s) \in Seq(Char)
  <2> DEFINE p == Least({i \in DOMAIN s : s[i] \notin White})
  <2>1. p \in Nat /\ TrimStart(s) = IF p = 0 THEN <<>> ELSE From(s, p)
    BY Positions DEF TrimStart
  <2> HIDE DEF p
  <2> QED BY <1>3, <2>1, NoText
<1> QED BY <1>3, <1>4, <1>5, <1>6, <1>7

-----------------------------------------------------------------------------
(* Thinking: how a block of it starts, fills and closes.                   *)

LEMMA SteadyIs ==
    ASSUME NEW v, NEW x \in Steady(v)
    PROVE  /\ x \in Writing(v) /\ x \in Context /\ ThinkingOK(x) /\ PlacesOK(x)
           /\ x.started /\ x.buffer \in Seq(Char) /\ Told(v, x)
BY DEF Steady, Writing, Context

LEMMA QuietSteady ==
    ASSUME NEW v \in View, NEW x \in Steady(v), NEW y \in Context,
           y.out = x.out, y.blocks = x.blocks, y.started = x.started,
           y.textAt = x.textAt, y.thinkAt = x.thinkAt, y.tools = x.tools,
           y.inside => x.inside \/ x.reasoning, y.reasoning => x.inside \/ x.reasoning,
           y.native => ~y.inside, y.reasoning => y.native
    PROVE  y \in Steady(v)
<1>1. y \in Writing(v)
  BY SteadyIs, Quiet
<1>2. ThinkingOK(x)
  BY SteadyIs
<1>3. ThinkingOK(y)
  BY <1>2 DEF ThinkingOK, OpenBlocks
<1> QED BY <1>1, <1>3 DEF Steady

LEMMA TextDeltaSteady ==
    ASSUME NEW v \in View, NEW x \in Steady(v), NEW text \in Seq(Char)
    PROVE  TextDelta(x, text) \in Steady(v) /\ Beside(x, TextDelta(x, text))
BY SteadyIs, TextDeltaKeeps, BesideSteady

LEMMA StartThinking ==
    ASSUME NEW v \in View, NEW x \in Writing(v), NEW y \in Context,
           y.out = x.out, y.blocks = x.blocks, y.started = x.started,
           y.textAt = x.textAt, y.tools = x.tools, y.thinkAt = Len(x.blocks) + 1,
           y.native => ~y.inside, y.reasoning => y.native
    PROVE  StartBlock(y, "thinking") \in Steady(v) /\ Apart(y, StartBlock(y, "thinking"))
<1> DEFINE z == StartBlock(y, "thinking")
<1>1. "thinking" \in BlockType /\ "thinking" # "text" /\ "thinking" # "tool_use"
  BY DEF BlockType
<1>2. z \in Writing(v) /\ Apart(y, z) /\ Grows(x, z, "thinking")
  BY <1>1, StartPlaced
<1> HIDE DEF z
<1>3. z \in Context /\ x \in Context
  BY <1>2 DEF Writing
<1>4. z.thinkAt \in OpenBlocks(z) /\ z.blocks[z.thinkAt].type = "thinking"
  <2>1. z.thinkAt = Len(x.blocks) + 1
    BY <1>2 DEF Apart
  <2> QED BY <1>1, <1>2, <1>3, <2>1, GrowsOpen
<1>5. ThinkingOK(z)
  BY <1>2, <1>4 DEF ThinkingOK, Apart
<1> QED BY <1>2, <1>5 DEF Steady, z

LEMMA ThinkingDeltaKeeps ==
    ASSUME NEW v \in View, NEW x \in Steady(v), x.inside \/ x.reasoning, NEW text \in Seq(Char)
    PROVE  /\ ThinkingDelta(x, text) \in Steady(v) /\ Apart(x, ThinkingDelta(x, text))
           /\ ThinkingDelta(x, text).blocks = x.blocks
<1> DEFINE z == ThinkingDelta(x, text)
<1>1. /\ x.thinkAt \in OpenBlocks(x) /\ ThinkingOK(x) /\ x \in Writing(v)
      /\ x.blocks[x.thinkAt].type = "thinking"
  BY SteadyIs DEF ThinkingOK
<1>2. z \in Writing(v) /\ Apart(x, z) /\ z.blocks = x.blocks
  <2>1. "thinking" \in {"text", "thinking", "json"} /\ x.blocks[x.thinkAt].type = Takes("thinking")
    BY <1>1 DEF Takes
  <2>2. /\ Emit(x, "thinking", {x.thinkAt}, "", text) \in Writing(v)
        /\ Apart(x, Emit(x, "thinking", {x.thinkAt}, "", text))
        /\ Emit(x, "thinking", {x.thinkAt}, "", text).blocks = x.blocks
    <3> HIDE DEF z
    <3>1. x.thinkAt \in OpenBlocks(x) /\ x \in Writing(v)
      BY <1>1
    <3> QED BY <2>1, <3>1, Fill
  <2> QED BY <2>2 DEF ThinkingDelta
<1> HIDE DEF z
<1>3. ThinkingOK(z)
  BY <1>1, <1>2 DEF ThinkingOK, Apart, OpenBlocks
<1> QED BY <1>2, <1>3 DEF Steady, z

LEMMA SomeThinkingKeeps ==
    ASSUME NEW v \in View, NEW x \in Steady(v), x.inside, NEW text \in Seq(Char)
    PROVE  SomeThinking(x, text) \in Steady(v) /\ Apart(x, SomeThinking(x, text))
<1>1. Apart(x, x)
  BY DEF Apart
<1> QED BY <1>1, ThinkingDeltaKeeps DEF SomeThinking

\* The end of a block of thinking that came in tags.
LEMMA CloseFakeKeeps ==
    ASSUME NEW v \in View, NEW x \in Steady(v), x.inside
    PROVE  /\ CloseFakeThinking(x) \in Writing(v) /\ Apart(x, CloseFakeThinking(x))
           /\ ~CloseFakeThinking(x).reasoning
<1> DEFINE z == CloseFakeThinking(x)
<1>1. /\ x \in Writing(v) /\ x.thinkAt \in OpenBlocks(x) /\ x.blocks[x.thinkAt].type = "thinking"
      /\ ~x.reasoning
  BY SteadyIs DEF ThinkingOK
<1>2. z \in Writing(v) /\ Apart(x, z)
  <2>1. (IF x.signature THEN "given" ELSE "made") \in {"given", "made", "empty"}
    OBVIOUS
  <2> QED BY <1>1, <2>1, SignTells DEF CloseFakeThinking
<1> HIDE DEF z
<1>3. ~z.reasoning
  BY <1>1, <1>2 DEF Apart
<1> QED BY <1>2, <1>3 DEF z

\* The context after the end of thinking in tags, whatever is left in the buffer.
LEMMA ThoughtOut ==
    ASSUME NEW v \in View, NEW x \in Writing(v), ~x.reasoning, NEW y \in Context,
           y.out = x.out, y.blocks = x.blocks, y.started = x.started,
           y.textAt = x.textAt, y.thinkAt = x.thinkAt, y.tools = x.tools,
           ~y.inside, ~y.reasoning
    PROVE  y \in Steady(v)
<1>1. y \in Writing(v)
  BY Quiet
<1>2. ThinkingOK(y)
  BY DEF ThinkingOK
<1> QED BY <1>1, <1>2 DEF Steady

LEMMA CloseReasoningKeeps ==
    ASSUME NEW v \in View, NEW x \in Steady(v)
    PROVE  /\ CloseReasoning(x) \in Steady(v) /\ ~CloseReasoning(x).reasoning
           /\ CloseReasoning(x).thinking = x.thinking /\ CloseReasoning(x).native = x.native
           /\ CloseReasoning(x).failure = x.failure /\ CloseReasoning(x).inside = x.inside
<1>1. CASE ~x.reasoning
  BY <1>1 DEF CloseReasoning
<1>2. CASE x.reasoning
  <2> DEFINE tag == IF x.signature THEN "given" ELSE "empty"
             z == StopBlock(Emit(x, "signature", {x.thinkAt}, tag, <<>>), x.thinkAt)
             y == [z EXCEPT !.reasoning = FALSE, !.signature = FALSE]
  <2>1. /\ x \in Writing(v) /\ x.thinkAt \in OpenBlocks(x) /\ x.blocks[x.thinkAt].type = "thinking"
        /\ ~x.inside
    BY <1>2, SteadyIs DEF ThinkingOK
  <2>2. tag \in {"given", "made", "empty"}
    OBVIOUS
  <2>3. CloseReasoning(x) = y
    <3>1. Emit(x, "signature", {x.thinkAt}, tag, <<>>).thinkAt = x.thinkAt
      BY SteadyIs DEF Emit, Context
    <3> QED BY <1>2, <3>1 DEF CloseReasoning
  <2> HIDE DEF tag
  <2>4. z \in Writing(v) /\ Apart(x, z)
    BY <2>1, <2>2, SignTells
  <2> HIDE DEF z
  <2>5. z \in Context
    BY <2>4 DEF Writing
  <2>6. /\ y \in Context /\ y.out = z.out /\ y.blocks = z.blocks /\ y.started = z.started
        /\ y.textAt = z.textAt /\ y.thinkAt = z.thinkAt /\ y.tools = z.tools
        /\ y.inside = z.inside /\ ~y.reasoning /\ y.thinking = z.thinking
        /\ y.native = z.native /\ y.failure = z.failure
    BY <2>5 DEF Context
  <2> HIDE DEF y
  <2>7. y \in Writing(v)
    BY <2>4, <2>6, Quiet
  <2>8. ~y.inside
    BY <2>1, <2>4, <2>6 DEF Apart
  <2>9. ThinkingOK(y)
    BY <2>6, <2>8 DEF ThinkingOK
  <2> QED BY <2>3, <2>4, <2>6, <2>7, <2>9 DEF Steady, Apart
<1> QED BY <1>1, <1>2

-----------------------------------------------------------------------------
(* The scan for the tags of thinking.                                      *)

LEMMA BeforeTagKeeps ==
    ASSUME NEW v \in View, NEW x \in Steady(v), ~x.native
    PROVE  BeforeTag(x) \in Steady(v)
<1> DEFINE p == StartTag(x.buffer)
           before == SubSeq(x.buffer, 1, p - 1)
           safe == Releasable(x.buffer, Len(OpenTag))
           y == IF Blank(before) THEN x ELSE TextDelta(x, before)
           u == [y EXCEPT !.inside = TRUE, !.strip = TRUE, !.buffer = From(y.buffer, p + 2),
                          !.thinkAt = Len(y.blocks) + 1]
           rest == [x EXCEPT !.buffer = From(x.buffer, Len(safe) + 1)]
<1>1. x.buffer \in Seq(Char) /\ x \in Context
  BY SteadyIs
<1>2. p \in Nat /\ before \in Seq(Char) /\ safe \in Seq(Char) /\ Len(safe) + 1 \in Nat \ {0}
  <2>1. p \in Nat /\ p <= Len(x.buffer)
    BY <1>1, Positions
  <2>2. before \in Seq(Char)
    BY <1>1, <2>1, Pieces
  <2>3. Len(OpenTag) \in Nat
    BY DEF OpenTag
  <2>4. safe \in Seq(Char)
    BY <1>1, <2>3, Pieces
  <2> HIDE DEF safe
  <2>5. Len(safe) + 1 \in Nat \ {0}
    BY <2>4
  <2> QED BY <2>1, <2>2, <2>4, <2>5
<1> HIDE DEF p, before, safe
<1>3. BeforeTag(x) = IF x.inside \/ x.extracted THEN x
                     ELSE IF p # 0 THEN StartBlock(u, "thinking")
                     ELSE IF Blank(safe) THEN x ELSE TextDelta(rest, safe)
  BY DEF BeforeTag, p, before, safe
<1>4. StartBlock(u, "thinking") \in Steady(v)
  <2>1. y \in Steady(v) /\ ~y.native
    <3>1. CASE Blank(before)
      BY <3>1
    <3>2. CASE ~Blank(before)
      <4>1. TextDelta(x, before) \in Steady(v) /\ Beside(x, TextDelta(x, before))
        BY <1>2, TextDeltaSteady
      <4> QED BY <3>2, <4>1 DEF Beside
    <3> QED BY <3>1, <3>2
  <2> HIDE DEF y
  <2>2. y \in Context /\ y \in Writing(v) /\ y.buffer \in Seq(Char) /\ ThinkingOK(y)
    BY <2>1, SteadyIs
  <2>3. From(y.buffer, p + 2) \in Seq(Char)
    <3>1. p + 2 \in Nat /\ p + 2 # 0
      BY <1>2
    <3> QED BY <2>2, <3>1, Pieces
  <2>4. Len(y.blocks) + 1 \in Nat
    BY <2>2, ContextBlocks
  <2> DEFINE b == From(y.buffer, p + 2)
             m == Len(y.blocks) + 1
             t == [y EXCEPT !.inside = TRUE, !.strip = TRUE, !.buffer = b, !.thinkAt = m]
  <2>5. u = t
    OBVIOUS
  <2>6. b \in Seq(Char) /\ m \in Nat
    BY <2>3, <2>4
  <2> HIDE DEF b, u
  <2>7. t.thinkAt = m
    BY <2>2 DEF Context
  <2> HIDE DEF m
  <2>8. /\ t \in Context /\ t.out = y.out /\ t.blocks = y.blocks /\ t.started = y.started
        /\ t.textAt = y.textAt /\ t.tools = y.tools /\ t.native = y.native
        /\ t.reasoning = y.reasoning
    BY <2>2, <2>6 DEF Context
  <2> HIDE DEF t
  <2>9. ~t.native /\ (t.reasoning => t.native)
    BY <2>1, <2>2, <2>8 DEF ThinkingOK
  <2> QED BY <2>2, <2>5, <2>7, <2>8, <2>9, StartThinking DEF m
<1>5. TextDelta(rest, safe) \in Steady(v)
  <2>1. From(x.buffer, Len(safe) + 1) \in Seq(Char)
    BY <1>1, <1>2, Pieces
  <2> DEFINE b == From(x.buffer, Len(safe) + 1)
  <2> HIDE DEF b
  <2>2. b \in Seq(Char) /\ rest = [x EXCEPT !.buffer = b]
    BY <2>1 DEF b
  <2> HIDE DEF rest
  <2>3. /\ rest \in Context /\ rest.out = x.out /\ rest.blocks = x.blocks
        /\ rest.started = x.started /\ rest.textAt = x.textAt /\ rest.thinkAt = x.thinkAt
        /\ rest.tools = x.tools /\ rest.inside = x.inside /\ rest.reasoning = x.reasoning
        /\ rest.native = x.native
    BY <1>1, <2>2 DEF Context
  <2>4. rest \in Steady(v)
    BY <2>3, QuietSteady, SteadyIs DEF ThinkingOK
  <2> QED BY <1>2, <2>4, TextDeltaSteady
<1> QED BY <1>3, <1>4, <1>5

LEMMA InsideTagKeeps ==
    ASSUME NEW v \in View, NEW x \in Steady(v)
    PROVE  InsideTag(x) \in Steady(v)
<1> DEFINE b == IF x.strip THEN StripNewline(x.buffer) ELSE x.buffer
           s == x.strip /\ x.buffer = <<>>
           y == [x EXCEPT !.buffer = b, !.strip = s]
           p == EndTag(b)
           safe == Releasable(b, Len(CloseTag) + 2)
           c == SomeThinking(y, SubSeq(b, 1, p - 1))
           d == CloseFakeThinking(c)
           z == [d EXCEPT !.inside = FALSE, !.extracted = TRUE, !.buffer = From(d.buffer, p + 4)]
           r == [y EXCEPT !.buffer = From(y.buffer, Len(safe) + 1)]
<1>1. x.buffer \in Seq(Char) /\ x \in Context /\ ThinkingOK(x)
  BY SteadyIs
<1>2. b \in Seq(Char) /\ s \in BOOLEAN
  BY <1>1, Pieces
<1> HIDE DEF b, s
<1>3. /\ p \in Nat /\ SubSeq(b, 1, p - 1) \in Seq(Char)
      /\ safe \in Seq(Char) /\ Len(safe) + 1 \in Nat \ {0}
  <2>1. p \in Nat /\ p <= Len(b)
    BY <1>2, Positions
  <2>2. SubSeq(b, 1, p - 1) \in Seq(Char)
    BY <1>2, <2>1, Pieces
  <2>3. Len(CloseTag) + 2 \in Nat
    BY DEF CloseTag
  <2>4. safe \in Seq(Char)
    BY <1>2, <2>3, Pieces
  <2> HIDE DEF safe
  <2>5. Len(safe) + 1 \in Nat \ {0}
    BY <2>4
  <2> QED BY <2>1, <2>2, <2>4, <2>5
<1>4. InsideTag(x) = IF ~x.inside THEN x ELSE IF p # 0 THEN z ELSE SomeThinking(r, safe)
  BY DEF InsideTag, InsideTagHolding, b, s
<1> HIDE DEF p, safe
<1>5. /\ y \in Context /\ y.out = x.out /\ y.blocks = x.blocks
      /\ y.started = x.started /\ y.textAt = x.textAt /\ y.thinkAt = x.thinkAt
      /\ y.tools = x.tools /\ y.inside = x.inside /\ y.reasoning = x.reasoning
      /\ y.native = x.native /\ y.buffer = b
  BY <1>1, <1>2 DEF Context
<1> HIDE DEF y
<1>6. y \in Steady(v)
  BY <1>1, <1>5, QuietSteady DEF ThinkingOK
<1>7. ASSUME x.inside PROVE z \in Steady(v)
  <2>1. c \in Steady(v) /\ c.inside
    BY <1>3, <1>5, <1>6, <1>7, SomeThinkingKeeps DEF Apart
  <2> HIDE DEF c
  <2>2. d \in Writing(v) /\ ~d.reasoning
    BY <2>1, CloseFakeKeeps
  <2> HIDE DEF d
  <2>3. d \in Context /\ d.buffer \in Seq(Char)
    BY <2>2 DEF Writing, Context
  <2> DEFINE rest == From(d.buffer, p + 4)
  <2>4. rest \in Seq(Char)
    <3>1. p + 4 \in Nat /\ p + 4 # 0
      BY <1>3
    <3> QED BY <2>3, <3>1, Pieces
  <2> HIDE DEF rest
  <2>5. z = [d EXCEPT !.inside = FALSE, !.extracted = TRUE, !.buffer = rest]
    BY DEF rest
  <2> HIDE DEF z
  <2>6. /\ z \in Context /\ z.out = d.out /\ z.blocks = d.blocks
        /\ z.started = d.started /\ z.textAt = d.textAt /\ z.thinkAt = d.thinkAt
        /\ z.tools = d.tools /\ ~z.inside /\ ~z.reasoning
    BY <2>2, <2>3, <2>4, <2>5 DEF Context
  <2> QED BY <2>2, <2>6, ThoughtOut
<1>8. ASSUME x.inside PROVE SomeThinking(r, safe) \in Steady(v)
  <2> DEFINE rest == From(y.buffer, Len(safe) + 1)
  <2>1. rest \in Seq(Char)
    BY <1>2, <1>3, <1>5, Pieces
  <2> HIDE DEF rest
  <2>2. r = [y EXCEPT !.buffer = rest]
    BY DEF rest
  <2> HIDE DEF r
  <2>3. /\ r \in Context /\ r.out = y.out /\ r.blocks = y.blocks
        /\ r.started = y.started /\ r.textAt = y.textAt /\ r.thinkAt = y.thinkAt
        /\ r.tools = y.tools /\ r.inside = y.inside /\ r.reasoning = y.reasoning
        /\ r.native = y.native
    BY <1>5, <2>1, <2>2 DEF Context
  <2>4. r \in Steady(v)
    <3>1. ThinkingOK(y)
      BY <1>6, SteadyIs
    <3> QED BY <1>6, <2>3, <3>1, QuietSteady DEF ThinkingOK
  <2> QED BY <1>3, <1>5, <1>8, <2>3, <2>4, SomeThinkingKeeps
<1> QED BY <1>4, <1>7, <1>8

\* The scan's buffer goes out as text.
LEMMA BufferOut ==
    ASSUME NEW v \in View, NEW x \in Steady(v)
    PROVE  /\ TextDelta([x EXCEPT !.buffer = <<>>], x.buffer) \in Steady(v)
           /\ Beside(x, TextDelta([x EXCEPT !.buffer = <<>>], x.buffer))
<1> DEFINE y == [x EXCEPT !.buffer = <<>>]
<1>1. x.buffer \in Seq(Char) /\ x \in Context /\ ThinkingOK(x)
  BY SteadyIs
<1>2. /\ y \in Context /\ y.out = x.out /\ y.blocks = x.blocks
      /\ y.started = x.started /\ y.textAt = x.textAt /\ y.thinkAt = x.thinkAt
      /\ y.tools = x.tools /\ y.inside = x.inside /\ y.reasoning = x.reasoning
      /\ y.native = x.native /\ y.thinking = x.thinking /\ y.failure = x.failure
  BY <1>1, NoText DEF Context
<1> HIDE DEF y
<1>3. y \in Steady(v)
  BY <1>1, <1>2, QuietSteady DEF ThinkingOK
<1>4. TextDelta(y, x.buffer) \in Steady(v) /\ Beside(y, TextDelta(y, x.buffer))
  BY <1>1, <1>3, TextDeltaSteady
<1>5. Beside(x, y)
  BY <1>2, BesideSelf
<1>6. Beside(x, TextDelta(y, x.buffer))
  BY <1>4, <1>5, BesideTwice
<1> QED BY <1>4, <1>6 DEF y

LEMMA ScanKeeps ==
    ASSUME NEW v \in View, NEW x \in Steady(v), ~x.native
    PROVE  Scan(x) \in Steady(v)
<1>1. InsideTag(BeforeTag(x)) \in Steady(v)
  BY BeforeTagKeeps, InsideTagKeeps
<1> QED BY <1>1, BufferOut DEF Scan, AfterTag

LEMMA EndAtTagKeeps ==
    ASSUME NEW v \in View, NEW x \in Steady(v), x.inside,
           NEW p \in Nat, p <= Len(x.buffer)
    PROVE  /\ EndAtTag(x, p) \in Steady(v) /\ EndAtTag(x, p).failure = x.failure
           /\ ~EndAtTag(x, p).reasoning
<1> DEFINE c == SomeThinking(x, SubSeq(x.buffer, 1, p - 1))
           y == CloseFakeThinking(c)
           z == [y EXCEPT !.inside = FALSE, !.extracted = TRUE, !.buffer = <<>>]
           left == TrimStart(From(x.buffer, p + 2))
<1>1. x.buffer \in Seq(Char)
  BY SteadyIs
<1>2. SubSeq(x.buffer, 1, p - 1) \in Seq(Char) /\ left \in Seq(Char)
  <2>1. p + 2 \in Nat /\ p + 2 # 0
    OBVIOUS
  <2>2. From(x.buffer, p + 2) \in Seq(Char)
    BY <1>1, <2>1, Pieces
  <2> QED BY <1>1, <2>2, Pieces
<1>3. c \in Steady(v) /\ c.inside /\ c.failure = x.failure
  BY <1>2, SomeThinkingKeeps DEF Apart
<1> HIDE DEF left
<1>4. EndAtTag(x, p) = IF left = <<>> THEN z ELSE TextDelta(z, left)
  BY DEF EndAtTag, left
<1> HIDE DEF c
<1>5. y \in Writing(v) /\ ~y.reasoning /\ y.failure = x.failure
  BY <1>3, CloseFakeKeeps DEF Apart
<1> HIDE DEF y
<1>6. /\ z \in Context /\ z.out = y.out /\ z.blocks = y.blocks
      /\ z.started = y.started /\ z.textAt = y.textAt /\ z.thinkAt = y.thinkAt
      /\ z.tools = y.tools /\ ~z.inside /\ ~z.reasoning /\ z.failure = x.failure
  <2>1. y \in Context
    BY <1>5 DEF Writing
  <2> QED BY <1>5, <2>1, NoText DEF Context
<1> HIDE DEF z
<1>7. z \in Steady(v)
  BY <1>5, <1>6, ThoughtOut
<1>8. CASE left = <<>>
  BY <1>4, <1>6, <1>7, <1>8
<1>9. CASE left # <<>>
  <2>1. TextDelta(z, left) \in Steady(v) /\ Beside(z, TextDelta(z, left))
    BY <1>2, <1>7, TextDeltaSteady
  <2> QED BY <1>4, <1>6, <1>9, <2>1 DEF Beside
<1> QED BY <1>8, <1>9

-----------------------------------------------------------------------------
(* Every event of the upstream service.                                    *)

LEMMA MarkFailureKeeps ==
    ASSUME NEW v \in View, NEW x \in Steady(v), NEW kind \in Failure
    PROVE  MarkFailure(x, kind) \in Steady(v)
<1> DEFINE y == [x EXCEPT !.failure = kind]
<1>1. x \in Context /\ ThinkingOK(x)
  BY SteadyIs
<1>2. /\ y \in Context /\ y.out = x.out /\ y.blocks = x.blocks
      /\ y.started = x.started /\ y.textAt = x.textAt /\ y.thinkAt = x.thinkAt
      /\ y.tools = x.tools /\ y.inside = x.inside /\ y.reasoning = x.reasoning
      /\ y.native = x.native
  BY <1>1 DEF Context
<1>3. MarkFailure(x, kind) = IF x.failure = "none" THEN y ELSE x
  BY DEF MarkFailure
<1> HIDE DEF y
<1>4. y \in Steady(v)
  BY <1>1, <1>2, QuietSteady DEF ThinkingOK
<1> QED BY <1>3, <1>4

LEMMA ReasonKeeps ==
    ASSUME NEW v \in View, NEW x \in Steady(v), NEW reason \in Reason
    PROVE  [x EXCEPT !.reason = reason] \in Steady(v)
<1> DEFINE y == [x EXCEPT !.reason = reason]
<1>1. x \in Context /\ ThinkingOK(x)
  BY SteadyIs
<1>2. /\ y \in Context /\ y.out = x.out /\ y.blocks = x.blocks
      /\ y.started = x.started /\ y.textAt = x.textAt /\ y.thinkAt = x.thinkAt
      /\ y.tools = x.tools /\ y.inside = x.inside /\ y.reasoning = x.reasoning
      /\ y.native = x.native
  BY <1>1 DEF Context
<1> HIDE DEF y
<1>3. y \in Steady(v)
  BY <1>1, <1>2, QuietSteady DEF ThinkingOK
<1> QED BY <1>3 DEF y

LEMMA ProducedKeeps ==
    ASSUME NEW v \in View, NEW x \in Steady(v)
    PROVE  /\ [x EXCEPT !.produced = TRUE] \in Steady(v)
           /\ [x EXCEPT !.produced = TRUE].reasoning = x.reasoning
<1> DEFINE y == [x EXCEPT !.produced = TRUE]
<1>1. x \in Context /\ ThinkingOK(x)
  BY SteadyIs
<1>2. /\ y \in Context /\ y.out = x.out /\ y.blocks = x.blocks
      /\ y.started = x.started /\ y.textAt = x.textAt /\ y.thinkAt = x.thinkAt
      /\ y.tools = x.tools /\ y.inside = x.inside /\ y.reasoning = x.reasoning
      /\ y.native = x.native
  BY <1>1 DEF Context
<1> HIDE DEF y
<1>3. y \in Steady(v)
  BY <1>1, <1>2, QuietSteady DEF ThinkingOK
<1> QED BY <1>2, <1>3 DEF y

LEMMA AssistantResponseKeeps ==
    ASSUME NEW v \in View, NEW x \in Steady(v), NEW text \in Seq(Char)
    PROVE  AssistantResponse(x, text) \in Steady(v)
<1> DEFINE y == CloseReasoning([x EXCEPT !.produced = TRUE])
           b == y.buffer \o text
           z == [y EXCEPT !.buffer = b]
<1>1. y \in Steady(v)
  BY ProducedKeeps, CloseReasoningKeeps
<1>2. AssistantResponse(x, text) = IF text = <<>> THEN x
                                   ELSE IF y.thinking /\ ~y.native THEN Scan(z) ELSE TextDelta(y, text)
  BY DEF AssistantResponse
<1> HIDE DEF y
<1>3. y \in Context /\ ThinkingOK(y) /\ y.buffer \in Seq(Char)
  BY <1>1, SteadyIs
<1>4. b \in Seq(Char)
  BY <1>3
<1> HIDE DEF b
<1>5. /\ z \in Context /\ z.out = y.out /\ z.blocks = y.blocks
      /\ z.started = y.started /\ z.textAt = y.textAt /\ z.thinkAt = y.thinkAt
      /\ z.tools = y.tools /\ z.inside = y.inside /\ z.reasoning = y.reasoning
      /\ z.native = y.native
  BY <1>3, <1>4 DEF Context
<1> HIDE DEF z
<1>6. z \in Steady(v)
  BY <1>1, <1>3, <1>5, QuietSteady DEF ThinkingOK
<1>7. TextDelta(y, text) \in Steady(v)
  BY <1>1, TextDeltaSteady
<1>8. ~y.native => Scan(z) \in Steady(v)
  BY <1>5, <1>6, ScanKeeps
<1> QED BY <1>2, <1>7, <1>8

LEMMA ReasoningContentKeeps ==
    ASSUME NEW v \in View, NEW x \in Steady(v), NEW text \in Seq(Char), NEW signed \in BOOLEAN
    PROVE  ReasoningContent(x, text, signed) \in Steady(v)
<1> DEFINE s == x.signature \/ signed
           y == [x EXCEPT !.signature = s]
           z == IF y.native THEN y
                ELSE [y EXCEPT !.native = TRUE, !.buffer = <<>>, !.inside = FALSE,
                               !.extracted = FALSE]
           m == Len(z.blocks) + 1
           u == [z EXCEPT !.thinkAt = m, !.reasoning = TRUE]
           w == IF z.reasoning THEN z ELSE StartBlock(u, "thinking")
           p == [w EXCEPT !.produced = TRUE]
<1>1. x \in Context /\ ThinkingOK(x) /\ s \in BOOLEAN
  BY SteadyIs DEF Context
<1>2. ReasoningContent(x, text, signed) =
         IF text = <<>> \/ ~x.thinking \/ (x.textAt # 0 /\ ~x.reasoning) THEN y
         ELSE ThinkingDelta(p, text)
  BY DEF ReasoningContent
<1> HIDE DEF s
<1>3. /\ y \in Context /\ y.out = x.out /\ y.blocks = x.blocks
      /\ y.started = x.started /\ y.textAt = x.textAt /\ y.thinkAt = x.thinkAt
      /\ y.tools = x.tools /\ y.inside = x.inside /\ y.reasoning = x.reasoning
      /\ y.native = x.native
  BY <1>1 DEF Context
<1> HIDE DEF y
<1>4. y \in Steady(v)
  BY <1>1, <1>3, QuietSteady DEF ThinkingOK
<1>5. z \in Steady(v) /\ z.native /\ ~z.inside
  <2>1. ThinkingOK(y)
    BY <1>4, SteadyIs
  <2>2. CASE y.native
    BY <1>4, <2>1, <2>2 DEF ThinkingOK
  <2>3. CASE ~y.native
    <3> DEFINE r == [y EXCEPT !.native = TRUE, !.buffer = <<>>, !.inside = FALSE,
                              !.extracted = FALSE]
    <3>1. /\ r \in Context /\ r.out = y.out /\ r.blocks = y.blocks
          /\ r.started = y.started /\ r.textAt = y.textAt /\ r.thinkAt = y.thinkAt
          /\ r.tools = y.tools /\ r.inside = FALSE /\ r.reasoning = y.reasoning
          /\ r.native = TRUE
      BY <1>3, NoText DEF Context
    <3>2. z = r
      BY <2>3
    <3> HIDE DEF r, z
    <3>3. r \in Steady(v)
      BY <1>4, <3>1, QuietSteady
    <3> QED BY <3>1, <3>2, <3>3
  <2> QED BY <2>2, <2>3
<1> HIDE DEF z
<1>6. w \in Steady(v) /\ w.reasoning
  <2>1. CASE z.reasoning
    BY <1>5, <2>1
  <2>2. CASE ~z.reasoning
    <3>1. z \in Context /\ z \in Writing(v)
      BY <1>5, SteadyIs
    <3>2. m \in Nat
      BY <3>1, ContextBlocks
    <3> HIDE DEF m
    <3>3. /\ u \in Context /\ u.out = z.out /\ u.blocks = z.blocks
          /\ u.started = z.started /\ u.textAt = z.textAt /\ u.thinkAt = m
          /\ u.tools = z.tools /\ u.inside = z.inside /\ u.reasoning = TRUE
          /\ u.native = z.native
      BY <3>1, <3>2 DEF Context
    <3> HIDE DEF u
    <3>4. StartBlock(u, "thinking") \in Steady(v) /\ Apart(u, StartBlock(u, "thinking"))
      BY <1>5, <3>1, <3>3, StartThinking DEF m
    <3> QED BY <2>2, <3>3, <3>4 DEF Apart
  <2> QED BY <2>1, <2>2
<1> HIDE DEF w
<1>7. p \in Steady(v) /\ p.reasoning
  BY <1>6, ProducedKeeps
<1> HIDE DEF p
<1>8. ThinkingDelta(p, text) \in Steady(v)
  BY <1>7, ThinkingDeltaKeeps
<1> QED BY <1>2, <1>4, <1>8

LEMMA FlushBeforeToolKeeps ==
    ASSUME NEW v \in View, NEW x \in Steady(v)
    PROVE  FlushBeforeTool(x) \in Steady(v)
<1> DEFINE p == EndTagAtBufferEnd(x.buffer)
           y == IF x.thinking /\ x.inside /\ p # 0 THEN EndAtTag(x, p) ELSE x
<1>1. p \in Nat /\ p <= Len(x.buffer)
  BY SteadyIs, Positions
<1>2. y \in Steady(v)
  BY <1>1, EndAtTagKeeps
<1> HIDE DEF y
<1>3. TextDelta([y EXCEPT !.buffer = <<>>], y.buffer) \in Steady(v)
  BY <1>2, BufferOut
<1>4. FlushBeforeTool(x) = IF y.thinking /\ ~y.inside /\ ~y.extracted /\ y.buffer # <<>>
                           THEN TextDelta([y EXCEPT !.buffer = <<>>], y.buffer) ELSE y
  BY DEF FlushBeforeTool, y
<1> QED BY <1>2, <1>3, <1>4

LEMMA HasToolKeeps ==
    ASSUME NEW v \in View, NEW x \in Steady(v)
    PROVE  /\ [x EXCEPT !.hasTool = TRUE] \in Steady(v)
           /\ [x EXCEPT !.hasTool = TRUE].tools = x.tools
<1> DEFINE y == [x EXCEPT !.hasTool = TRUE]
<1>1. x \in Context /\ ThinkingOK(x)
  BY SteadyIs
<1>2. /\ y \in Context /\ y.out = x.out /\ y.blocks = x.blocks
      /\ y.started = x.started /\ y.textAt = x.textAt /\ y.thinkAt = x.thinkAt
      /\ y.tools = x.tools /\ y.inside = x.inside /\ y.reasoning = x.reasoning
      /\ y.native = x.native
  BY <1>1 DEF Context
<1> HIDE DEF y
<1>3. y \in Steady(v)
  BY <1>1, <1>2, QuietSteady DEF ThinkingOK
<1> QED BY <1>2, <1>3 DEF y

LEMMA StartToolKeeps ==
    ASSUME NEW v \in View, NEW x \in Steady(v), NEW t \in ToolId
    PROVE  StartTool(x, t) \in Steady(v)
<1> DEFINE h == [x EXCEPT !.hasTool = TRUE]
           y == Stop(h, OpenText(x))
           m == Len(y.blocks) + 1
           u == [y EXCEPT !.tools[t] = m]
           z == StartBlock(u, "tool_use")
<1>1. h \in Steady(v) /\ h.blocks = x.blocks
  BY HasToolKeeps, SteadyIs DEF Context
<1>2. StartTool(x, t) = IF y.tools[t] # 0 THEN y ELSE z
  BY DEF StartTool
<1>3. OpenText(x) = OpenText(h) /\ OpenText(h) \in SUBSET OpenBlocks(h)
      /\ \A i \in OpenText(h) : h.blocks[i].type # "thinking"
  BY <1>1 DEF OpenText, OpenBlocks
<1> HIDE DEF h
<1>4. y \in Steady(v) /\ OpenText(y) = {}
  <2>1. h \in Writing(v)
    BY <1>1, SteadyIs
  <2>2. y \in Writing(v) /\ Beside(h, y) /\ OpenText(y) \subseteq OpenText(h) \ OpenText(h)
    BY <1>3, <2>1, StopKeeps
  <2> QED BY <1>1, <2>2, BesideSteady
<1> HIDE DEF y
<1>5. y \in Context /\ y \in Writing(v)
  BY <1>4, SteadyIs
<1>6. m \in Nat
  BY <1>5, ContextBlocks
<1> HIDE DEF m
<1> DEFINE tools == [y.tools EXCEPT ![t] = m]
<1>7. tools \in [ToolId -> Nat] /\ \A s \in ToolId : tools[s] = y.tools[s] \/ tools[s] = m
  BY <1>5, <1>6 DEF Context
<1>8. u = [y EXCEPT !.tools = tools]
  OBVIOUS
<1> HIDE DEF tools, u
<1>9. /\ u \in Context /\ u.out = y.out /\ u.blocks = y.blocks
      /\ u.started = y.started /\ u.textAt = y.textAt /\ u.thinkAt = y.thinkAt
      /\ u.tools = tools /\ u.inside = y.inside /\ u.reasoning = y.reasoning
      /\ u.native = y.native /\ u.thinking = y.thinking /\ u.failure = y.failure
  BY <1>5, <1>7, <1>8 DEF Context
<1>10. z \in Writing(v) /\ Apart(u, z) /\ Grows(y, z, "tool_use")
  <2>1. "tool_use" \in BlockType /\ "tool_use" # "text" /\ "tool_use" # "thinking"
    BY DEF BlockType
  <2>2. \A s \in ToolId : u.tools[s] = y.tools[s]
                          \/ ("tool_use" = "tool_use" /\ u.tools[s] = Len(y.blocks) + 1)
    BY <1>7, <1>9 DEF m
  <2> QED BY <1>4, <1>5, <1>9, <2>1, <2>2, StartPlaced
<1> HIDE DEF z
<1>11. Beside(y, z)
  <2>1. z \in Context /\ "tool_use" \in BlockType
    BY <1>10 DEF Writing, BlockType
  <2>2. OpenBlocks(z) = OpenBlocks(y) \cup {Len(y.blocks) + 1} /\ OpenBlocks(y) \subseteq 1 .. Len(y.blocks)
    BY <1>5, <1>10, <2>1, GrowsOpen, ContextBlocks
  <2>3. \A i \in OpenBlocks(y) : i \in OpenBlocks(z) /\ z.blocks[i] = y.blocks[i]
    BY <1>10, <2>2 DEF Grows
  <2> QED BY <1>9, <1>10, <2>3 DEF Beside, Apart
<1>12. z \in Steady(v)
  BY <1>4, <1>10, <1>11, BesideSteady
<1> QED BY <1>2, <1>4, <1>12

LEMMA ToolUseKeeps ==
    ASSUME NEW v \in View, NEW x \in Steady(v), NEW t \in ToolId,
           NEW input \in BOOLEAN, NEW stop \in BOOLEAN
    PROVE  ToolUse(x, t, input, stop) \in Steady(v)
<1> DEFINE h == [CloseReasoning(x) EXCEPT !.hasTool = TRUE]
           y == StartTool(FlushBeforeTool(h), t)
           p == [y EXCEPT !.produced = TRUE]
           d == Delta(p, y.tools[t], "json", <<>>)
           z == IF input THEN d ELSE y
           e == StopBlock(z, z.tools[t])
<1>1. h \in Steady(v)
  BY CloseReasoningKeeps, HasToolKeeps
<1>2. y \in Steady(v)
  BY <1>1, FlushBeforeToolKeeps, StartToolKeeps
<1>3. ToolUse(x, t, input, stop) = IF stop THEN e ELSE z
  BY DEF ToolUse
<1> HIDE DEF y
<1>4. /\ p \in Steady(v)
      /\ y.tools[t] \in OpenBlocks(p) => p.blocks[y.tools[t]].type = "tool_use"
  <2>1. p \in Steady(v)
    BY <1>2, ProducedKeeps
  <2>2. y \in Context /\ PlacesOK(y) /\ OpenBlocks(y) \subseteq 1 .. Len(y.blocks)
        /\ Len(y.blocks) \in Nat
    BY <1>2, SteadyIs, ContextBlocks
  <2>3. y.tools[t] # 0 => y.blocks[y.tools[t]].type = "tool_use"
    BY <2>2 DEF PlacesOK
  <2>4. p.blocks = y.blocks
    BY <2>2 DEF Context
  <2> HIDE DEF p
  <2>5. OpenBlocks(p) = OpenBlocks(y)
    BY <2>4 DEF OpenBlocks
  <2>6. 0 \notin 1 .. Len(y.blocks)
    BY <2>2
  <2> QED BY <2>1, <2>2, <2>3, <2>4, <2>5, <2>6
<1> HIDE DEF p
<1>5. d \in Steady(v)
  <2>1. CASE y.tools[t] \in OpenBlocks(p)
    <3> DEFINE f == Emit(p, "json", {y.tools[t]}, "", <<>>)
    <3>1. p \in Writing(v)
      BY <1>4, SteadyIs
    <3>2. f \in Writing(v) /\ Apart(p, f) /\ f.blocks = p.blocks
      <4>1. p.blocks[y.tools[t]].type = "tool_use"
        BY <1>4, <2>1
      <4> QED BY <2>1, <3>1, <4>1, NoText, Fill DEF Takes
    <3>3. d = f
      BY <2>1 DEF Delta
    <3> HIDE DEF f
    <3>4. Beside(p, f)
      BY <3>2, BesideSelf DEF Apart
    <3> QED BY <1>4, <3>2, <3>3, <3>4, BesideSteady
  <2>2. CASE y.tools[t] \notin OpenBlocks(p)
    BY <1>4, <2>2 DEF Delta
  <2> QED BY <2>1, <2>2
<1> HIDE DEF d
<1>6. z \in Steady(v)
  BY <1>2, <1>5
<1> HIDE DEF z
<1>7. e \in Steady(v)
  <2> DEFINE S == {z.tools[t]} \cap OpenBlocks(z)
  <2>1. z \in Writing(v) /\ z \in Context /\ PlacesOK(z)
    BY <1>6, SteadyIs
  <2>2. \A i \in S : z.blocks[i].type # "thinking"
    <3>1. OpenBlocks(z) \subseteq 1 .. Len(z.blocks)
      BY <2>1, ContextBlocks
    <3> QED BY <2>1, <3>1 DEF PlacesOK
  <2>3. Stop(z, S) \in Writing(v) /\ Beside(z, Stop(z, S))
    <3>1. S \in SUBSET OpenBlocks(z)
      OBVIOUS
    <3> HIDE DEF S
    <3> QED BY <2>1, <2>2, <3>1, StopKeeps
  <2> QED BY <1>6, <2>3, BesideSteady DEF StopBlock
<1> QED BY <1>3, <1>6, <1>7

LEMMA OnEventKeeps ==
    ASSUME NEW v \in View, NEW x \in Steady(v), NEW e \in UpstreamEvent
    PROVE  OnEvent(x, e) \in Steady(v)
<1>1. CASE e.kind = "text"
  <2>1. e.text \in Seq(Char)
    BY <1>1 DEF UpstreamEvent
  <2> QED BY <1>1, <2>1, AssistantResponseKeeps DEF OnEvent
<1>2. CASE e.kind = "reasoning"
  <2>1. e.text \in Seq(Char) /\ e.signed \in BOOLEAN
    BY <1>2 DEF UpstreamEvent
  <2> QED BY <1>2, <2>1, ReasoningContentKeeps DEF OnEvent
<1>3. CASE e.kind = "tool"
  <2>1. e.tool \in ToolId /\ e.input \in BOOLEAN /\ e.stop \in BOOLEAN
    BY <1>3 DEF UpstreamEvent
  <2> QED BY <1>3, <2>1, ToolUseKeeps DEF OnEvent
<1>4. CASE e.kind = "context"
  <2>1. "model_context_window_exceeded" \in Reason
    BY DEF Reason
  <2> QED BY <1>4, <2>1, ReasonKeeps DEF OnEvent, ContextUsage
<1>5. CASE e.kind = "error"
  <2>1. "upstream_error" \in Failure
    BY DEF Failure
  <2> QED BY <1>5, <2>1, MarkFailureKeeps DEF OnEvent
<1>6. CASE e.kind = "exception"
  <2>1. "max_tokens" \in Reason /\ "upstream_exception" \in Failure
    BY DEF Reason, Failure
  <2> QED BY <1>6, <2>1, ReasonKeeps, MarkFailureKeeps DEF OnEvent, Exception
<1>7. CASE e.kind \notin {"text", "reasoning", "tool", "context", "error", "exception"}
  BY <1>7 DEF OnEvent, Ignored
<1> QED BY <1>1, <1>2, <1>3, <1>4, <1>5, <1>6, <1>7

LEMMA EventsKeep ==
    ASSUME NEW v \in View, NEW x \in Steady(v), NEW events \in Seq(UpstreamEvent)
    PROVE  FoldLeft(OnEvent, x, events) \in Steady(v)
BY OnEventKeeps, FoldOfEvents

-----------------------------------------------------------------------------
(* The first and the last events of an answer.                             *)

\* What a client has before the answer.
Blank0 == [phase |-> "waiting", blocks |-> <<>>]

\* A context in which nothing has happened, but perhaps a failure.
Fresh == {x \in Context :
            /\ ~x.started /\ x.blocks = <<>> /\ x.out = <<>> /\ x.textAt = 0 /\ x.thinkAt = 0
            /\ x.tools = [t \in ToolId |-> 0] /\ ~x.inside /\ ~x.reasoning /\ ~x.native}

LEMMA NoBlocks ==
    /\ <<>> \in Seq(Part) /\ <<>> \in Seq(BlockState) /\ <<>> \in Seq(Item) /\ Len(<<>>) = 0
    /\ Blank0 \in View /\ Blank0.phase = "waiting" /\ Blank0.blocks = <<>>
<1>1. <<>> \in Seq(Part) /\ <<>> \in Seq(BlockState) /\ <<>> \in Seq(Item) /\ Len(<<>>) = 0
  OBVIOUS
<1>2. "waiting" \in Phase
  BY DEF Phase
<1> QED BY <1>1, <1>2 DEF Blank0, View

LEMMA NewIsFresh ==
    ASSUME NEW thinking \in BOOLEAN
    PROVE  NewContext(thinking) \in Fresh
<1>1. [t \in ToolId |-> 0] \in [ToolId -> Nat] /\ "none" \in Reason /\ "none" \in Failure
  BY DEF Reason, Failure
<1>2. NewContext(thinking) \in Context
  BY <1>1, NoBlocks, NoText DEF NewContext, Context
<1> QED BY <1>2 DEF Fresh, NewContext

LEMMA InitialKeeps ==
    ASSUME NEW x \in Fresh
    PROVE  Initial(x) \in Steady(Blank0) /\ Initial(x).failure = x.failure
<1> DEFINE b == [x EXCEPT !.started = TRUE]
           item == [ev |-> "message_start", at |-> {}, tag |-> "", text |-> <<>>]
           y == Emit(b, "message_start", {}, "", <<>>)
           m == Len(y.blocks) + 1
           u == [y EXCEPT !.textAt = m]
           z == StartBlock(u, "text")
<1>1. /\ x \in Context /\ ~x.started /\ x.blocks = <<>> /\ x.out = <<>> /\ x.textAt = 0
      /\ x.thinkAt = 0 /\ x.tools = [t \in ToolId |-> 0] /\ ~x.inside /\ ~x.reasoning /\ ~x.native
  BY DEF Fresh
<1>2. Initial(x) = IF x.thinking THEN y ELSE z
  BY DEF Initial
<1>3. /\ b \in Context /\ b.out = x.out /\ b.blocks = x.blocks /\ b.started = TRUE
      /\ b.textAt = x.textAt /\ b.thinkAt = x.thinkAt /\ b.tools = x.tools
      /\ b.inside = x.inside /\ b.reasoning = x.reasoning /\ b.native = x.native
      /\ b.failure = x.failure
  BY <1>1 DEF Context
<1> HIDE DEF b
<1>4. "message_start" \in Event /\ "" \in Tag /\ {} \in SUBSET Nat
  BY DEF Event, Tag
<1>5. item \in Item
  BY <1>4, NoText, ItemIs
<1>6. y \in Context /\ Apart(b, y) /\ y.blocks = b.blocks /\ y.out = Append(b.out, item)
  BY <1>3, <1>4, NoText, EmitKeeps
<1>7. item.ev = "message_start" /\ item.at = {}
  OBVIOUS
<1> HIDE DEF y, item
<1>8. Told(Blank0, x)
  <2>1. Flow(Blank0, <<>>, Blank0)
    BY NoBlocks, FlowEmpty
  <2>2. Mirrors(Blank0, x)
    BY <1>1, NoBlocks DEF Mirrors
  <2> QED BY <1>1, <2>1, <2>2, NoBlocks DEF Told
<1>9. ASSUME NEW w \in View, Mirrors(w, x) PROVE Legal(w, item) /\ Mirrors(After(w, item), y)
  <2>1. w.phase = "waiting" /\ Len(w.blocks) = 0
    BY <1>1, <1>9, NoBlocks DEF Mirrors
  <2>2. Legal(w, item)
    BY <1>7, <2>1 DEF Legal
  <2>3. After(w, item).phase = "open"
    BY <1>7, <2>1 DEF After, PhaseAfter
  <2>4. Len(After(w, item).blocks) = 0
    BY <1>5, <1>7, <2>1, AfterBlocks
  <2>5. y.started /\ Len(y.blocks) = 0
    BY <1>1, <1>3, <1>6, NoBlocks DEF Apart
  <2> QED BY <2>2, <2>3, <2>4, <2>5 DEF Mirrors
<1>10. Told(Blank0, y)
  <2>1. y.out = Append(x.out, item)
    BY <1>3, <1>6
  <2> QED BY <1>1, <1>5, <1>6, <1>8, <1>9, <2>1, NoBlocks, TellsOne
<1>11. /\ y.started /\ y.blocks = <<>> /\ y.textAt = 0 /\ y.thinkAt = 0 /\ y.native = x.native
       /\ y.tools = [t \in ToolId |-> 0] /\ ~y.inside /\ ~y.reasoning /\ y.failure = x.failure
  BY <1>1, <1>3, <1>6 DEF Apart
<1>12. OpenBlocks(y) = {} /\ OpenText(y) = {}
  BY <1>11 DEF OpenBlocks, OpenText
<1>13. y \in Steady(Blank0)
  <2>1. PlacesOK(y)
    BY <1>11, <1>12, NoBlocks DEF PlacesOK
  <2>2. ThinkingOK(y)
    BY <1>1, <1>11 DEF ThinkingOK
  <2> QED BY <1>6, <1>10, <1>11, <2>1, <2>2 DEF Steady, Writing
<1>14. z \in Steady(Blank0) /\ z.failure = x.failure
  <2>1. m \in Nat
    BY <1>6, ContextBlocks
  <2> HIDE DEF m
  <2>2. /\ u \in Context /\ u.out = y.out /\ u.blocks = y.blocks
        /\ u.started = y.started /\ u.textAt = m /\ u.thinkAt = y.thinkAt
        /\ u.tools = y.tools /\ u.inside = y.inside /\ u.reasoning = y.reasoning
        /\ u.native = y.native /\ u.failure = y.failure
    BY <1>6, <2>1 DEF Context
  <2> HIDE DEF u
  <2>3. z \in Writing(Blank0) /\ Apart(u, z)
    <3>1. "text" \in BlockType /\ "text" # "thinking"
      BY DEF BlockType
    <3>2. y \in Writing(Blank0)
      BY <1>13, SteadyIs
    <3> QED BY <1>12, <2>2, <3>1, <3>2, NoBlocks, StartPlaced DEF m
  <2> HIDE DEF z
  <2>4. ThinkingOK(z) /\ z.failure = x.failure
    BY <1>1, <1>11, <2>2, <2>3 DEF ThinkingOK, Apart
  <2> QED BY <2>3, <2>4 DEF Steady
<1> QED BY <1>2, <1>11, <1>13, <1>14

\* The client's blocks are of the types that the translation gave to its own.
Sorted(w, blocks) ==
    /\ Len(w.blocks) = Len(blocks)
    /\ \A i \in 1 .. Len(blocks) : w.blocks[i].type = blocks[i].type

\* How an answer may end for the client, when all its events are delivered.
Concluded(v, x) ==
    /\ x \in Context /\ PlacesOK(x) /\ ~x.reasoning
    /\ \E w \in View : /\ Flow(v, x.out, w) /\ Sorted(w, x.blocks)
                       /\ w.phase = IF x.failure = "none" THEN "stopped" ELSE "failed"

MayTurn(w, ev, tag) ==
    \/ /\ ev = "message_delta" /\ w.phase = "open" /\ OpenParts(w, BlockType) = {}
       /\ tag \in Reasons
    \/ ev = "message_stop" /\ w.phase = "delta"
    \/ ev = "error" /\ w.phase = "open" /\ OpenParts(w, BlockType) = {}

\* An event that ends a phase of the message, when all blocks are closed.
LEMMA Turns ==
    ASSUME NEW v \in View, NEW x \in Context, NEW w \in View, Flow(v, x.out, w),
           NEW ev \in {"message_delta", "message_stop", "error"}, NEW tag \in Tag,
           Sorted(w, x.blocks), MayTurn(w, ev, tag)
    PROVE  /\ Emit(x, ev, {}, tag, <<>>) \in Context /\ Apart(x, Emit(x, ev, {}, tag, <<>>))
           /\ Emit(x, ev, {}, tag, <<>>).blocks = x.blocks
           /\ \E w1 \in View : /\ Flow(v, Emit(x, ev, {}, tag, <<>>).out, w1)
                               /\ Sorted(w1, Emit(x, ev, {}, tag, <<>>).blocks)
                               /\ w1.phase = PhaseAfter(w.phase, ev)
<1> DEFINE item == [ev |-> ev, at |-> {}, tag |-> tag, text |-> <<>>]
           y == Emit(x, ev, {}, tag, <<>>)
<1>1. ev \in Event /\ {} \in SUBSET Nat
  BY DEF Event
<1>2. item \in Item
  BY <1>1, NoText, ItemIs
<1>3. y \in Context /\ Apart(x, y) /\ y.blocks = x.blocks /\ y.out = Append(x.out, item)
  BY <1>1, NoText, EmitKeeps
<1>4. item.ev = ev /\ item.at = {} /\ item.tag = tag
  OBVIOUS
<1> HIDE DEF item, y
<1>5. Legal(w, item)
  BY <1>4 DEF Legal, MayTurn
<1>6. x.out \in Seq(Item)
  BY DEF Context
<1>7. After(w, item) \in View /\ Flow(v, y.out, After(w, item))
  BY <1>2, <1>3, <1>5, <1>6, FlowAppend
<1>8. After(w, item).phase = PhaseAfter(w.phase, ev)
  BY <1>4 DEF After
<1>9. Sorted(After(w, item), y.blocks)
  <2>1. /\ Len(After(w, item).blocks) = Len(w.blocks)
        /\ \A i \in 1 .. Len(w.blocks) : After(w, item).blocks[i] = w.blocks[i]
    BY <1>2, <1>4, AfterBlocks
  <2> QED BY <1>3, <2>1 DEF Sorted
<1> QED BY <1>3, <1>7, <1>8, <1>9 DEF y

\* All blocks are closed, signed or not.
LEMMA AllClosing ==
    ASSUME NEW v \in View, NEW x \in Writing(v), NEW y \in Writing(v), Apart(x, y),
           \/ y = x /\ OpenBlocks(x) = {}
           \/ Closes(x, y, OpenBlocks(x))
    PROVE  /\ y \in Context /\ PlacesOK(y)
           /\ \E w \in View : /\ Flow(v, y.out, w) /\ w.phase = "open"
                              /\ OpenParts(w, BlockType) = {} /\ Sorted(w, y.blocks)
<1>1. x \in Context /\ y \in Context /\ y.started /\ Told(v, y) /\ PlacesOK(y)
  BY DEF Writing
<1>2. OpenBlocks(y) = {}
  BY <1>1, ClosesPlaces
<1>3. PICK w \in View : Flow(v, y.out, w) /\ Mirrors(w, y)
  BY <1>1 DEF Told
<1>4. w.phase = "open" /\ OpenParts(w, BlockType) = {}
  BY <1>1, <1>2, <1>3, MirroredOpen DEF Mirrors
<1>5. Sorted(w, y.blocks)
  BY <1>3 DEF Sorted, Mirrors
<1> QED BY <1>1, <1>3, <1>4, <1>5

LEMMA PlacesApart ==
    ASSUME NEW x, NEW y, PlacesOK(x), Apart(x, y), y.blocks = x.blocks
    PROVE  PlacesOK(y)
BY DEF PlacesOK, Apart, OpenText, OpenBlocks

LEMMA EndMessageKeeps ==
    ASSUME NEW v \in View, NEW x \in Writing(v), ~x.reasoning, x.failure = "none"
    PROVE  Concluded(v, EndMessage(x)) /\ EndMessage(x).failure = "none"
<1> DEFINE y == Stop(x, OpenBlocks(x))
           z == Emit(y, "message_delta", {}, StopReason(x), <<>>)
           e == Emit(z, "message_stop", {}, "", <<>>)
<1>1. y \in Writing(v) /\ Apart(x, y) /\ ((y = x /\ OpenBlocks(x) = {}) \/ Closes(x, y, OpenBlocks(x)))
  <2>1. CASE OpenBlocks(x) = {}
    BY <2>1 DEF Stop, Apart
  <2>2. CASE OpenBlocks(x) # {}
    <3>1. y = Emit(Stopped(x, OpenBlocks(x)), "stop", OpenBlocks(x), "", <<>>)
      BY <2>2 DEF Stop
    <3>2. OpenBlocks(x) \in SUBSET OpenBlocks(x)
      OBVIOUS
    <3> QED BY <2>2, <3>1, <3>2, CloseTells
  <2> QED BY <2>1, <2>2
<1> HIDE DEF y
<1>2. PICK w \in View : /\ Flow(v, y.out, w) /\ w.phase = "open"
                        /\ OpenParts(w, BlockType) = {} /\ Sorted(w, y.blocks)
  BY <1>1, AllClosing
<1>3. y \in Context /\ PlacesOK(y)
  BY <1>1, AllClosing
<1>4. StopReason(x) \in Reasons /\ StopReason(x) \in Tag /\ "" \in Tag
  <2>1. x.reason \in Reason
    BY DEF Writing, Context
  <2>2. StopReason(x) \in Reasons
    BY <2>1 DEF StopReason, Reason, Reasons
  <2> QED BY <2>2 DEF Tag
<1>5. /\ z \in Context /\ Apart(y, z) /\ z.blocks = y.blocks
      /\ \E w1 \in View : /\ Flow(v, z.out, w1) /\ Sorted(w1, z.blocks)
                          /\ w1.phase = PhaseAfter(w.phase, "message_delta")
  <2>1. MayTurn(w, "message_delta", StopReason(x))
    BY <1>2, <1>4 DEF MayTurn
  <2> DEFINE r == StopReason(x)
  <2>2. r \in Tag /\ MayTurn(w, "message_delta", r)
    BY <1>4, <2>1
  <2>3. z = Emit(y, "message_delta", {}, r, <<>>)
    OBVIOUS
  <2> HIDE DEF r, z
  <2>4. "message_delta" \in {"message_delta", "message_stop", "error"}
    OBVIOUS
  <2> QED BY <1>2, <1>3, <2>2, <2>3, <2>4, Turns
<1> HIDE DEF z
<1>6. PICK w1 \in View : Flow(v, z.out, w1) /\ Sorted(w1, z.blocks) /\ w1.phase = "delta"
  BY <1>5 DEF PhaseAfter
<1>7. /\ e \in Context /\ Apart(z, e) /\ e.blocks = z.blocks
      /\ \E w2 \in View : /\ Flow(v, e.out, w2) /\ Sorted(w2, e.blocks)
                          /\ w2.phase = PhaseAfter(w1.phase, "message_stop")
  <2>1. MayTurn(w1, "message_stop", "")
    BY <1>6 DEF MayTurn
  <2>2. "message_stop" \in {"message_delta", "message_stop", "error"}
    OBVIOUS
  <2> DEFINE r == ""
  <2>3. z \in Context /\ Flow(v, z.out, w1) /\ Sorted(w1, z.blocks) /\ r \in Tag /\ MayTurn(w1, "message_stop", r)
    BY <1>4, <1>5, <1>6, <2>1
  <2>4. e = Emit(z, "message_stop", {}, r, <<>>)
    OBVIOUS
  <2> HIDE DEF e, r
  <2> QED BY <2>2, <2>3, <2>4, Turns
<1> HIDE DEF e
<1>8. PICK w2 \in View : Flow(v, e.out, w2) /\ Sorted(w2, e.blocks) /\ w2.phase = "stopped"
  BY <1>6, <1>7 DEF PhaseAfter
<1>9. Apart(x, e) /\ PlacesOK(e)
  BY <1>1, <1>3, <1>5, <1>7, ApartTwice, PlacesApart
<1>10. ~e.reasoning /\ e.failure = "none"
  BY <1>9 DEF Apart
<1>11. Concluded(v, e)
  BY <1>7, <1>8, <1>9, <1>10 DEF Concluded
<1> QED BY <1>10, <1>11 DEF EndMessage, e, z, y

LEMMA EndInErrorKeeps ==
    ASSUME NEW v \in View, NEW x \in Steady(v), x.failure # "none"
    PROVE  Concluded(v, EndInError(x)) /\ EndInError(x).failure = x.failure
<1> DEFINE c == CloseReasoning(x)
           y == SignAndStopAll(c)
           e == Emit(y, "error", {}, x.failure, <<>>)
<1>1. c \in Steady(v) /\ ~c.reasoning /\ c.failure = x.failure
  BY CloseReasoningKeeps
<1> HIDE DEF c
<1>2. c \in Writing(v)
  BY <1>1, SteadyIs
<1>3. y \in Writing(v) /\ Apart(c, y) /\ ((y = c /\ OpenBlocks(c) = {}) \/ Closes(c, y, OpenBlocks(c)))
  <2>1. CASE OpenBlocks(c) = {}
    BY <1>2, <2>1 DEF SignAndStopAll, Apart
  <2>2. CASE OpenBlocks(c) # {}
    <3>1. y = Emit(Stopped(c, OpenBlocks(c)), "stop", OpenBlocks(c), "signed", <<>>)
      BY <2>2 DEF SignAndStopAll
    <3>2. OpenBlocks(c) \in SUBSET OpenBlocks(c)
      OBVIOUS
    <3> QED BY <1>2, <2>2, <3>1, <3>2, CloseTells
  <2> QED BY <2>1, <2>2
<1> HIDE DEF y
<1>4. PICK w \in View : /\ Flow(v, y.out, w) /\ w.phase = "open"
                        /\ OpenParts(w, BlockType) = {} /\ Sorted(w, y.blocks)
  BY <1>2, <1>3, AllClosing
<1>5. y \in Context /\ PlacesOK(y)
  BY <1>2, <1>3, AllClosing
<1>6. x.failure \in Tag
  <2>1. x.failure \in Failure
    BY SteadyIs DEF Context
  <2> QED BY <2>1 DEF Tag
<1>7. /\ e \in Context /\ Apart(y, e) /\ e.blocks = y.blocks
      /\ \E w1 \in View : /\ Flow(v, e.out, w1) /\ Sorted(w1, e.blocks)
                          /\ w1.phase = PhaseAfter(w.phase, "error")
  <2>1. MayTurn(w, "error", x.failure)
    BY <1>4 DEF MayTurn
  <2> QED BY <1>4, <1>5, <1>6, <2>1, Turns
<1> HIDE DEF e
<1>8. PICK w1 \in View : Flow(v, e.out, w1) /\ Sorted(w1, e.blocks) /\ w1.phase = "failed"
  BY <1>7 DEF PhaseAfter
<1>9. Apart(c, e) /\ PlacesOK(e)
  BY <1>3, <1>5, <1>7, ApartTwice, PlacesApart
<1>10. ~e.reasoning /\ e.failure = x.failure
  BY <1>1, <1>9 DEF Apart
<1>11. Concluded(v, e)
  BY <1>7, <1>8, <1>9, <1>10 DEF Concluded
<1> QED BY <1>10, <1>11 DEF EndInError, e, y, c

LEMMA FlushAtEndKeeps ==
    ASSUME NEW v \in View, NEW x \in Steady(v), ~x.reasoning
    PROVE  /\ FlushAtEnd(x) \in Writing(v) /\ ~FlushAtEnd(x).reasoning
           /\ FlushAtEnd(x).failure = x.failure
<1> DEFINE p == EndTagAtBufferEnd(x.buffer)
           c == CloseFakeThinking(ThinkingDelta(x, x.buffer))
           t == TextDelta(x, x.buffer)
<1>1. /\ x \in Writing(v) /\ x.buffer \in Seq(Char) /\ ThinkingOK(x)
      /\ p \in Nat /\ p <= Len(x.buffer)
  BY SteadyIs, Positions
<1> HIDE DEF p
<1>2. FlushAtEnd(x) = IF ~x.thinking \/ x.buffer = <<>> THEN x
                      ELSE IF x.inside THEN (IF p # 0 THEN EndAtTag(x, p) ELSE [c EXCEPT !.buffer = <<>>])
                      ELSE [t EXCEPT !.buffer = <<>>]
  BY DEF FlushAtEnd, p
<1>3. ASSUME NEW z \in Writing(v), ~z.reasoning, z.failure = x.failure
      PROVE  /\ [z EXCEPT !.buffer = <<>>] \in Writing(v)
             /\ ~[z EXCEPT !.buffer = <<>>].reasoning
             /\ [z EXCEPT !.buffer = <<>>].failure = x.failure
  <2> DEFINE y == [z EXCEPT !.buffer = <<>>]
  <2>1. z \in Context
    BY DEF Writing
  <2>2. /\ y \in Context /\ y.out = z.out /\ y.blocks = z.blocks
        /\ y.started = z.started /\ y.textAt = z.textAt /\ y.thinkAt = z.thinkAt
        /\ y.tools = z.tools /\ y.reasoning = z.reasoning /\ y.failure = z.failure
    BY <2>1, NoText DEF Context
  <2> HIDE DEF y
  <2>3. y \in Writing(v)
    BY <2>2, Quiet
  <2> QED BY <1>3, <2>2, <2>3 DEF y
<1>4. ASSUME x.inside, p # 0
      PROVE  /\ EndAtTag(x, p) \in Writing(v) /\ ~EndAtTag(x, p).reasoning
             /\ EndAtTag(x, p).failure = x.failure
  <2> DEFINE y == EndAtTag(x, p)
  <2>1. y \in Steady(v) /\ y.failure = x.failure /\ ~y.reasoning
    BY <1>1, <1>4, EndAtTagKeeps
  <2> QED BY <2>1, SteadyIs
<1>5. ASSUME x.inside
      PROVE  c \in Writing(v) /\ ~c.reasoning /\ c.failure = x.failure
  <2>1. ThinkingDelta(x, x.buffer) \in Steady(v) /\ Apart(x, ThinkingDelta(x, x.buffer))
    BY <1>1, <1>5, ThinkingDeltaKeeps
  <2>2. ThinkingDelta(x, x.buffer).inside /\ ThinkingDelta(x, x.buffer).failure = x.failure
    BY <1>5, <2>1 DEF Apart
  <2> QED BY <2>1, <2>2, CloseFakeKeeps DEF Apart
<1>6. t \in Writing(v) /\ ~t.reasoning /\ t.failure = x.failure
  BY <1>1, TextDeltaKeeps DEF Beside
<1> HIDE DEF c, t
<1> QED BY <1>1, <1>2, <1>3, <1>4, <1>5, <1>6

LEMMA TextAfterThinkingKeeps ==
    ASSUME NEW v \in View, NEW x \in Writing(v), ~x.reasoning
    PROVE  /\ TextAfterThinking(x) \in Writing(v) /\ ~TextAfterThinking(x).reasoning
           /\ TextAfterThinking(x).failure = x.failure
<1> DEFINE y == [x EXCEPT !.reason = "max_tokens"]
           t == TextDelta(y, <<"s">>)
<1>1. x \in Context /\ "max_tokens" \in Reason
  BY DEF Writing, Reason
<1>2. /\ y \in Context /\ y.out = x.out /\ y.blocks = x.blocks
      /\ y.started = x.started /\ y.textAt = x.textAt /\ y.thinkAt = x.thinkAt
      /\ y.tools = x.tools /\ y.reasoning = x.reasoning /\ y.failure = x.failure
  BY <1>1 DEF Context
<1> HIDE DEF y
<1>3. y \in Writing(v)
  BY <1>2, Quiet
<1>4. <<"s">> \in Seq(Char)
  BY DEF Char
<1>5. t \in Writing(v) /\ ~t.reasoning /\ t.failure = x.failure
  BY <1>2, <1>3, <1>4, TextDeltaKeeps DEF Beside
<1>6. TextAfterThinking(x) = t \/ TextAfterThinking(x) = x
  BY DEF TextAfterThinking, y
<1> HIDE DEF t
<1> QED BY <1>5, <1>6

LEMMA FinalConcludes ==
    ASSUME NEW v \in View, NEW x \in Steady(v)
    PROVE  Concluded(v, Final(x))
<1> DEFINE y == IF ProducedAnyContent(x) THEN x ELSE MarkFailure(x, "empty_response")
           c == CloseReasoning(y)
           f == FlushAtEnd(c)
           t == TextAfterThinking(f)
<1>1. y \in Steady(v)
  <2>1. "empty_response" \in Failure
    BY DEF Failure
  <2> QED BY <2>1, MarkFailureKeeps
<1>2. Final(x) = IF y.failure # "none" THEN EndInError(y) ELSE EndMessage(t)
  BY DEF Final
<1> HIDE DEF y
<1>3. CASE y.failure # "none"
  BY <1>1, <1>2, <1>3, EndInErrorKeeps
<1>4. CASE y.failure = "none"
  <2>1. c \in Steady(v) /\ ~c.reasoning /\ c.failure = "none"
    BY <1>1, <1>4, CloseReasoningKeeps
  <2> HIDE DEF c
  <2>2. f \in Writing(v) /\ ~f.reasoning /\ f.failure = "none"
    BY <2>1, FlushAtEndKeeps
  <2> HIDE DEF f
  <2>3. t \in Writing(v) /\ ~t.reasoning /\ t.failure = "none"
    BY <2>2, TextAfterThinkingKeeps
  <2> HIDE DEF t
  <2>4. Concluded(v, EndMessage(t))
    BY <2>3, EndMessageKeeps
  <2> QED BY <1>2, <1>4, <2>4
<1> QED BY <1>3, <1>4

-----------------------------------------------------------------------------
(* The decoder.                                                            *)

Cell == {c \in [len : Nat, crc : BOOLEAN, body : Damage \cup {"intact", "text"},
                event : Content \cup {<<>>}] : c.body = "intact" => c.event \in Content}

Decoder == {d \in [buf : Seq(Cell), state : {"Ready", "Recovering", "Stopped"},
                   errors : 0 .. MaxErrors] :
               Len(d.buf) <= MaxBuffer /\ (d.state # "Stopped" => d.errors < MaxErrors)}

Run == [d : Decoder, events : Seq(Content), on : BOOLEAN]

LEMMA DecoderIs ==
    ASSUME NEW d \in Decoder
    PROVE  /\ d.buf \in Seq(Cell) /\ Len(d.buf) \in Nat /\ Len(d.buf) <= MaxBuffer
           /\ d.state \in {"Ready", "Recovering", "Stopped"} /\ d.errors \in 0 .. MaxErrors
           /\ d.state # "Stopped" => d.errors < MaxErrors
<1>1. d.buf \in Seq(Cell)
  BY DEF Decoder
<1>2. Len(d.buf) \in Nat
  BY <1>1
<1> QED BY <1>1, <1>2 DEF Decoder

LEMMA BoundsNat == MaxErrors \in Nat \ {0} /\ MaxBuffer \in Nat /\ FrameLen \in Nat \ {0}
BY DecoderAssumption

\* What is left of a sequence, and its beginning.
LEMMA Cuts ==
    ASSUME NEW S, NEW s \in Seq(S), NEW n \in Nat
    PROVE  /\ SubSeq(s, n + 1, Len(s)) \in Seq(S) /\ Len(SubSeq(s, n + 1, Len(s))) <= Len(s)
           /\ n <= Len(s) => SubSeq(s, 1, n) \in Seq(S)
<1>1. Len(s) \in Nat /\ \A i \in 1 .. Len(s) : s[i] \in S
  OBVIOUS
<1>2. \A i \in n + 1 .. Len(s) : s[i] \in S
  BY <1>1
<1>3. SubSeq(s, n + 1, Len(s)) \in Seq(S)
      /\ Len(SubSeq(s, n + 1, Len(s))) = IF n + 1 <= Len(s) THEN Len(s) - (n + 1) + 1 ELSE 0
  BY <1>1, <1>2, SubSeqProperties
<1>4. n <= Len(s) => SubSeq(s, 1, n) \in Seq(S)
  <2>1. n <= Len(s) => \A i \in 1 .. n : s[i] \in S
    BY <1>1
  <2> QED BY <2>1, SubSeqProperties
<1> QED BY <1>1, <1>3, <1>4

LEMMA AdvanceKeeps ==
    ASSUME NEW d \in Decoder, NEW n \in Nat
    PROVE  /\ Advance(d, n) \in Decoder /\ Advance(d, n).state = d.state
           /\ Advance(d, n).errors = d.errors
<1> DEFINE b == SubSeq(d.buf, n + 1, Len(d.buf))
           e == [d EXCEPT !.buf = b]
<1>1. b \in Seq(Cell) /\ Len(b) <= MaxBuffer
  <2>1. b \in Seq(Cell) /\ Len(b) <= Len(d.buf)
    BY DecoderIs, Cuts
  <2>2. Len(b) \in Nat
    BY <2>1
  <2> HIDE DEF b
  <2> QED BY <2>1, <2>2, DecoderIs, BoundsNat
<1>2. Advance(d, n) = e
  BY DEF Advance
<1> HIDE DEF b
<1>3. e \in [buf : Seq(Cell), state : {"Ready", "Recovering", "Stopped"}, errors : 0 .. MaxErrors]
      /\ e.buf = b /\ e.state = d.state /\ e.errors = d.errors
  BY <1>1 DEF Decoder
<1> HIDE DEF e
<1> QED BY <1>1, <1>2, <1>3, DecoderIs DEF Decoder

\* The state and the count of errors may change, if they fit together.
LEMMA SetState ==
    ASSUME NEW d \in Decoder, NEW state \in {"Ready", "Recovering", "Stopped"},
           NEW n \in 0 .. MaxErrors, state # "Stopped" => n < MaxErrors
    PROVE  [d EXCEPT !.state = state, !.errors = n] \in Decoder
<1> DEFINE e == [d EXCEPT !.state = state, !.errors = n]
<1>1. e \in [buf : Seq(Cell), state : {"Ready", "Recovering", "Stopped"}, errors : 0 .. MaxErrors]
      /\ e.buf = d.buf /\ e.state = state /\ e.errors = n
  BY DEF Decoder
<1> HIDE DEF e
<1>2. e \in Decoder
  BY <1>1, DecoderIs DEF Decoder
<1> QED BY <1>2 DEF e

LEMMA HeadOfBuffer ==
    ASSUME NEW d \in Decoder, d.buf # <<>>
    PROVE  /\ Head(d.buf) \in Cell /\ Head(d.buf).len \in Nat
           /\ Parse(d.buf) = "frame" => Head(d.buf).event \in Content
<1>1. Head(d.buf) \in Cell
  BY DecoderIs, HeadTailProperties
<1>2. Head(d.buf).len \in Nat /\ Head(d.buf).body \in Damage \cup {"intact", "text"}
      /\ (Head(d.buf).body = "intact" => Head(d.buf).event \in Content)
  BY <1>1 DEF Cell
<1>3. ASSUME Parse(d.buf) = "frame" PROVE Head(d.buf).body = "intact"
  BY <1>2, <1>3 DEF Parse, Damage
<1> QED BY <1>1, <1>2, <1>3

LEMMA DecodeKeeps ==
    ASSUME NEW d \in Decoder, d.state = "Ready", d.buf # <<>>
    PROVE  Decode(d) \in Decoder
<1> DEFINE n == d.errors + 1
           f == [d EXCEPT !.errors = n]
           a == Advance(d, Head(d.buf).len)
<1>1. d.errors \in Nat /\ n \in 0 .. MaxErrors /\ (n < MaxErrors \/ n >= MaxErrors)
  BY DecoderIs, BoundsNat
<1>2. f.errors = n /\ f.buf = d.buf
  BY DEF Decoder
<1>3. CASE Parse(d.buf) = "more"
  <2>1. [d EXCEPT !.state = "Ready"] = [d EXCEPT !.state = "Ready", !.errors = d.errors]
    BY DEF Decoder
  <2>2. Decode(d) = [d EXCEPT !.state = "Ready"]
    BY <1>3 DEF Decode
  <2> QED BY <2>1, <2>2, DecoderIs, SetState
<1>4. CASE Parse(d.buf) = "frame"
  <2>1. a \in Decoder
    BY HeadOfBuffer, AdvanceKeeps
  <2>2. Decode(d) = [a EXCEPT !.state = "Ready", !.errors = 0]
    BY <1>4 DEF Decode
  <2> HIDE DEF a
  <2>3. 0 \in 0 .. MaxErrors /\ 0 < MaxErrors
    BY BoundsNat
  <2> QED BY <2>1, <2>2, <2>3, SetState
<1>5. CASE Parse(d.buf) \notin {"more", "frame"} /\ n >= MaxErrors
  <2>1. Decode(d) = [f EXCEPT !.state = "Stopped"]
    BY <1>2, <1>5 DEF Decode
  <2>2. [f EXCEPT !.state = "Stopped"] = [d EXCEPT !.state = "Stopped", !.errors = n]
    BY DEF Decoder
  <2> HIDE DEF n, f
  <2>3. [d EXCEPT !.state = "Stopped", !.errors = n] \in Decoder
    BY <1>1, SetState
  <2> QED BY <2>1, <2>2, <2>3
<1>6. CASE Parse(d.buf) \notin {"more", "frame"} /\ n < MaxErrors
  <2> DEFINE k == IF Parse(d.buf) = "data" THEN Head(d.buf).len ELSE 1
             r == Advance(f, k)
  <2>1. Decode(d) = [r EXCEPT !.state = "Recovering"]
    <3>1. ~(n >= MaxErrors)
      BY <1>1, <1>6, BoundsNat
    <3> QED BY <1>2, <1>6, <3>1 DEF Decode, TryRecover
  <2>2. f \in Decoder
    <3>1. f = [d EXCEPT !.state = d.state, !.errors = n]
      BY DEF Decoder
    <3> HIDE DEF n, f
    <3> QED BY <1>1, <1>6, <3>1, DecoderIs, SetState
  <2>3. k \in Nat
    BY HeadOfBuffer
  <2> HIDE DEF k, f
  <2>4. r \in Decoder /\ r.errors = n
    BY <1>2, <2>2, <2>3, AdvanceKeeps
  <2> HIDE DEF r, n
  <2>5. [r EXCEPT !.state = "Recovering"] = [r EXCEPT !.state = "Recovering", !.errors = n]
    BY <2>4 DEF Decoder
  <2>6. [r EXCEPT !.state = "Recovering", !.errors = n] \in Decoder
    BY <1>1, <1>6, <2>4, SetState
  <2> QED BY <2>1, <2>5, <2>6
<1> QED BY <1>1, <1>3, <1>4, <1>5, <1>6

LEMMA TurnKeeps ==
    ASSUME NEW r \in Run, NEW i
    PROVE  Turn(r, i) \in Run
<1> DEFINE ready == r.on /\ r.d.state = "Ready" /\ r.d.buf # <<>>
           got == ready /\ Parse(r.d.buf) = "frame"
<1>1. r.d \in Decoder /\ r.events \in Seq(Content)
  BY DEF Run
<1>2. ready => Decode(r.d) \in Decoder
  BY <1>1, DecodeKeeps
<1>3. got => Append(r.events, Head(r.d.buf).event) \in Seq(Content)
  <2>1. got => Head(r.d.buf).event \in Content
    BY <1>1, HeadOfBuffer
  <2> QED BY <1>1, <2>1
<1>4. Turn(r, i) = [d |-> IF ready THEN Decode(r.d) ELSE r.d,
                    events |-> IF got THEN Append(r.events, Head(r.d.buf).event) ELSE r.events,
                    on |-> got]
  BY DEF Turn
<1>5. got \in BOOLEAN
  OBVIOUS
<1> HIDE DEF ready, got
<1> QED BY <1>1, <1>2, <1>3, <1>4, <1>5 DEF Run

\* The run goes from x through the turns.
TurnChain(h, x, m) ==
    /\ h[0] = x /\ FoldLeft(Turn, x, [i \in 1 .. m |-> i]) = h[m]
    /\ \A k \in 1 .. m : h[k] = Turn(h[k - 1], k)

LEMMA TurnsSteps ==
    ASSUME NEW x \in Run, NEW m \in Nat
    PROVE  \E h \in [0 .. m -> Run] : TurnChain(h, x, m)
<1> DEFINE turns == [i \in 1 .. m |-> i]
           G == [i \in 1 .. m |-> [y \in Run |-> Turn(y, i)]]
           Q(f) == f = [s \in SUBSET (DOMAIN turns) |->
                           IF s = {} THEN x ELSE Turn(f[s \ {Max(s)}], turns[Max(s)])]
<1>1. DOMAIN turns = 1 .. m /\ \A i \in 1 .. m : turns[i] = i
  OBVIOUS
<1>2. FoldLeft(Turn, x, turns) = (CHOOSE f : Q(f))[DOMAIN turns]
  BY DEF FoldLeft, MapThenFoldSet
<1>3. G \in [1 .. m -> [Run -> Run]] /\ \A i \in 1 .. m, y \in Run : G[i][y] = Turn(y, i)
  BY TurnKeeps
<1> HIDE DEF G, turns
<1>4. PICK it \in [SUBSET (1 .. m) -> Run] : IsFold(it, x, m, G)
  BY <1>3, FoldExists
<1>5. ASSUME NEW s \in SUBSET (1 .. m), s # {}
      PROVE  Max(s) \in 1 .. m /\ s \ {Max(s)} \in SUBSET (1 .. m)
  BY <1>5, MaxOf
<1>6. Q(it)
  <2>1. ASSUME NEW s \in SUBSET (1 .. m)
        PROVE  it[s] = IF s = {} THEN x ELSE Turn(it[s \ {Max(s)}], turns[Max(s)])
    <3>1. CASE s = {}
      BY <1>4, <3>1 DEF IsFold
    <3>2. CASE s # {}
      <4>1. Max(s) \in 1 .. m /\ s \ {Max(s)} \in SUBSET (1 .. m)
        BY <1>5, <3>2
      <4>2. it[s \ {Max(s)}] \in Run /\ turns[Max(s)] = Max(s)
        BY <1>1, <4>1
      <4>3. it[s] = G[Max(s)][it[s \ {Max(s)}]]
        BY <1>4, <3>2 DEF IsFold
      <4> QED BY <1>3, <3>2, <4>1, <4>2, <4>3
    <3> QED BY <3>1, <3>2
  <2> QED BY <1>1, <1>4, <2>1
<1> DEFINE run == CHOOSE f : Q(f)
<1>7. Q(run)
  BY <1>6
<1> HIDE DEF run
<1>8. \A s \in SUBSET (1 .. m) :
         run[s] = IF s = {} THEN x ELSE Turn(run[s \ {Max(s)}], turns[Max(s)])
  BY <1>1, <1>7
<1>9. ASSUME NEW k \in 1 .. m PROVE run[1 .. k] = Turn(run[1 .. k - 1], k)
  <2>1. k \in Nat \ {0} /\ 1 .. k \in SUBSET (1 .. m) /\ 1 .. k # {}
    <3>1. k \in Nat /\ k >= 1 /\ k <= m
      OBVIOUS
    <3>2. \A i \in 1 .. k : i \in 1 .. m
      BY <3>1
    <3>3. 1 \in 1 .. k
      BY <3>1
    <3> QED BY <3>1, <3>2, <3>3
  <2>2. Max(1 .. k) = k /\ (1 .. k) \ {k} = 1 .. k - 1
    BY <2>1, MaxOfSegment
  <2>3. run[1 .. k] = Turn(run[(1 .. k) \ {Max(1 .. k)}], turns[Max(1 .. k)])
    BY <1>8, <2>1
  <2>4. turns[k] = k
    BY <1>1
  <2> QED BY <2>2, <2>3, <2>4
<1>10. run[{}] = x
  BY <1>8
<1> DEFINE h == [k \in 0 .. m |-> run[1 .. k]]
<1>11. \A k \in 0 .. m : h[k] = run[1 .. k]
  OBVIOUS
<1>12. h[0] = x
  <2>1. 1 .. 0 = {} /\ 0 \in 0 .. m
    OBVIOUS
  <2> QED BY <1>10, <1>11, <2>1
<1>13. ASSUME NEW k \in 1 .. m PROVE h[k] = Turn(h[k - 1], k)
  <2>1. k \in 0 .. m /\ k - 1 \in 0 .. m
    OBVIOUS
  <2> QED BY <1>9, <1>11, <2>1
<1>14. h \in [0 .. m -> Run]
  <2> DEFINE T == {k \in Nat : k <= m => h[k] \in Run}
  <2>1. 0 \in T
    BY <1>12
  <2>2. ASSUME NEW k \in T PROVE k + 1 \in T
    <3> SUFFICES ASSUME k + 1 <= m PROVE h[k + 1] \in Run
      OBVIOUS
    <3>1. k + 1 \in 1 .. m /\ (k + 1) - 1 = k /\ h[k] \in Run
      OBVIOUS
    <3> HIDE DEF h, T
    <3>2. Turn(h[k], k + 1) \in Run
      BY <3>1, TurnKeeps
    <3> QED BY <1>13, <3>1, <3>2
  <2>3. T \in SUBSET Nat
    OBVIOUS
  <2>4. \A k \in Nat : k \in T
    <3> HIDE DEF T
    <3> QED BY <2>1, <2>2, <2>3, Induction
  <2>5. h = [k \in 0 .. m |-> h[k]]
    OBVIOUS
  <2>6. \A k \in 0 .. m : h[k] \in Run
    <3>1. \A k \in 0 .. m : k \in Nat /\ k <= m
      OBVIOUS
    <3> HIDE DEF h
    <3> QED BY <2>4, <3>1
  <2> HIDE DEF h, T
  <2> QED BY <2>5, <2>6
<1>15. FoldLeft(Turn, x, turns) = h[m]
  BY <1>1, <1>2, <1>11 DEF run
<1> HIDE DEF h
<1> QED BY <1>12, <1>13, <1>14, <1>15 DEF TurnChain, turns

LEMMA TurnsKeep ==
    ASSUME NEW x \in Run, NEW m \in Nat
    PROVE  FoldLeft(Turn, x, [i \in 1 .. m |-> i]) \in Run
<1>1. PICK h \in [0 .. m -> Run] : TurnChain(h, x, m)
  BY TurnsSteps
<1>2. m \in 0 .. m
  OBVIOUS
<1> QED BY <1>1, <1>2 DEF TurnChain

LEMMA Quotient ==
    ASSUME NEW a \in Nat, NEW b \in Nat \ {0}
    PROVE  a \div b + 1 \in Nat
<1>1. a \div b \in Nat
  OBVIOUS
<1> QED BY <1>1

LEMMA DecodeAllKeeps ==
    ASSUME NEW d \in Decoder
    PROVE  DecodeAll(d) \in Run
<1> DEFINE m == Len(d.buf) \div FrameLen + 1
           x == [d |-> d, events |-> <<>>, on |-> TRUE]
<1>1. m \in Nat
  <2>1. Len(d.buf) \in Nat /\ FrameLen \in Nat \ {0}
    BY DecoderIs, BoundsNat
  <2> QED BY <2>1, Quotient
<1>2. x \in Run
  BY DEF Run
<1>3. DecodeAll(d) = FoldLeft(Turn, x, [i \in 1 .. m |-> i])
  BY DEF DecodeAll
<1> HIDE DEF m, x
<1> QED BY <1>1, <1>2, <1>3, TurnsKeep

LEMMA FeedKeeps ==
    ASSUME NEW d \in Decoder, NEW cells \in Seq(Cell)
    PROVE  Feed(d, cells) \in Decoder
<1> DEFINE b == d.buf \o cells
           state == IF d.state = "Recovering" THEN "Ready" ELSE d.state
           e == [d EXCEPT !.buf = b, !.state = state]
<1>1. CASE Len(d.buf) + Len(cells) > MaxBuffer
  BY <1>1 DEF Feed
<1>2. CASE ~(Len(d.buf) + Len(cells) > MaxBuffer)
  <2>1. b \in Seq(Cell) /\ Len(b) = Len(d.buf) + Len(cells)
    BY DecoderIs
  <2>2. Len(b) <= MaxBuffer
    <3>1. Len(d.buf) \in Nat /\ Len(cells) \in Nat /\ MaxBuffer \in Nat
      BY DecoderIs, BoundsNat
    <3> HIDE DEF b
    <3> QED BY <1>2, <2>1, <3>1
  <2>3. Feed(d, cells) = e
    BY <1>2 DEF Feed
  <2> HIDE DEF b
  <2>4. e \in [buf : Seq(Cell), state : {"Ready", "Recovering", "Stopped"}, errors : 0 .. MaxErrors]
        /\ e.buf = b /\ e.state = state /\ e.errors = d.errors
    BY <2>1 DEF Decoder
  <2> HIDE DEF e
  <2>5. state # "Stopped" => d.errors < MaxErrors
    BY DecoderIs
  <2> QED BY <2>2, <2>3, <2>4, <2>5 DEF Decoder
<1> QED BY <1>1, <1>2

LEMMA NewDecoderIs == NewDecoder \in Decoder
<1>1. <<>> \in Seq(Cell) /\ Len(<<>>) = 0
  OBVIOUS
<1>2. 0 \in 0 .. MaxErrors /\ 0 < MaxErrors /\ 0 <= MaxBuffer
  BY BoundsNat
<1> QED BY <1>1, <1>2 DEF NewDecoder, Decoder

LEMMA CellsAre ==
    ASSUME NEW event \in Content, NEW trouble \in Damage \cup {"none", "split", "held"}
    PROVE  Cells(event, trouble) \in Seq(Cell) /\ Len(Cells(event, trouble)) = FrameLen
<1> DEFINE c == [len   |-> CASE trouble = "length"  -> 0
                             [] trouble = "swallow" -> FrameLen + 1
                             [] OTHER               -> FrameLen,
                 crc   |-> trouble \notin {"prelude", "swallow"},
                 body  |-> IF Intact(trouble) THEN "intact" ELSE trouble,
                 event |-> event]
           rest == [i \in 1 .. FrameLen - 1 |-> Text]
<1>1. FrameLen \in Nat \ {0}
  BY BoundsNat
<1>2. c \in Cell
  <2>1. (CASE trouble = "length"  -> 0
           [] trouble = "swallow" -> FrameLen + 1
           [] OTHER               -> FrameLen) \in Nat
    BY <1>1
  <2>2. (trouble \notin {"prelude", "swallow"}) \in BOOLEAN
    OBVIOUS
  <2>3. (IF Intact(trouble) THEN "intact" ELSE trouble) \in Damage \cup {"intact", "text"}
    BY DEF Intact
  <2> QED BY <2>1, <2>2, <2>3 DEF Cell
<1>3. Text \in Cell
  BY DEF Text, Cell
<1>4. rest \in Seq(Cell) /\ Len(rest) = FrameLen - 1
  <2>1. FrameLen - 1 \in Nat
    BY <1>1
  <2>2. rest \in [1 .. FrameLen - 1 -> Cell]
    BY <1>3
  <2>3. DOMAIN rest = 1 .. FrameLen - 1
    OBVIOUS
  <2> HIDE DEF rest
  <2>4. rest \in Seq(Cell)
    BY <2>1, <2>2
  <2> QED BY <2>1, <2>3, <2>4
<1>5. Cells(event, trouble) = <<c>> \o rest
  BY DEF Cells
<1> HIDE DEF c, rest
<1>6. <<c>> \in Seq(Cell) /\ Len(<<c>>) = 1
  BY <1>2
<1> QED BY <1>1, <1>4, <1>5, <1>6

-----------------------------------------------------------------------------
(* The client.                                                             *)

ClientBlock == [type : BlockType, open : BOOLEAN, signatures : Nat, text : Seq(Char)]
Client == [phase : Phase, blocks : Seq(ClientBlock), reason : Reasons \cup {"none"}]

PartOf(b) == [type |-> b.type, open |-> b.open, signatures |-> b.signatures]
ViewOf(c) == [phase |-> c.phase, blocks |-> [i \in DOMAIN c.blocks |-> PartOf(c.blocks[i])]]

LEMMA ViewIs ==
    ASSUME NEW c \in Client
    PROVE  /\ ViewOf(c) \in View /\ ViewOf(c).phase = c.phase
           /\ Len(c.blocks) \in Nat /\ DOMAIN c.blocks = 1 .. Len(c.blocks)
           /\ Len(ViewOf(c).blocks) = Len(c.blocks)
           /\ DOMAIN ViewOf(c).blocks = DOMAIN c.blocks
           /\ \A i \in DOMAIN c.blocks :
                 c.blocks[i] \in ClientBlock /\ ViewOf(c).blocks[i] = PartOf(c.blocks[i])
<1>1. c.blocks \in Seq(ClientBlock) /\ c.phase \in Phase
  BY DEF Client
<1>2. Len(c.blocks) \in Nat /\ DOMAIN c.blocks = 1 .. Len(c.blocks)
      /\ \A i \in 1 .. Len(c.blocks) : c.blocks[i] \in ClientBlock
  BY <1>1
<1> DEFINE s == [i \in 1 .. Len(c.blocks) |-> PartOf(c.blocks[i])]
<1>3. s \in Seq(Part) /\ DOMAIN s = 1 .. Len(c.blocks)
  <2>1. \A b \in ClientBlock : PartOf(b) \in Part
    BY DEF PartOf, Part, ClientBlock
  <2> QED BY <1>2, <2>1
<1>4. \A i \in 1 .. Len(c.blocks) : s[i] = PartOf(c.blocks[i])
  OBVIOUS
<1>5. ViewOf(c) = [phase |-> c.phase, blocks |-> s]
  BY <1>2 DEF ViewOf
<1> HIDE DEF s
<1>6. Len(s) = Len(c.blocks)
  BY <1>2, <1>3
<1>7. ViewOf(c) \in View
  BY <1>1, <1>3, <1>5 DEF View
<1> QED BY <1>2, <1>3, <1>4, <1>5, <1>6, <1>7

\* Two views are the same if their phases and their blocks are.
LEMMA SameView ==
    ASSUME NEW u \in View, NEW w \in View, u.phase = w.phase,
           Len(u.blocks) = Len(w.blocks),
           \A i \in 1 .. Len(u.blocks) : u.blocks[i] = w.blocks[i]
    PROVE  u = w
<1>1. u.blocks \in Seq(Part) /\ w.blocks \in Seq(Part)
  BY DEF View
<1>2. u.blocks = w.blocks
  BY <1>1, SeqEqual
<1> QED BY <1>2 DEF View

\* A block of the client's message is replaced.
LEMMA BlockSet ==
    ASSUME NEW c \in Client, NEW i \in DOMAIN c.blocks, NEW b \in ClientBlock, NEW d,
           d = [c EXCEPT !.blocks = [c.blocks EXCEPT ![i] = b]]
    PROVE  /\ d \in Client /\ d.phase = c.phase /\ Len(ViewOf(d).blocks) = Len(c.blocks)
           /\ ViewOf(d) \in View
           /\ \A j \in 1 .. Len(c.blocks) : ViewOf(d).blocks[j] =
                 IF j = i THEN PartOf(b) ELSE ViewOf(c).blocks[j]
<1>1. c.blocks \in Seq(ClientBlock)
  BY DEF Client
<1> DEFINE s == [c.blocks EXCEPT ![i] = b]
<1>2. /\ s \in Seq(ClientBlock) /\ Len(s) = Len(c.blocks) /\ Len(c.blocks) \in Nat
      /\ \A j \in 1 .. Len(c.blocks) : s[j] = IF j = i THEN b ELSE c.blocks[j]
  <2>1. i \in 1 .. Len(c.blocks)
    BY ViewIs
  <2> QED BY <1>1, <2>1, ExceptSeq
<1>3. d = [c EXCEPT !.blocks = s]
  OBVIOUS
<1> HIDE DEF s
<1>4. d \in Client /\ d.phase = c.phase /\ d.blocks = s
  BY <1>2, <1>3 DEF Client
<1>5. /\ ViewOf(d) \in View /\ Len(ViewOf(d).blocks) = Len(s) /\ DOMAIN s = 1 .. Len(s)
      /\ \A j \in DOMAIN s : ViewOf(d).blocks[j] = PartOf(s[j])
  BY <1>4, ViewIs
<1>6. \A j \in 1 .. Len(c.blocks) : ViewOf(c).blocks[j] = PartOf(c.blocks[j])
  BY ViewIs
<1>7. ASSUME NEW j \in 1 .. Len(c.blocks)
      PROVE  ViewOf(d).blocks[j] = IF j = i THEN PartOf(b) ELSE ViewOf(c).blocks[j]
  <2>1. j \in DOMAIN s
    BY <1>2, <1>5
  <2>2. ViewOf(d).blocks[j] = PartOf(s[j])
    BY <1>5, <2>1
  <2>3. s[j] = IF j = i THEN b ELSE c.blocks[j]
    BY <1>2
  <2>4. ViewOf(c).blocks[j] = PartOf(c.blocks[j])
    BY <1>6
  <2> QED BY <2>2, <2>3, <2>4
<1>8. Len(ViewOf(d).blocks) = Len(c.blocks)
  BY <1>2, <1>5
<1> QED BY <1>4, <1>5, <1>7, <1>8

LEMMA OpenOfIs ==
    ASSUME client \in Client, NEW types
    PROVE  Grammar!OpenOf(types) = OpenParts(ViewOf(client), types)
<1>1. \A i \in DOMAIN client.blocks :
         /\ ViewOf(client).blocks[i].open = client.blocks[i].open
         /\ ViewOf(client).blocks[i].type = client.blocks[i].type
  <2>1. \A i \in DOMAIN client.blocks : ViewOf(client).blocks[i] = PartOf(client.blocks[i])
    BY ViewIs
  <2>2. \A b : PartOf(b).open = b.open /\ PartOf(b).type = b.type
    BY DEF PartOf
  <2> QED BY <2>1, <2>2
<1>2. DOMAIN ViewOf(client).blocks = DOMAIN client.blocks
  BY ViewIs
<1> QED BY <1>1, <1>2 DEF Grammar!OpenOf, OpenParts

LEMMA PrefixOfConcat ==
    ASSUME NEW s \in Seq(Char), NEW t \in Seq(Char)
    PROVE  IsPrefix(s, s \o t)
<1>1. /\ Len(s) \in Nat /\ Len(t) \in Nat /\ s \o t \in Seq(Char)
      /\ Len(s \o t) = Len(s) + Len(t)
      /\ \A i \in 1 .. Len(s) : (s \o t)[i] = s[i] /\ s[i] \in Char
  OBVIOUS
<1> DEFINE u == s \o t
<1> HIDE DEF u
<1>2. \A i \in 1 .. Len(s) : u[i] = s[i] /\ s[i] \in Char /\ u[i] \in Char
  BY <1>1 DEF u
<1>3. SubSeq(s, 1, Len(s)) = s
  BY SubSeqFull
<1>4. /\ SubSeq(u, 1, Len(s)) \in Seq(Char) /\ Len(SubSeq(u, 1, Len(s))) = Len(s)
      /\ \A i \in 1 .. Len(s) : SubSeq(u, 1, Len(s))[i] = u[i]
  <2>1. 1 \in Int /\ Len(s) \in Int /\ \A i \in 1 .. Len(s) : u[i] \in Char
    BY <1>1, <1>2
  <2>2. /\ SubSeq(u, 1, Len(s)) \in Seq(Char)
        /\ Len(SubSeq(u, 1, Len(s))) = IF 1 <= Len(s) THEN Len(s) - 1 + 1 ELSE 0
        /\ \A i \in 1 .. Len(s) - 1 + 1 : SubSeq(u, 1, Len(s))[i] = u[1 + i - 1]
    BY <2>1, SubSeqProperties
  <2> QED BY <1>1, <2>2
<1>5. SubSeq(u, 1, Len(s)) = s
  BY <1>2, <1>4, SeqEqual
<1> QED BY <1>1, <1>3, <1>5 DEF IsPrefix, u

\* An event that takes one step of the grammar, and its effect on the view.
Simple(item) == item.ev = "stop" => item.tag = "" /\ \E i \in Nat : item.at = {i}

LEMMA ReceivePhase ==
    ASSUME client \in Client, NEW item \in Item, Legal(ViewOf(client), item),
           item.ev \in {"message_start", "message_delta", "message_stop", "error"},
           client' = Receive(client, item)
    PROVE  /\ client' \in Client /\ ViewOf(client') = After(ViewOf(client), item)
           /\ Grammar!GrammarNext
<1> DEFINE v == ViewOf(client)
<1>1. v \in View /\ v.phase = client.phase
  BY ViewIs
<1>2. client'.blocks = client.blocks
  BY DEF Receive, Client
<1>3. item.at = {}
  BY DEF Legal
<1>4. client' \in Client /\ client'.phase = PhaseAfter(client.phase, item.ev)
  <2>1. item.ev = "message_delta" => item.tag \in Reasons
    BY DEF Legal
  <2>2. {"open", "delta", "stopped", "failed"} \subseteq Phase
    BY DEF Phase
  <2> QED BY <2>1, <2>2 DEF Receive, PhaseAfter, Client
<1>5. ViewOf(client') = After(v, item)
  <2>1. After(v, item) \in View
    BY <1>1, AfterIsView
  <2>2. ViewOf(client') \in View /\ ViewOf(client').phase = client'.phase
        /\ ViewOf(client').blocks = v.blocks
    BY <1>2, <1>4, ViewIs DEF ViewOf
  <2>3. After(v, item).phase = client'.phase
    BY <1>1, <1>4 DEF After
  <2>4. /\ Len(After(v, item).blocks) = Len(v.blocks)
        /\ \A i \in 1 .. Len(v.blocks) : After(v, item).blocks[i] = v.blocks[i]
    BY <1>1, <1>3, AfterBlocks
  <2> QED BY <2>1, <2>2, <2>3, <2>4, SameView
<1>6. Grammar!OpenOf(BlockType) = OpenParts(v, BlockType)
  BY OpenOfIs
<1>7. Grammar!GrammarNext
  <2>1. CASE item.ev = "message_start"
    <3>1. Grammar!Begin
      BY <1>1, <2>1 DEF Legal, Receive, Grammar!Begin
    <3> QED BY <3>1 DEF Grammar!GrammarNext
  <2>2. CASE item.ev = "message_delta"
    <3>1. Grammar!SendReason(item.tag) /\ item.tag \in Reasons
      BY <1>1, <1>6, <2>2 DEF Legal, Receive, Grammar!SendReason, Grammar!AllClosed, BlockType
    <3> QED BY <3>1 DEF Grammar!GrammarNext, Reasons
  <2>3. CASE item.ev = "message_stop"
    <3>1. Grammar!StopMessage
      BY <1>1, <2>3 DEF Legal, Receive, Grammar!StopMessage
    <3> QED BY <3>1 DEF Grammar!GrammarNext
  <2>4. CASE item.ev = "error"
    <3>1. Grammar!Fail
      BY <1>1, <1>6, <2>4 DEF Legal, Receive, Grammar!Fail, Grammar!AllClosed, BlockType
    <3> QED BY <3>1 DEF Grammar!GrammarNext
  <2> QED BY <2>1, <2>2, <2>3, <2>4
<1> QED BY <1>4, <1>5, <1>7

LEMMA ReceiveStart ==
    ASSUME client \in Client, NEW item \in Item, Legal(ViewOf(client), item),
           item.ev = "start", client' = Receive(client, item)
    PROVE  /\ client' \in Client /\ ViewOf(client') = After(ViewOf(client), item)
           /\ Grammar!GrammarNext
<1> DEFINE v == ViewOf(client)
           b == Grammar!Block(item.tag)
           s == Append(client.blocks, b)
<1>1. v \in View /\ v.phase = client.phase /\ client.blocks \in Seq(ClientBlock)
      /\ Len(v.blocks) = Len(client.blocks) /\ Len(client.blocks) \in Nat
      /\ DOMAIN client.blocks = 1 .. Len(client.blocks)
  BY ViewIs DEF Client
<1>2. item.tag \in BlockType /\ client.phase = "open"
      /\ (item.tag # "thinking" => OpenParts(v, {"text"}) = {})
  BY <1>1 DEF Legal
<1>3. b \in ClientBlock /\ PartOf(b) = [type |-> item.tag, open |-> TRUE, signatures |-> 0]
  BY <1>2, NoText DEF Grammar!Block, ClientBlock, PartOf
<1>4. client' = [client EXCEPT !.blocks = s]
  BY DEF Receive, Client
<1> HIDE DEF b
<1>5. /\ s \in Seq(ClientBlock) /\ Len(s) = Len(client.blocks) + 1
      /\ s[Len(client.blocks) + 1] = b
      /\ \A i \in 1 .. Len(client.blocks) : s[i] = client.blocks[i]
  BY <1>1, <1>3, Appended
<1> HIDE DEF s
<1>6. client' \in Client /\ client'.phase = client.phase /\ client'.blocks = s
  BY <1>4, <1>5 DEF Client
<1>7. ViewOf(client') = After(v, item)
  <2>1. /\ ViewOf(client') \in View /\ ViewOf(client').phase = client'.phase
        /\ Len(ViewOf(client').blocks) = Len(s) /\ DOMAIN s = 1 .. Len(s)
        /\ \A i \in DOMAIN s : ViewOf(client').blocks[i] = PartOf(s[i])
    BY <1>6, ViewIs
  <2> DEFINE part == [type |-> item.tag, open |-> TRUE, signatures |-> 0]
  <2>2. /\ After(v, item) \in View /\ After(v, item).phase = v.phase
        /\ After(v, item).blocks = Append(v.blocks, part)
    BY <1>1, AfterIsView DEF After, PhaseAfter
  <2>3. part \in Part /\ part = PartOf(b)
    BY <1>2, <1>3 DEF Part
  <2>4. v.blocks \in Seq(Part)
    BY <1>1 DEF View
  <2> HIDE DEF part
  <2>5. /\ Len(After(v, item).blocks) = Len(v.blocks) + 1
        /\ After(v, item).blocks[Len(v.blocks) + 1] = part
        /\ \A i \in 1 .. Len(v.blocks) : After(v, item).blocks[i] = v.blocks[i]
    BY <2>2, <2>3, <2>4, Appended
  <2>6. \A i \in 1 .. Len(client.blocks) : v.blocks[i] = PartOf(client.blocks[i])
    BY ViewIs
  <2>7. ASSUME NEW i \in 1 .. Len(s) PROVE ViewOf(client').blocks[i] = After(v, item).blocks[i]
    <3>1. CASE i = Len(client.blocks) + 1
      BY <1>1, <1>5, <2>1, <2>3, <2>5, <3>1
    <3>2. CASE i \in 1 .. Len(client.blocks)
      <4>1. ViewOf(client').blocks[i] = PartOf(client.blocks[i])
        BY <1>5, <2>1, <3>2
      <4> QED BY <1>1, <2>5, <2>6, <3>2, <4>1
    <3> QED BY <1>1, <1>5, <3>1, <3>2
  <2>8. ViewOf(client').phase = After(v, item).phase
        /\ Len(ViewOf(client').blocks) = Len(After(v, item).blocks)
    BY <1>1, <1>5, <1>6, <2>1, <2>2, <2>5
  <2> QED BY <2>1, <2>2, <2>7, <2>8, SameView
<1>8. Grammar!GrammarNext
  <2>1. Grammar!OpenOf({"text"}) = OpenParts(v, {"text"})
    BY OpenOfIs
  <2>2. Grammar!OpenBlock(item.tag)
    BY <1>2, <1>4, <2>1 DEF Grammar!OpenBlock, b, s, Client
  <2> QED BY <1>2, <2>2 DEF Grammar!GrammarNext, BlockType
<1> QED BY <1>6, <1>7, <1>8

\* A delta, a signature or a stop is about one open block.
LEMMA ReceiveBlock ==
    ASSUME client \in Client, NEW item \in Item, Legal(ViewOf(client), item), Simple(item),
           item.ev \in {"text", "thinking", "json", "signature", "stop"},
           client' = Receive(client, item)
    PROVE  /\ client' \in Client /\ ViewOf(client') = After(ViewOf(client), item)
           /\ Grammar!GrammarNext
<1> DEFINE v == ViewOf(client)
<1>1. v \in View /\ v.phase = client.phase /\ DOMAIN v.blocks = DOMAIN client.blocks
      /\ Len(v.blocks) = Len(client.blocks) /\ DOMAIN client.blocks = 1 .. Len(client.blocks)
  BY ViewIs
<1>2. PICK i \in DOMAIN client.blocks :
         /\ item.at = {i} /\ i \in OpenParts(v, BlockType)
         /\ item.ev # "stop" => v.blocks[i].signatures = 0
         /\ item.ev = "signature" => v.blocks[i].type = "thinking"
  <2>1. CASE item.ev = "stop"
    <3>1. PICK i \in Nat : item.at = {i}
      BY <2>1 DEF Simple
    <3>2. i \in OpenParts(v, BlockType)
      BY <2>1, <3>1 DEF Legal
    <3>3. i \in DOMAIN client.blocks
      BY <1>1, <3>2 DEF OpenParts
    <3> QED BY <2>1, <3>1, <3>2, <3>3
  <2>2. CASE item.ev = "signature"
    <3>1. PICK i \in DOMAIN v.blocks : Fills(v, item, i, {"thinking"})
      BY <2>2 DEF Legal
    <3> QED BY <1>1, <2>2, <3>1 DEF Fills, OpenParts, BlockType
  <2>3. CASE item.ev \in {"text", "thinking", "json"}
    <3>1. PICK i \in DOMAIN v.blocks : Fills(v, item, i, {Takes(item.ev)})
      BY <2>3 DEF Legal
    <3> QED BY <1>1, <2>3, <3>1 DEF Fills, OpenParts, Takes, BlockType
  <2> QED BY <2>1, <2>2, <2>3
<1>3. client.phase = "open"
  BY <1>1 DEF Legal
<1> DEFINE o == client.blocks[i]
<1>4. o \in ClientBlock /\ v.blocks[i] = PartOf(o)
  BY ViewIs
<1>5. /\ (CHOOSE k \in item.at : TRUE) = i
      /\ o.open /\ (item.ev # "stop" => o.signatures = 0)
      /\ (item.ev = "signature" => o.type = "thinking")
  BY <1>2, <1>4 DEF OpenParts, PartOf
<1>6. PICK b \in ClientBlock :
         /\ client' = [client EXCEPT !.blocks = [client.blocks EXCEPT ![i] = b]]
         /\ PartOf(b) = PartAfter(PartOf(o), item)
         /\ Grammar!GrammarNext
  <2>1. Grammar!OpenOf(BlockType) = OpenParts(v, BlockType) /\ i \in Grammar!OpenOf(BlockType)
    BY <1>2, OpenOfIs
  <2>2. CASE item.ev \in {"text", "thinking", "json"}
    <3> DEFINE b == [o EXCEPT !.text = o.text \o item.text]
    <3>1. o.text \in Seq(Char) /\ item.text \in Seq(Char) /\ o.text \o item.text \in Seq(Char)
      BY <1>4 DEF ClientBlock, Item
    <3>2. b \in ClientBlock /\ b.text = o.text \o item.text
      BY <1>4, <3>1 DEF ClientBlock
    <3>3. client' = [client EXCEPT !.blocks = [client.blocks EXCEPT ![i] = b]]
      BY <1>5, <2>2 DEF Receive, Client
    <3>4. PartOf(b) = PartAfter(PartOf(o), item)
      BY <1>4, <2>2 DEF PartOf, PartAfter, Signs, ClientBlock
    <3>5. client'.blocks[i].text = b.text
      BY <3>3 DEF Client
    <3>6. Grammar!Extend(i)
      <4>1. client' = [client EXCEPT !.blocks[i].text = client'.blocks[i].text]
        BY <3>2, <3>3, <3>5 DEF Client
      <4>2. IsPrefix(client.blocks[i].text, client'.blocks[i].text)
        BY <3>1, <3>2, <3>5, PrefixOfConcat
      <4>3. Grammar!IsPrefix(client.blocks[i].text, client'.blocks[i].text)
        BY <4>2 DEF IsPrefix, Grammar!IsPrefix
      <4> QED BY <1>3, <1>5, <2>1, <2>2, <4>1, <4>3 DEF Grammar!Extend, BlockType
    <3> QED BY <3>2, <3>3, <3>4, <3>6 DEF Grammar!GrammarNext
  <2>3. CASE item.ev = "signature"
    <3> DEFINE b == [o EXCEPT !.signatures = 1]
    <3>1. b \in ClientBlock
      BY <1>4 DEF ClientBlock
    <3>2. client' = [client EXCEPT !.blocks = [client.blocks EXCEPT ![i] = b]]
      <4>1. client' = [client EXCEPT !.blocks[i].signatures = o.signatures + 1]
        BY <1>5, <2>3 DEF Receive
      <4>2. o.signatures + 1 = 1
        BY <1>5, <2>3
      <4>3. client' = [client EXCEPT !.blocks[i].signatures = 1]
        BY <4>1, <4>2
      <4> QED BY <4>3 DEF Client
    <3>3. PartOf(b) = PartAfter(PartOf(o), item)
      BY <1>4, <1>5, <2>3 DEF PartOf, PartAfter, Signs, ClientBlock
    <3>4. Grammar!Sign(i)
      <4>1. i \in Grammar!OpenOf({"thinking"})
        BY <1>5, <2>1, <2>3 DEF Grammar!OpenOf
      <4> QED BY <1>3, <1>5, <2>3, <3>2, <4>1 DEF Grammar!Sign
    <3> QED BY <3>1, <3>2, <3>3, <3>4 DEF Grammar!GrammarNext
  <2>4. CASE item.ev = "stop"
    <3> DEFINE b == [o EXCEPT !.open = FALSE]
    <3>1. b \in ClientBlock
      BY <1>4 DEF ClientBlock
    <3>2. client' = [client EXCEPT !.blocks = [client.blocks EXCEPT ![i] = b]]
      BY <1>5, <2>4 DEF Receive, Client
    <3>3. PartOf(b) = PartAfter(PartOf(o), item)
      <4>1. item.tag = ""
        BY <2>4 DEF Simple
      <4> QED BY <1>4, <2>4, <4>1 DEF PartOf, PartAfter, Signs, ClientBlock
    <3>4. Grammar!CloseBlock(i)
      BY <1>3, <2>1, <2>4, <3>2 DEF Grammar!CloseBlock, BlockType
    <3> QED BY <3>1, <3>2, <3>3, <3>4 DEF Grammar!GrammarNext
  <2> QED BY <2>2, <2>3, <2>4
<1>7. /\ client' \in Client /\ client'.phase = client.phase
      /\ Len(ViewOf(client').blocks) = Len(client.blocks) /\ ViewOf(client') \in View
      /\ \A j \in 1 .. Len(client.blocks) : ViewOf(client').blocks[j] =
            IF j = i THEN PartOf(b) ELSE v.blocks[j]
  BY <1>6, BlockSet
<1>8. /\ After(v, item) \in View /\ After(v, item).phase = v.phase
      /\ Len(After(v, item).blocks) = Len(v.blocks)
      /\ \A j \in 1 .. Len(v.blocks) : After(v, item).blocks[j] =
            IF j \in item.at THEN PartAfter(v.blocks[j], item) ELSE v.blocks[j]
  <2>1. item.ev # "start" /\ PhaseAfter(v.phase, item.ev) = v.phase
    BY DEF PhaseAfter
  <2> QED BY <1>1, <2>1, AfterIsView, AfterBlocks DEF After
<1>9. ViewOf(client') = After(v, item)
  <2>1. ViewOf(client').phase = client'.phase
    BY <1>7, ViewIs
  <2>2. \A j \in 1 .. Len(client.blocks) : ViewOf(client').blocks[j] = After(v, item).blocks[j]
    BY <1>1, <1>2, <1>4, <1>6, <1>7, <1>8
  <2> QED BY <1>1, <1>7, <1>8, <2>1, <2>2, SameView
<1> QED BY <1>6, <1>7, <1>9

LEMMA ReceiveIs ==
    ASSUME client \in Client, NEW item \in Item, Legal(ViewOf(client), item), Simple(item),
           client' = Receive(client, item)
    PROVE  /\ client' \in Client /\ ViewOf(client') = After(ViewOf(client), item)
           /\ Grammar!GrammarNext
<1>1. item.ev \in Event
  BY DEF Item
<1> QED BY <1>1, ReceivePhase, ReceiveStart, ReceiveBlock DEF Event

-----------------------------------------------------------------------------
(* A delivery.  A stop of several blocks is delivered one block at a time.  *)

\* Blocks that are closed one by one leave the view that closing them at once leaves.
LEMMA SplitStop ==
    ASSUME NEW v \in View, NEW item \in Item, item.ev = "stop", Legal(v, item), NEW i \in item.at,
           NEW u \in View, u.phase = v.phase, Len(u.blocks) = Len(v.blocks),
           \A j \in 1 .. Len(v.blocks) : u.blocks[j] =
              IF j = i THEN PartAfter(v.blocks[j], item) ELSE v.blocks[j],
           NEW rest, rest = [item EXCEPT !.at = item.at \ {i}]
    PROVE  /\ item.at = {i} => u = After(v, item)
           /\ item.at # {i} => rest \in Item /\ Legal(u, rest) /\ After(u, rest) = After(v, item)
<1>1. /\ After(v, item) \in View /\ After(v, item).phase = v.phase
      /\ Len(After(v, item).blocks) = Len(v.blocks)
      /\ \A j \in 1 .. Len(v.blocks) : After(v, item).blocks[j] =
            IF j \in item.at THEN PartAfter(v.blocks[j], item) ELSE v.blocks[j]
  <2>1. item.ev # "start" /\ PhaseAfter(v.phase, item.ev) = v.phase
    BY DEF PhaseAfter
  <2> QED BY <2>1, AfterIsView, AfterBlocks DEF After
<1>2. ASSUME item.at = {i} PROVE u = After(v, item)
  <2>1. \A j \in 1 .. Len(u.blocks) : u.blocks[j] = After(v, item).blocks[j]
    BY <1>1, <1>2
  <2> QED BY <1>1, <2>1, SameView
<1>3. ASSUME item.at # {i}
      PROVE  rest \in Item /\ Legal(u, rest) /\ After(u, rest) = After(v, item)
  <2>1. /\ rest \in Item /\ rest.ev = "stop" /\ rest.at = item.at \ {i} /\ rest.tag = item.tag
    BY DEF Item
  <2>2. rest.at # {}
    BY <1>3, <2>1
  <2>3. /\ v.phase = "open" /\ item.at \subseteq OpenParts(v, BlockType)
        /\ item.tag = "signed" => \A j \in item.at : v.blocks[j].type = "thinking"
                                                     => v.blocks[j].signatures = 0
    BY DEF Legal
  <2>4. DOMAIN v.blocks = 1 .. Len(v.blocks) /\ DOMAIN u.blocks = 1 .. Len(v.blocks)
    <3>1. v.blocks \in Seq(Part) /\ u.blocks \in Seq(Part)
      BY DEF View
    <3> QED BY <3>1
  <2>5. \A j \in rest.at : j \in 1 .. Len(v.blocks) /\ u.blocks[j] = v.blocks[j]
    BY <2>1, <2>3, <2>4 DEF OpenParts
  <2>6. rest.at \subseteq OpenParts(u, BlockType)
    BY <2>1, <2>3, <2>4, <2>5 DEF OpenParts
  <2>7. Legal(u, rest)
    BY <2>1, <2>2, <2>3, <2>5, <2>6 DEF Legal
  <2>8. /\ After(u, rest) \in View /\ After(u, rest).phase = u.phase
        /\ Len(After(u, rest).blocks) = Len(u.blocks)
        /\ \A j \in 1 .. Len(u.blocks) : After(u, rest).blocks[j] =
              IF j \in rest.at THEN PartAfter(u.blocks[j], rest) ELSE u.blocks[j]
    <3>1. rest.ev # "start" /\ PhaseAfter(u.phase, rest.ev) = u.phase
      BY <2>1 DEF PhaseAfter
    <3> QED BY <2>1, <2>7, <3>1, AfterIsView, AfterBlocks DEF After
  <2>9. \A part : PartAfter(part, rest) = PartAfter(part, item)
    BY <2>1 DEF PartAfter, Signs
  <2>10. ASSUME NEW j \in 1 .. Len(u.blocks)
         PROVE  After(u, rest).blocks[j] = After(v, item).blocks[j]
    <3>1. CASE j = i
      BY <1>1, <2>1, <2>8, <3>1
    <3>2. CASE j # i /\ j \in item.at
      <4>1. j \in rest.at /\ j \in 1 .. Len(v.blocks)
        BY <2>1, <3>2
      <4>2. After(u, rest).blocks[j] = PartAfter(u.blocks[j], rest)
        BY <2>8, <4>1
      <4>3. After(v, item).blocks[j] = PartAfter(v.blocks[j], item)
        BY <1>1, <3>2, <4>1
      <4>4. u.blocks[j] = v.blocks[j]
        BY <2>5, <4>1
      <4>5. PartAfter(v.blocks[j], rest) = PartAfter(v.blocks[j], item)
        BY <2>9
      <4> QED BY <4>2, <4>3, <4>4, <4>5
    <3>3. CASE j \notin item.at
      BY <1>1, <2>1, <2>8, <3>3
    <3> QED BY <3>1, <3>2, <3>3
  <2>11. After(u, rest) = After(v, item)
    <3>1. /\ After(u, rest).phase = After(v, item).phase
          /\ Len(After(u, rest).blocks) = Len(After(v, item).blocks)
      BY <1>1, <2>8
    <3>2. \A j \in 1 .. Len(After(u, rest).blocks) :
             After(u, rest).blocks[j] = After(v, item).blocks[j]
      BY <2>8, <2>10
    <3>3. After(u, rest) \in View /\ After(v, item) \in View
      BY <1>1, <2>8
    <3> QED BY <3>1, <3>2, <3>3, SameView
  <2> QED BY <2>1, <2>7, <2>11
<1> QED BY <1>2, <1>3

\* What a stop of the block i leaves to deliver.
Left(item, i, queue) ==
    IF item.at = {i} THEN Tail(queue)
    ELSE <<[item EXCEPT !.at = item.at \ {i}]>> \o Tail(queue)

LEMMA LeftFlows ==
    ASSUME NEW v \in View, NEW w \in View, NEW queue \in Seq(Item), queue # <<>>,
           Flow(v, queue, w), Head(queue).ev = "stop", NEW i \in Head(queue).at,
           NEW u \in View, u.phase = v.phase, Len(u.blocks) = Len(v.blocks),
           \A j \in 1 .. Len(v.blocks) : u.blocks[j] =
              IF j = i THEN PartAfter(v.blocks[j], Head(queue)) ELSE v.blocks[j]
    PROVE  Left(Head(queue), i, queue) \in Seq(Item) /\ Flow(u, Left(Head(queue), i, queue), w)
<1> DEFINE item == Head(queue)
           rest == [item EXCEPT !.at = item.at \ {i}]
<1>1. /\ item \in Item /\ Legal(v, item) /\ After(v, item) \in View
      /\ Tail(queue) \in Seq(Item) /\ Flow(After(v, item), Tail(queue), w)
  BY FlowHead
<1>2. item.ev = "stop" /\ i \in item.at
  OBVIOUS
<1>3. \A j \in 1 .. Len(v.blocks) : u.blocks[j] =
         IF j = i THEN PartAfter(v.blocks[j], item) ELSE v.blocks[j]
  OBVIOUS
<1> HIDE DEF item
<1>4. /\ item.at = {i} => u = After(v, item)
      /\ item.at # {i} => rest \in Item /\ Legal(u, rest) /\ After(u, rest) = After(v, item)
  BY <1>1, <1>2, <1>3, SplitStop
<1>5. Left(item, i, queue) = IF item.at = {i} THEN Tail(queue) ELSE <<rest>> \o Tail(queue)
  BY DEF Left
<1> HIDE DEF rest
<1>6. CASE item.at = {i}
  BY <1>1, <1>4, <1>5, <1>6 DEF item
<1>7. CASE item.at # {i}
  <2>1. <<rest>> \o Tail(queue) \in Seq(Item) /\ Flow(u, <<rest>> \o Tail(queue), w)
    BY <1>1, <1>4, <1>7, FlowCons
  <2> QED BY <1>5, <1>7, <2>1 DEF item
<1> QED BY <1>6, <1>7

\* The view after an event about one block.
LEMMA AfterOne ==
    ASSUME NEW v \in View, NEW one \in Item, Legal(v, one), one.ev \in {"signature", "stop"},
           NEW i \in Nat, one.at = {i}
    PROVE  /\ After(v, one) \in View /\ After(v, one).phase = v.phase
           /\ Len(After(v, one).blocks) = Len(v.blocks)
           /\ \A j \in 1 .. Len(v.blocks) : After(v, one).blocks[j] =
                 IF j = i THEN PartAfter(v.blocks[j], one) ELSE v.blocks[j]
<1>1. one.ev # "start" /\ PhaseAfter(v.phase, one.ev) = v.phase
  BY DEF PhaseAfter
<1>2. After(v, one) \in View
  BY AfterIsView
<1>3. After(v, one).phase = v.phase
  BY <1>1 DEF After
<1>4. /\ Len(After(v, one).blocks) = Len(v.blocks)
      /\ \A j \in 1 .. Len(v.blocks) : After(v, one).blocks[j] =
            IF j \in one.at THEN PartAfter(v.blocks[j], one) ELSE v.blocks[j]
  BY <1>1, AfterBlocks
<1>5. \A j : j \in one.at <=> j = i
  OBVIOUS
<1> QED BY <1>2, <1>3, <1>4, <1>5

\* The client takes the first event of a queue, or a part of it, and `left` is left.
TakesFirst(queue, left) ==
    LET item == Head(queue)
        One(ev, i) == [ev |-> ev, at |-> {i}, tag |-> "", text |-> <<>>]
    IN  \/ item.ev # "stop" /\ client' = Receive(client, item) /\ left = Tail(queue)
        \/ /\ item.ev = "stop"
           /\ \E i \in item.at :
                 IF item.tag = "signed" /\ client.blocks[i].type = "thinking"
                 THEN /\ client' = Receive(client, One("signature", i))
                      /\ left = <<One("stop", i)>> \o Left(item, i, queue)
                 ELSE /\ client' = Receive(client, One("stop", i))
                      /\ left = Left(item, i, queue)

LEMMA TakingKeeps ==
    ASSUME client \in Client, NEW queue \in Seq(Item), NEW w \in View, queue # <<>>,
           Flow(ViewOf(client), queue, w), NEW left, TakesFirst(queue, left)
    PROVE  /\ client' \in Client /\ left \in Seq(Item)
           /\ Flow(ViewOf(client'), left, w) /\ Grammar!GrammarNext
<1> DEFINE item == Head(queue)
           v == ViewOf(client)
           One(ev, i) == [ev |-> ev, at |-> {i}, tag |-> "", text |-> <<>>]
<1>1. v \in View /\ queue # <<>>
  BY ViewIs
<1>2. /\ item \in Item /\ Legal(v, item) /\ After(v, item) \in View
      /\ Tail(queue) \in Seq(Item) /\ Flow(After(v, item), Tail(queue), w)
  BY <1>1, FlowHead
<1>3. ASSUME item.ev # "stop", client' = Receive(client, item), left = Tail(queue)
      PROVE  /\ client' \in Client /\ left \in Seq(Item)
             /\ Flow(ViewOf(client'), left, w) /\ Grammar!GrammarNext
  <2>1. Simple(item)
    BY <1>3 DEF Simple
  <2>2. client' \in Client /\ ViewOf(client') = After(v, item) /\ Grammar!GrammarNext
    BY <1>2, <1>3, <2>1, ReceiveIs
  <2> QED BY <1>2, <1>3, <2>2
<1>4. ASSUME item.ev = "stop", NEW i \in item.at
      PROVE  /\ i \in Nat /\ i \in OpenParts(v, BlockType) /\ v.phase = "open"
             /\ v.blocks[i] \in Part /\ i \in 1 .. Len(v.blocks)
             /\ client.blocks[i].type = v.blocks[i].type
             /\ item.tag = "signed" /\ v.blocks[i].type = "thinking" => v.blocks[i].signatures = 0
  <2>1. i \in Nat
    BY <1>2 DEF Item
  <2>2. i \in OpenParts(v, BlockType) /\ v.phase = "open"
        /\ (item.tag = "signed" /\ v.blocks[i].type = "thinking" => v.blocks[i].signatures = 0)
    BY <1>2, <1>4 DEF Legal
  <2>3. i \in DOMAIN v.blocks /\ v.blocks \in Seq(Part)
    BY <1>1, <2>2 DEF OpenParts, View
  <2>4. i \in 1 .. Len(v.blocks) /\ v.blocks[i] \in Part
    BY <2>3
  <2>5. i \in DOMAIN client.blocks /\ v.blocks[i] = PartOf(client.blocks[i])
    BY <2>3, ViewIs
  <2> QED BY <2>1, <2>2, <2>4, <2>5 DEF PartOf
<1>5. ASSUME NEW i \in Nat, NEW ev \in {"signature", "stop"}
      PROVE  One(ev, i) \in Item
  <2>1. ev \in Event /\ "" \in Tag /\ {i} \in SUBSET Nat
    BY DEF Event, Tag
  <2> QED BY <2>1, NoText, ItemIs
<1>6. ASSUME item.ev = "stop", NEW i \in item.at,
             ~(item.tag = "signed" /\ client.blocks[i].type = "thinking"),
             client' = Receive(client, One("stop", i)), left = Left(item, i, queue)
      PROVE  /\ client' \in Client /\ left \in Seq(Item)
             /\ Flow(ViewOf(client'), left, w) /\ Grammar!GrammarNext
  <2> DEFINE one == One("stop", i)
  <2>1. one \in Item /\ one.ev = "stop" /\ one.at = {i} /\ one.tag = "" /\ i \in Nat
    BY <1>4, <1>5, <1>6
  <2>2. client' = Receive(client, one)
    BY <1>6
  <2> HIDE DEF one
  <2>3. Legal(v, one) /\ Simple(one)
    BY <1>4, <1>6, <2>1 DEF Legal, Simple
  <2>4. client' \in Client /\ ViewOf(client') = After(v, one) /\ Grammar!GrammarNext
    BY <2>1, <2>2, <2>3, ReceiveIs
  <2>5. /\ After(v, one) \in View /\ After(v, one).phase = v.phase
        /\ Len(After(v, one).blocks) = Len(v.blocks)
        /\ \A j \in 1 .. Len(v.blocks) : After(v, one).blocks[j] =
              IF j = i THEN PartAfter(v.blocks[j], one) ELSE v.blocks[j]
    <3>1. one.ev \in {"signature", "stop"}
      BY <2>1
    <3> QED BY <1>1, <2>1, <2>3, <3>1, AfterOne
  <2>6. PartAfter(v.blocks[i], one) = PartAfter(v.blocks[i], item)
    <3>1. ~(item.tag = "signed" /\ v.blocks[i].type = "thinking")
      BY <1>4, <1>6
    <3>2. ~Signs(v.blocks[i], one) /\ ~Signs(v.blocks[i], item)
      BY <1>6, <2>1, <3>1 DEF Signs
    <3>3. item.ev = "stop" /\ one.ev = "stop"
      BY <1>6, <2>1
    <3> QED BY <3>2, <3>3 DEF PartAfter
  <2>7. \A j \in 1 .. Len(v.blocks) : After(v, one).blocks[j] =
           IF j = i THEN PartAfter(v.blocks[j], item) ELSE v.blocks[j]
    BY <2>5, <2>6
  <2>8. left \in Seq(Item) /\ Flow(After(v, one), left, w)
    BY <1>1, <1>6, <2>5, <2>7, LeftFlows
  <2> QED BY <2>4, <2>8
<1>7. ASSUME item.ev = "stop", NEW i \in item.at,
             item.tag = "signed" /\ client.blocks[i].type = "thinking",
             client' = Receive(client, One("signature", i)),
             left = <<One("stop", i)>> \o Left(item, i, queue)
      PROVE  /\ client' \in Client /\ left \in Seq(Item)
             /\ Flow(ViewOf(client'), left, w) /\ Grammar!GrammarNext
  <2> DEFINE sig == One("signature", i)
             one == One("stop", i)
             u == After(v, sig)
             t == After(u, one)
  <2>1. /\ sig \in Item /\ sig.ev = "signature" /\ sig.at = {i} /\ sig.tag = "" /\ i \in Nat
        /\ one \in Item /\ one.ev = "stop" /\ one.at = {i} /\ one.tag = ""
    BY <1>4, <1>5, <1>7
  <2>2. client' = Receive(client, sig) /\ left = <<one>> \o Left(item, i, queue)
    BY <1>7
  <2> HIDE DEF one, sig
  <2>3. /\ i \in OpenParts(v, BlockType) /\ v.phase = "open" /\ v.blocks[i] \in Part
        /\ i \in 1 .. Len(v.blocks)
        /\ v.blocks[i].type = "thinking" /\ v.blocks[i].signatures = 0
    BY <1>4, <1>7
  <2>4. Legal(v, sig) /\ Simple(sig)
    <3>1. i \in DOMAIN v.blocks /\ i \in OpenParts(v, {"thinking"})
      BY <2>3 DEF OpenParts
    <3> QED BY <2>1, <2>3, <3>1 DEF Legal, Fills, Simple
  <2>5. client' \in Client /\ ViewOf(client') = u /\ Grammar!GrammarNext
    BY <2>1, <2>2, <2>4, ReceiveIs
  <2>6. /\ u \in View /\ u.phase = v.phase /\ Len(u.blocks) = Len(v.blocks)
        /\ \A j \in 1 .. Len(v.blocks) : u.blocks[j] =
              IF j = i THEN PartAfter(v.blocks[j], sig) ELSE v.blocks[j]
    <3>1. sig.ev \in {"signature", "stop"}
      BY <2>1
    <3> QED BY <1>1, <2>1, <2>4, <3>1, AfterOne
  <2> HIDE DEF u
  <2>7. u.blocks[i] = PartAfter(v.blocks[i], sig)
    BY <2>3, <2>6
  <2>8. Legal(u, one)
    <3>1. i \in DOMAIN u.blocks
      <4>1. u.blocks \in Seq(Part)
        BY <2>6 DEF View
      <4> QED BY <2>3, <2>6, <4>1
    <3>2. u.blocks[i].open /\ u.blocks[i].type \in BlockType
      <4>1. v.blocks[i].open
        BY <2>3 DEF OpenParts
      <4>2. \A part : /\ PartAfter(part, sig).type = part.type
                      /\ PartAfter(part, sig).open = (part.open /\ sig.ev # "stop")
        BY DEF PartAfter
      <4>3. sig.ev # "stop"
        BY <2>1
      <4>4. u.blocks[i].type = v.blocks[i].type
            /\ u.blocks[i].open = (v.blocks[i].open /\ sig.ev # "stop")
        BY <2>7, <4>2
      <4> QED BY <2>3, <4>1, <4>3, <4>4 DEF BlockType
    <3>3. i \in OpenParts(u, BlockType)
      BY <3>1, <3>2 DEF OpenParts
    <3> QED BY <2>1, <2>3, <2>6, <3>3 DEF Legal
  <2>9. /\ t \in View /\ t.phase = u.phase /\ Len(t.blocks) = Len(u.blocks)
        /\ \A j \in 1 .. Len(u.blocks) : t.blocks[j] =
              IF j = i THEN PartAfter(u.blocks[j], one) ELSE u.blocks[j]
    <3>1. one.ev \in {"signature", "stop"} /\ u \in View
      BY <2>1, <2>6
    <3> QED BY <2>1, <2>8, <3>1, AfterOne
  <2> HIDE DEF t
  <2>10. PartAfter(PartAfter(v.blocks[i], sig), one) = PartAfter(v.blocks[i], item)
    BY <1>7, <2>1, <2>3 DEF PartAfter, Signs
  <2>11. /\ t.phase = v.phase /\ Len(t.blocks) = Len(v.blocks)
         /\ \A j \in 1 .. Len(v.blocks) : t.blocks[j] =
               IF j = i THEN PartAfter(v.blocks[j], item) ELSE v.blocks[j]
    BY <2>6, <2>7, <2>9, <2>10
  <2> DEFINE behind == Left(item, i, queue)
  <2>12. behind \in Seq(Item) /\ Flow(t, behind, w)
    BY <1>1, <1>7, <2>9, <2>11, LeftFlows
  <2> HIDE DEF behind
  <2>13. <<one>> \o behind \in Seq(Item) /\ Flow(u, <<one>> \o behind, w)
    BY <2>1, <2>6, <2>8, <2>12, FlowCons DEF t
  <2> QED BY <2>2, <2>5, <2>13 DEF behind
<1>8. CASE item.ev # "stop"
  BY <1>3, <1>8 DEF TakesFirst
<1>9. CASE item.ev = "stop"
  <2>1. PICK i \in item.at :
          IF item.tag = "signed" /\ client.blocks[i].type = "thinking"
          THEN /\ client' = Receive(client, One("signature", i))
               /\ left = <<One("stop", i)>> \o Left(item, i, queue)
          ELSE /\ client' = Receive(client, One("stop", i))
               /\ left = Left(item, i, queue)
    BY <1>9 DEF TakesFirst
  <2> HIDE DEF One, item
  <2> QED BY <1>6, <1>7, <1>9, <2>1
<1> QED BY <1>8, <1>9

LEMMA DeliverTakes == Deliver => TakesFirst(pending, pending') /\ pending # <<>>
BY DEF Deliver, TakesFirst, Left

LEMMA DeliverKeeps ==
    ASSUME client \in Client, pending \in Seq(Item), NEW w \in View,
           Flow(ViewOf(client), pending, w), Deliver
    PROVE  /\ client' \in Client /\ pending' \in Seq(Item)
           /\ Flow(ViewOf(client'), pending', w) /\ Grammar!GrammarNext
BY DeliverTakes, TakingKeeps

-----------------------------------------------------------------------------
(* The invariant of the stream.                                            *)

\* A context with the events that the client has still to take.
Owed(x, queue) == [x EXCEPT !.out = queue]

LEMMA OwedIs ==
    ASSUME NEW x \in Context, NEW queue \in Seq(Item)
    PROVE  /\ Owed(x, queue) \in Context /\ Owed(x, queue).out = queue
           /\ Owed(x, x.out) = x /\ x.out \in Seq(Item)
           /\ \A more : Owed(Owed(x, queue), more) = Owed(x, more)
           /\ Owed(x, queue).blocks = x.blocks /\ Owed(x, queue).started = x.started
           /\ Owed(x, queue).textAt = x.textAt /\ Owed(x, queue).thinkAt = x.thinkAt
           /\ Owed(x, queue).tools = x.tools /\ Owed(x, queue).inside = x.inside
           /\ Owed(x, queue).reasoning = x.reasoning /\ Owed(x, queue).native = x.native
           /\ Owed(x, queue).failure = x.failure
<1>1. Owed(x, queue) \in Context /\ x.out \in Seq(Item)
  BY DEF Owed, Context
<1>2. Owed(x, x.out) = x
  BY DEF Owed, Context
<1>3. \A more : Owed(Owed(x, queue), more) = Owed(x, more)
  BY DEF Owed, Context
<1>4. /\ Owed(x, queue).out = queue
      /\ Owed(x, queue).blocks = x.blocks /\ Owed(x, queue).started = x.started
      /\ Owed(x, queue).textAt = x.textAt /\ Owed(x, queue).thinkAt = x.thinkAt
      /\ Owed(x, queue).tools = x.tools /\ Owed(x, queue).inside = x.inside
      /\ Owed(x, queue).reasoning = x.reasoning /\ Owed(x, queue).native = x.native
      /\ Owed(x, queue).failure = x.failure
  BY DEF Owed, Context
<1> QED BY <1>1, <1>2, <1>3, <1>4

\* Events that are taken out and put back.
LEMMA OwedBack ==
    ASSUME NEW x \in Context
    PROVE  Owed(Owed(x, <<>>), x.out) = x
<1>1. <<>> \in Seq(Item)
  OBVIOUS
<1>2. \A more : Owed(Owed(x, <<>>), more) = Owed(x, more)
  BY <1>1, OwedIs
<1>3. Owed(x, x.out) = x
  BY <1>1, OwedIs
<1>4. Owed(Owed(x, <<>>), x.out) = Owed(x, x.out)
  BY <1>2
<1> QED BY <1>3, <1>4

LEMMA OwedPlaces ==
    ASSUME NEW x \in Context, NEW queue \in Seq(Item)
    PROVE  /\ PlacesOK(Owed(x, queue)) <=> PlacesOK(x)
           /\ ThinkingOK(Owed(x, queue)) <=> ThinkingOK(x)
           /\ \A w : Mirrors(w, Owed(x, queue)) <=> Mirrors(w, x)
<1> DEFINE y == Owed(x, queue)
<1>1. /\ y.blocks = x.blocks /\ y.started = x.started
      /\ y.textAt = x.textAt /\ y.thinkAt = x.thinkAt
      /\ y.tools = x.tools /\ y.inside = x.inside
      /\ y.reasoning = x.reasoning /\ y.native = x.native
  BY OwedIs
<1> HIDE DEF y
<1>2. OpenBlocks(y) = OpenBlocks(x) /\ OpenText(y) = OpenText(x)
  BY <1>1 DEF OpenBlocks, OpenText
<1>3. PlacesOK(y) <=> PlacesOK(x)
  BY <1>1, <1>2 DEF PlacesOK
<1>4. ThinkingOK(y) <=> ThinkingOK(x)
  BY <1>1, <1>2 DEF ThinkingOK
<1>5. \A w : Mirrors(w, y) <=> Mirrors(w, x)
  BY <1>1 DEF Mirrors
<1> QED BY <1>3, <1>4, <1>5 DEF y

\* The client has taken some of the events: the translation's belief stays right.
LEMMA OwedSteady ==
    ASSUME NEW v \in View, NEW u \in View, NEW x \in Context, NEW queue \in Seq(Item),
           NEW rest \in Seq(Item), Owed(x, queue) \in Steady(v),
           \A w \in View : Flow(v, queue, w) => Flow(u, rest, w)
    PROVE  Owed(x, rest) \in Steady(u)
<1>1. /\ Told(v, Owed(x, queue)) /\ PlacesOK(Owed(x, queue)) /\ ThinkingOK(Owed(x, queue))
      /\ Owed(x, queue).started
  BY SteadyIs
<1>2. PICK w \in View : Flow(v, Owed(x, queue).out, w) /\ Mirrors(w, Owed(x, queue))
  BY <1>1 DEF Told
<1>3. Owed(x, queue).out = queue /\ Owed(x, rest).out = rest /\ Owed(x, rest) \in Context
      /\ Owed(x, queue).started = x.started /\ Owed(x, rest).started = x.started
  BY OwedIs
<1>4. Flow(u, Owed(x, rest).out, w) /\ Mirrors(w, Owed(x, rest))
  BY <1>2, <1>3, OwedPlaces
<1>5. PlacesOK(Owed(x, rest)) /\ ThinkingOK(Owed(x, rest))
  BY <1>1, OwedPlaces
<1>6. Told(u, Owed(x, rest))
  BY <1>4 DEF Told
<1> QED BY <1>1, <1>3, <1>5, <1>6 DEF Steady, Writing

LEMMA OwedConcluded ==
    ASSUME NEW v \in View, NEW u \in View, NEW x \in Context, NEW queue \in Seq(Item),
           NEW rest \in Seq(Item), Concluded(v, Owed(x, queue)),
           \A w \in View : Flow(v, queue, w) => Flow(u, rest, w)
    PROVE  Concluded(u, Owed(x, rest))
<1>1. PICK w \in View :
         /\ Flow(v, Owed(x, queue).out, w) /\ Sorted(w, Owed(x, queue).blocks)
         /\ w.phase = IF Owed(x, queue).failure = "none" THEN "stopped" ELSE "failed"
  BY DEF Concluded
<1>2. /\ Owed(x, queue).out = queue /\ Owed(x, rest).out = rest /\ Owed(x, rest) \in Context
      /\ Owed(x, queue).failure = x.failure /\ Owed(x, rest).failure = x.failure
      /\ Owed(x, queue).reasoning = x.reasoning /\ Owed(x, rest).reasoning = x.reasoning
      /\ Owed(x, queue).blocks = x.blocks /\ Owed(x, rest).blocks = x.blocks
  BY OwedIs
<1>3. Flow(u, Owed(x, rest).out, w) /\ Sorted(w, Owed(x, rest).blocks)
      /\ w.phase = IF Owed(x, rest).failure = "none" THEN "stopped" ELSE "failed"
  BY <1>1, <1>2
<1>4. PlacesOK(Owed(x, rest)) /\ ~Owed(x, rest).reasoning
  BY <1>2, OwedPlaces DEF Concluded
<1> QED BY <1>2, <1>3, <1>4 DEF Concluded

StreamTypes ==
    /\ way \in {"live", "buffered"} /\ decoder \in Decoder /\ wire \in Seq(Cell)
    /\ ctx \in Context /\ pending \in Seq(Item) /\ finished \in BOOLEAN /\ client \in Client

\* Nothing has been translated: the buffered stream makes no event of its own.
Unbegun == /\ ~finished /\ way = "buffered" /\ pending = <<>>
           /\ ctx \in Fresh /\ ViewOf(client) = Blank0

\* The buffered stream keeps its events in the context, the live one hands them on.
Held == ~finished /\ way = "buffered" /\ pending = <<>> /\ ctx \in Steady(ViewOf(client))
Live == /\ ~finished /\ way = "live" /\ log = "open" /\ ctx.out = <<>>
        /\ Owed(ctx, pending) \in Steady(ViewOf(client))

\* What is owed after the last turn ends the message, in the way that the record says.
Over == /\ finished /\ ctx.out = <<>> /\ Concluded(ViewOf(client), Owed(ctx, pending))
        /\ way = "live" => log = IF ctx.failure = "none" THEN "success" ELSE ctx.failure

Gone == client.phase = "gone" /\ pending = <<>> /\ ctx \in Fresh

Linked == client.phase # "gone" /\ (Unbegun \/ Held \/ Live \/ Over)

StreamInv == StreamTypes /\ (Gone \/ Linked)

LEMMA FreshIs ==
    ASSUME NEW x \in Fresh
    PROVE  x \in Context /\ ~x.started /\ PlacesOK(x) /\ ThinkingOK(x) /\ x.out = <<>>
<1>1. /\ x \in Context /\ ~x.started /\ x.blocks = <<>> /\ x.textAt = 0 /\ x.thinkAt = 0
      /\ x.tools = [t \in ToolId |-> 0] /\ ~x.inside /\ ~x.reasoning /\ x.out = <<>>
      /\ ~x.native
  BY DEF Fresh
<1>2. OpenBlocks(x) = {} /\ OpenText(x) = {} /\ Len(x.blocks) = 0
  BY <1>1, NoBlocks DEF OpenBlocks, OpenText
<1>3. PlacesOK(x)
  BY <1>1, <1>2 DEF PlacesOK
<1>4. ThinkingOK(x)
  BY <1>1 DEF ThinkingOK
<1> QED BY <1>1, <1>3, <1>4

LEMMA NewClient ==
    Grammar!Nothing \in Client /\ ViewOf(Grammar!Nothing) = Blank0
    /\ Grammar!Nothing.phase = "waiting"
<1> DEFINE c == Grammar!Nothing
<1>1. c.phase = "waiting" /\ c.blocks = <<>> /\ c.reason = "none"
      /\ c = [phase |-> "waiting", blocks |-> <<>>, reason |-> "none"]
  BY DEF Grammar!Nothing
<1>2. <<>> \in Seq(ClientBlock) /\ "waiting" \in Phase /\ Len(<<>>) = 0
  BY DEF Phase
<1>3. c \in Client
  BY <1>1, <1>2 DEF Client
<1> HIDE DEF c
<1>4. /\ ViewOf(c) \in View /\ ViewOf(c).phase = "waiting"
      /\ Len(ViewOf(c).blocks) = 0
  BY <1>1, <1>2, <1>3, ViewIs
<1>5. ViewOf(c) = Blank0
  BY <1>4, NoBlocks, SameView
<1> QED BY <1>1, <1>3, <1>5 DEF c

LEMMA StreamStart == StreamInit => StreamInv
<1> SUFFICES ASSUME StreamInit PROVE StreamInv
  OBVIOUS
<1>1. /\ way \in {"live", "buffered"} /\ decoder \in Decoder /\ wire \in Seq(Cell)
      /\ finished = FALSE /\ log = "open" /\ client \in Client
      /\ ViewOf(client) = Blank0 /\ client.phase # "gone"
  BY NewDecoderIs, NewClient DEF StreamInit
<1>2. PICK thinking \in BOOLEAN :
         IF way = "live" THEN /\ ctx = Owed(Initial(NewContext(thinking)), <<>>)
                              /\ pending = Initial(NewContext(thinking)).out
         ELSE ctx = NewContext(thinking) /\ pending = <<>>
  BY DEF StreamInit, Owed
<1> DEFINE f == NewContext(thinking)
           x == Initial(f)
<1>3. f \in Fresh /\ x \in Steady(Blank0)
  BY NewIsFresh, InitialKeeps
<1>4. CASE way = "live"
  <2>1. ctx = Owed(x, <<>>) /\ pending = x.out
    BY <1>2, <1>4
  <2>2. x \in Context
    BY <1>3, SteadyIs
  <2> HIDE DEF x
  <2>3. ctx \in Context /\ ctx.out = <<>> /\ pending \in Seq(Item) /\ Owed(ctx, pending) = x
    <3>1. Owed(x, <<>>) \in Context /\ Owed(x, <<>>).out = <<>> /\ x.out \in Seq(Item)
      BY <2>2, NoBlocks, OwedIs
    <3>2. Owed(Owed(x, <<>>), x.out) = x
      BY <2>2, OwedBack
    <3> QED BY <2>1, <3>1, <3>2
  <2>4. Live
    BY <1>1, <1>3, <1>4, <2>3 DEF Live, x
  <2> QED BY <1>1, <2>3, <2>4 DEF StreamInv, StreamTypes, Linked
<1>5. CASE way = "buffered"
  <2>1. ctx = f /\ pending = <<>>
    BY <1>2, <1>5
  <2>2. ctx \in Context /\ Unbegun
    BY <1>1, <1>3, <1>5, <2>1, FreshIs DEF Unbegun
  <2> QED BY <1>1, <2>1, <2>2, NoBlocks DEF StreamInv, StreamTypes, Linked
<1> QED BY <1>1, <1>4, <1>5

-----------------------------------------------------------------------------
(* Each step of the stream keeps the invariant.                            *)

LEMMA ReceiveStays ==
    ASSUME NEW c \in Client, NEW item, c.phase # "gone"
    PROVE  Receive(c, item).phase # "gone"
BY DEF Receive, Client

LEMMA DeliverStays ==
    ASSUME client \in Client, Deliver
    PROVE  /\ pending # <<>> /\ client.phase # "gone" /\ client'.phase # "gone"
           /\ UNCHANGED <<way, ctx, decoder, wire, finished, log>>
<1>1. client.phase # "gone" /\ pending # <<>>
      /\ UNCHANGED <<way, ctx, decoder, wire, finished, log>>
  BY DEF Deliver
<1>2. PICK item : client' = Receive(client, item)
  BY DEF Deliver
<1> QED BY <1>1, <1>2, ReceiveStays

LEMMA DeliverStep == StreamInv /\ Deliver => StreamInv' /\ Grammar!GrammarNext
<1> SUFFICES ASSUME StreamInv, Deliver PROVE StreamInv' /\ Grammar!GrammarNext
  OBVIOUS
<1> DEFINE v == ViewOf(client)
<1>1. StreamTypes /\ Linked /\ v \in View
  BY DeliverStays, ViewIs DEF StreamInv, StreamTypes, Gone
<1>2. /\ pending # <<>> /\ client'.phase # "gone" /\ client \in Client /\ pending \in Seq(Item)
      /\ UNCHANGED <<way, ctx, decoder, wire, finished, log>> /\ ctx \in Context
  BY <1>1, DeliverStays DEF StreamTypes
<1>3. ASSUME NEW w \in View, Flow(v, pending, w)
      PROVE  /\ client' \in Client /\ pending' \in Seq(Item) /\ ViewOf(client') \in View
             /\ Flow(ViewOf(client'), pending', w) /\ Grammar!GrammarNext
  <2>1. /\ client' \in Client /\ pending' \in Seq(Item)
        /\ Flow(ViewOf(client'), pending', w) /\ Grammar!GrammarNext
    BY <1>2, <1>3, DeliverKeeps
  <2> QED BY <2>1, ViewIs
<1>4. CASE Live
  <2>1. PICK w \in View : Flow(v, pending, w)
    <3>1. Told(v, Owed(ctx, pending))
      BY <1>4, SteadyIs DEF Live
    <3> QED BY <1>2, <3>1, OwedIs DEF Told
  <2>2. /\ client' \in Client /\ pending' \in Seq(Item) /\ ViewOf(client') \in View
        /\ Grammar!GrammarNext
    BY <1>3, <2>1
  <2>3. Owed(ctx, pending') \in Steady(ViewOf(client'))
    <3>1. Owed(ctx, pending) \in Steady(v)
      BY <1>4 DEF Live
    <3>2. \A u \in View : Flow(v, pending, u) => Flow(ViewOf(client'), pending', u)
      BY <1>3
    <3> QED BY <1>1, <1>2, <2>2, <3>1, <3>2, OwedSteady
  <2>4. Live'
    BY <1>2, <1>4, <2>3 DEF Live
  <2> QED BY <1>1, <1>2, <2>2, <2>4 DEF StreamInv, StreamTypes, Linked
<1>5. CASE Over
  <2>1. PICK w \in View : Flow(v, pending, w)
    BY <1>2, <1>5, OwedIs DEF Over, Concluded
  <2>2. /\ client' \in Client /\ pending' \in Seq(Item) /\ ViewOf(client') \in View
        /\ Grammar!GrammarNext
    BY <1>3, <2>1
  <2>3. Concluded(ViewOf(client'), Owed(ctx, pending'))
    <3>1. Concluded(v, Owed(ctx, pending))
      BY <1>5 DEF Over
    <3>2. \A u \in View : Flow(v, pending, u) => Flow(ViewOf(client'), pending', u)
      BY <1>3
    <3> QED BY <1>1, <1>2, <2>2, <3>1, <3>2, OwedConcluded
  <2>4. Over'
    BY <1>2, <1>5, <2>3 DEF Over
  <2> QED BY <1>1, <1>2, <2>2, <2>4 DEF StreamInv, StreamTypes, Linked
<1> QED BY <1>1, <1>2, <1>4, <1>5 DEF Linked, Unbegun, Held

LEMMA DisconnectStep == StreamInv /\ Disconnect => StreamInv' /\ Grammar!GrammarNext
<1> SUFFICES ASSUME StreamInv, Disconnect PROVE StreamInv' /\ Grammar!GrammarNext
  OBVIOUS
<1>1. /\ client' = [client EXCEPT !.phase = "gone"] /\ ctx' = NewContext(FALSE)
      /\ decoder' = NewDecoder /\ pending' = <<>> /\ wire' = <<>>
      /\ way' = way /\ finished' = finished
  BY DEF Disconnect
<1>2. client' \in Client /\ client'.phase = "gone"
  BY <1>1 DEF StreamInv, StreamTypes, Client, Phase
<1>3. ctx' \in Fresh /\ ctx' \in Context
  BY <1>1, NewIsFresh, FreshIs
<1>4. decoder' \in Decoder
  BY <1>1, NewDecoderIs
<1>5. wire' \in Seq(Cell) /\ pending' \in Seq(Item)
  BY <1>1
<1>6. Grammar!GrammarNext
  BY DEF Disconnect, Grammar!GrammarNext, Grammar!Leave
<1> QED BY <1>1, <1>2, <1>3, <1>4, <1>5, <1>6 DEF StreamInv, StreamTypes, Gone

\* No event, no change.
LEMMA NoEvents ==
    ASSUME NEW x
    PROVE  FoldLeft(OnEvent, x, <<>>) = x
<1> DEFINE A == {x}
           E == {e \in {0} : FALSE}
<1>1. x \in A /\ <<>> \in Seq(E) /\ \A y \in A, e \in E : OnEvent(y, e) \in A
  OBVIOUS
<1>2. \A y : y \in A => y = x
  OBVIOUS
<1> HIDE DEF A, E
<1>3. FoldLeft(OnEvent, x, <<>>) \in A
  BY <1>1, FoldOfEvents
<1> QED BY <1>2, <1>3

\* While the stream waits for a chunk the client has been given all there was.
LEMMA WaitingIs ==
    ASSUME StreamInv, Waiting
    PROVE  /\ StreamTypes /\ client.phase # "gone" /\ ~finished /\ pending = <<>>
           /\ ViewOf(client) \in View /\ ctx.out \in Seq(Item)
           /\ \/ ctx \in Steady(ViewOf(client)) /\ (way = "live" => log = "open")
              \/ ctx \in Fresh /\ way = "buffered" /\ ViewOf(client) = Blank0
<1>1. /\ StreamTypes /\ Linked /\ client.phase # "gone" /\ ~finished /\ pending = <<>>
      /\ ViewOf(client) \in View /\ ctx \in Context
  BY ViewIs DEF StreamInv, StreamTypes, Gone, Linked, Waiting
<1>2. Owed(ctx, ctx.out) = ctx /\ ctx.out \in Seq(Item)
  BY <1>1, NoBlocks, OwedIs
<1>3. CASE Live
  <2>1. ctx.out = <<>>
    BY <1>3 DEF Live
  <2>2. ctx \in Steady(ViewOf(client))
    BY <1>1, <1>2, <1>3, <2>1 DEF Live
  <2> QED BY <1>1, <1>2, <1>3, <2>2 DEF Live
<1>4. CASE Held
  BY <1>1, <1>2, <1>4 DEF Held
<1>5. CASE Unbegun
  BY <1>1, <1>2, <1>5 DEF Unbegun
<1> QED BY <1>1, <1>3, <1>4, <1>5 DEF Linked, Over

LEMMA ReleaseKeeps ==
    ASSUME StreamInv, Waiting, NEW x, Release(x), UNCHANGED <<way, finished, log, client>>,
           decoder' \in Decoder, wire' \in Seq(Cell),
           \/ x \in Steady(ViewOf(client))
           \/ x \in Fresh /\ way = "buffered" /\ ViewOf(client) = Blank0
    PROVE  StreamInv'
<1>1. /\ StreamTypes /\ client.phase # "gone" /\ ~finished /\ pending = <<>>
      /\ way = "live" => log = "open"
  BY WaitingIs, FreshIs
<1>2. x \in Context
  BY SteadyIs, FreshIs
<1>3. CASE way = "live"
  <2>1. x \in Steady(ViewOf(client)) /\ ctx' = Owed(x, <<>>) /\ pending' = x.out
    BY <1>3 DEF Release, Owed
  <2>2. ctx' \in Context /\ ctx'.out = <<>> /\ pending' \in Seq(Item)
    BY <1>2, <2>1, NoBlocks, OwedIs
  <2>3. Owed(ctx', pending') = x
    <3>1. Owed(Owed(x, <<>>), x.out) = x
      BY <1>2, OwedBack
    <3> QED BY <2>1, <3>1
  <2>4. Live'
    BY <1>1, <1>3, <2>1, <2>2, <2>3 DEF Live
  <2> QED BY <1>1, <2>2, <2>4 DEF StreamInv, StreamTypes, Linked
<1>4. CASE way = "buffered"
  <2>1. ctx' = x /\ pending' = <<>>
    BY <1>1, <1>4 DEF Release
  <2>2. Held' \/ Unbegun'
    BY <1>1, <1>4, <2>1 DEF Held, Unbegun
  <2> QED BY <1>1, <1>2, <2>1, <2>2, NoBlocks DEF StreamInv, StreamTypes, Linked
<1> QED BY <1>1, <1>3, <1>4 DEF StreamTypes

LEMMA TranslatedKeeps ==
    ASSUME StreamInv, Waiting, NEW events \in Seq(UpstreamEvent)
    PROVE  \/ Translated(ctx, events) \in Steady(ViewOf(client))
           \/ /\ Translated(ctx, events) \in Fresh
              /\ way = "buffered" /\ ViewOf(client) = Blank0
<1> DEFINE v == ViewOf(client)
<1>1. v \in View
  BY WaitingIs
<1>2. CASE ctx \in Steady(v)
  <2>1. Translated(ctx, events) = FoldLeft(OnEvent, ctx, events)
    BY <1>2, SteadyIs DEF Translated
  <2> QED BY <1>1, <1>2, <2>1, EventsKeep
<1>3. CASE ctx \in Fresh /\ way = "buffered" /\ v = Blank0 /\ events = <<>>
  <2>1. Translated(ctx, events) = FoldLeft(OnEvent, ctx, <<>>)
    BY <1>3 DEF Translated
  <2> QED BY <1>3, <2>1, NoEvents
<1>4. CASE ctx \in Fresh /\ way = "buffered" /\ v = Blank0 /\ events # <<>>
  <2>1. Translated(ctx, events) = FoldLeft(OnEvent, Initial(ctx), events)
    BY <1>4, FreshIs DEF Translated
  <2>2. Initial(ctx) \in Steady(v)
    BY <1>4, InitialKeeps
  <2> QED BY <1>1, <2>1, <2>2, EventsKeep
<1> QED BY <1>2, <1>3, <1>4, WaitingIs

LEMMA ChunkStep ==
    ASSUME StreamInv, Waiting, NEW cells \in Seq(Cell), NEW k \in Nat, k <= Len(cells),
           Chunk(cells, k)
    PROVE  StreamInv' /\ client' = client
<1> DEFINE n == Len(cells) - k
           run == DecodeAll(Feed(decoder, SubSeq(cells, 1, n)))
<1>1. n \in Nat /\ n <= Len(cells)
  <2>1. Len(cells) \in Nat
    OBVIOUS
  <2> QED BY <2>1
<1>2. /\ wire' = SubSeq(cells, n + 1, Len(cells)) /\ decoder' = run.d
      /\ Release(Translated(ctx, run.events)) /\ UNCHANGED <<way, finished, log, client>>
  BY DEF Chunk
<1> HIDE DEF n
<1>3. SubSeq(cells, n + 1, Len(cells)) \in Seq(Cell) /\ SubSeq(cells, 1, n) \in Seq(Cell)
  BY <1>1, Cuts
<1>4. run \in Run
  <2>1. decoder \in Decoder
    BY DEF StreamInv, StreamTypes
  <2>2. Feed(decoder, SubSeq(cells, 1, n)) \in Decoder
    BY <1>3, <2>1, FeedKeeps
  <2> QED BY <2>2, DecodeAllKeeps
<1> HIDE DEF run
<1>5. run.d \in Decoder /\ run.events \in Seq(Content)
  BY <1>4 DEF Run
<1>6. run.events \in Seq(UpstreamEvent)
  BY <1>5, ContentAssumption
<1>7. wire' \in Seq(Cell) /\ decoder' \in Decoder
  BY <1>2, <1>3, <1>5
<1> DEFINE x == Translated(ctx, run.events)
<1>8. Release(x)
  BY <1>2
<1>9. \/ x \in Steady(ViewOf(client))
      \/ x \in Fresh /\ way = "buffered" /\ ViewOf(client) = Blank0
  BY <1>6, TranslatedKeeps
<1> HIDE DEF x
<1> QED BY <1>2, <1>7, <1>8, <1>9, ReleaseKeeps

LEMMA FrameStep == StreamInv /\ Frame => StreamInv' /\ client' = client
<1> SUFFICES ASSUME StreamInv, Frame PROVE StreamInv' /\ client' = client
  OBVIOUS
<1>1. Waiting
  BY DEF Frame
<1>2. PICK event \in Content, trouble \in Damage \cup {"none", "split", "held"} :
         Chunk(wire \o Cells(event, trouble),
               CASE trouble = "split" -> 1
                 [] trouble = "held"  -> FrameLen
                 [] OTHER             -> 0)
  BY DEF Frame
<1> DEFINE k == CASE trouble = "split" -> 1
                  [] trouble = "held"  -> FrameLen
                  [] OTHER             -> 0
           cells == wire \o Cells(event, trouble)
<1>3. Cells(event, trouble) \in Seq(Cell) /\ Len(Cells(event, trouble)) = FrameLen
  BY CellsAre
<1>4. k \in Nat /\ k <= FrameLen
  BY BoundsNat
<1>5. wire \in Seq(Cell)
  BY DEF StreamInv, StreamTypes
<1>6. cells \in Seq(Cell) /\ k <= Len(cells)
  <2> DEFINE more == Cells(event, trouble)
  <2>1. more \in Seq(Cell) /\ Len(more) = FrameLen
    BY <1>3
  <2> HIDE DEF more, k
  <2>2. wire \o more \in Seq(Cell) /\ Len(wire \o more) = Len(wire) + Len(more)
        /\ Len(wire) \in Nat /\ Len(more) \in Nat
    BY <1>5, <2>1
  <2>3. k <= Len(wire \o more)
    BY <1>4, <2>1, <2>2
  <2> QED BY <2>2, <2>3 DEF more
<1>7. Chunk(cells, k)
  BY <1>2
<1> HIDE DEF cells, k
<1> QED BY <1>1, <1>4, <1>6, <1>7, ChunkStep

LEMMA RestStep == StreamInv /\ Rest => StreamInv' /\ client' = client
<1> SUFFICES ASSUME StreamInv, Rest PROVE StreamInv' /\ client' = client
  OBVIOUS
<1>1. Waiting /\ Chunk(wire, 0)
  BY DEF Rest
<1>2. wire \in Seq(Cell) /\ 0 \in Nat
  BY DEF StreamInv, StreamTypes
<1>3. 0 <= Len(wire)
  BY <1>2
<1> QED BY <1>1, <1>2, <1>3, ChunkStep

\* The last turn of the stream, from a context that may not have begun.
LEMMA FinishStep ==
    ASSUME StreamInv, NEW x, Finish(x),
           \/ x \in Steady(ViewOf(client))
           \/ x \in Fresh /\ way = "buffered" /\ ViewOf(client) = Blank0
    PROVE  StreamInv' /\ client' = client
<1> DEFINE y == IF x.started THEN x ELSE Initial(x)
           v == ViewOf(client)
           z == Final(y)
<1>1. /\ Waiting /\ finished' = TRUE /\ ctx' = Owed(z, <<>>) /\ pending' = z.out
      /\ UNCHANGED <<way, decoder, wire, client>>
      /\ way = "live" => log' = IF z.failure = "none" THEN "success" ELSE z.failure
  BY DEF Finish, Owed, Verdict
<1>2. StreamTypes /\ client.phase # "gone" /\ v \in View
  BY <1>1, WaitingIs
<1>3. y \in Steady(v)
  BY SteadyIs, FreshIs, InitialKeeps
<1> HIDE DEF y
<1>4. Concluded(v, z)
  BY <1>2, <1>3, FinalConcludes
<1> HIDE DEF z
<1>5. z \in Context
  BY <1>4 DEF Concluded
<1>6. /\ ctx' \in Context /\ ctx'.out = <<>> /\ pending' \in Seq(Item)
      /\ ctx'.failure = z.failure
  <2>1. <<>> \in Seq(Item)
    OBVIOUS
  <2> QED BY <1>1, <1>5, <2>1, OwedIs
<1>7. Owed(ctx', pending') = z
  BY <1>1, <1>5, OwedBack
<1>8. Over'
  BY <1>1, <1>4, <1>6, <1>7 DEF Over
<1> QED BY <1>1, <1>2, <1>6, <1>8 DEF StreamInv, StreamTypes, Linked

LEMMA MarkFresh ==
    ASSUME NEW x \in Fresh, NEW kind \in Failure
    PROVE  MarkFailure(x, kind) \in Fresh
<1> DEFINE y == [x EXCEPT !.failure = kind]
<1>1. x \in Context
  BY FreshIs
<1>2. /\ y \in Context /\ y.out = x.out /\ y.blocks = x.blocks
      /\ y.started = x.started /\ y.textAt = x.textAt /\ y.thinkAt = x.thinkAt
      /\ y.tools = x.tools /\ y.inside = x.inside /\ y.reasoning = x.reasoning
      /\ y.native = x.native
  BY <1>1 DEF Context
<1>3. MarkFailure(x, kind) = IF x.failure = "none" THEN y ELSE x
  BY DEF MarkFailure
<1> HIDE DEF y
<1>4. y \in Fresh
  BY <1>2 DEF Fresh
<1> QED BY <1>3, <1>4

LEMMA EndStep ==
    StreamInv /\ (EndOfBody \/ IoError) => StreamInv' /\ client' = client
<1> SUFFICES ASSUME StreamInv, EndOfBody \/ IoError PROVE StreamInv' /\ client' = client
  OBVIOUS
<1>1. Waiting
  BY DEF EndOfBody, IoError, Finish
<1>2. /\ ViewOf(client) \in View
      /\ \/ ctx \in Steady(ViewOf(client))
         \/ ctx \in Fresh /\ way = "buffered" /\ ViewOf(client) = Blank0
  BY <1>1, WaitingIs
<1>3. CASE EndOfBody
  BY <1>2, <1>3, FinishStep DEF EndOfBody
<1>4. CASE IoError
  <2> DEFINE x == MarkFailure(ctx, "stream_io")
  <2>1. "stream_io" \in Failure
    BY DEF Failure
  <2>2. \/ x \in Steady(ViewOf(client))
        \/ x \in Fresh /\ way = "buffered" /\ ViewOf(client) = Blank0
    BY <1>2, <2>1, MarkFailureKeeps, MarkFresh
  <2>3. Finish(x)
    BY <1>4 DEF IoError
  <2> HIDE DEF x
  <2> QED BY <2>2, <2>3, FinishStep
<1> QED BY <1>3, <1>4

\* Every step keeps the invariant, and is a step of the grammar or not seen by the client.
LEMMA StreamStep ==
    StreamInv /\ [StreamNext]_streamVars => StreamInv' /\ [Grammar!GrammarNext]_client
<1> SUFFICES ASSUME StreamInv, [StreamNext]_streamVars
             PROVE  StreamInv' /\ [Grammar!GrammarNext]_client
  OBVIOUS
<1>1. CASE Deliver
  BY <1>1, DeliverStep
<1>2. CASE Disconnect
  BY <1>2, DisconnectStep
<1>3. CASE Frame
  BY <1>3, FrameStep
<1>4. CASE Rest
  BY <1>4, RestStep
<1>5. CASE EndOfBody \/ IoError
  BY <1>5, EndStep
<1>6. CASE UNCHANGED streamVars
  BY <1>6 DEF streamVars, StreamInv, StreamTypes, Gone, Linked, Unbegun, Held, Live, Over
<1> QED BY <1>1, <1>2, <1>3, <1>4, <1>5, <1>6 DEF StreamNext

-----------------------------------------------------------------------------
(* Theorems.                                                               *)

\* What is owed to the client leads, event by legal event, from the message it has to
\* the one that the translation keeps (stream.rs, SseStateManager and StreamContext).
THEOREM StreamInvariant == StreamSpec => []StreamInv
<1>1. StreamInit => StreamInv
  BY StreamStart
<1>2. StreamInv /\ [StreamNext]_streamVars => StreamInv'
  BY StreamStep
<1> QED BY <1>1, <1>2, PTL DEF StreamSpec

\* Whatever the upstream service sends and however it is cut and damaged, the client
\* sees a message of the promised form (stream.rs:269-275, SseStateManager).
THEOREM MessagesAreWellFormed == StreamSpec => ImplementsGrammar
<1>1. StreamInit => Grammar!GrammarInit
  BY DEF StreamInit, Grammar!GrammarInit
<1>2. StreamInv /\ [StreamNext]_streamVars => [Grammar!GrammarNext]_client
  BY StreamStep
<1> QED BY <1>1, <1>2, StreamInvariant, PTL
        DEF StreamSpec, ImplementsGrammar, Grammar!GrammarSpec

LEMMA TranslationIs ==
    ASSUME StreamInv
    PROVE  /\ ctx \in Context /\ PlacesOK(ctx)
           /\ ~finished => ThinkingOK(ctx)
           /\ finished => ThinkingOK(ctx) \/ ~ctx.reasoning
<1>1. ctx \in Context /\ pending \in Seq(Item)
  BY DEF StreamInv, StreamTypes
<1>2. CASE Gone \/ Unbegun
  BY <1>1, <1>2, FreshIs DEF Gone, Unbegun
<1>3. CASE Held
  BY <1>1, <1>3, SteadyIs DEF Held
<1>4. CASE Live
  <2>1. PlacesOK(Owed(ctx, pending)) /\ ThinkingOK(Owed(ctx, pending))
    BY <1>4, SteadyIs DEF Live
  <2> QED BY <1>1, <2>1, OwedPlaces
<1>5. CASE Over
  <2>1. PlacesOK(Owed(ctx, pending)) /\ ~Owed(ctx, pending).reasoning /\ finished
    BY <1>5 DEF Over, Concluded
  <2>2. ~ctx.reasoning
    BY <1>1, <2>1, OwedIs
  <2> QED BY <1>1, <2>1, <2>2, OwedPlaces
<1> QED BY <1>2, <1>3, <1>4, <1>5 DEF StreamInv, Linked

LEMMA StreamTyped == StreamInv => StreamTypeOK
<1> SUFFICES ASSUME StreamInv PROVE StreamTypeOK
  OBVIOUS
<1>1. /\ decoder.state \in {"Ready", "Recovering", "Stopped"}
      /\ decoder.errors \in 0 .. MaxErrors /\ Len(decoder.buf) <= MaxBuffer
  BY DecoderIs DEF StreamInv, StreamTypes
<1>2. /\ ctx \in Context /\ PlacesOK(ctx) /\ (~finished => ThinkingOK(ctx))
      /\ ThinkingOK(ctx) \/ ~ctx.reasoning
  BY TranslationIs
<1>3. /\ ctx.failure \in Failure /\ ctx.reason \in Reason
      /\ ctx.buffer \in Seq(Char) /\ ctx.blocks \in Seq(BlockState)
  BY <1>2 DEF Context
<1>4. \A i \in DOMAIN ctx.buffer : ctx.buffer[i] \in Char
  BY <1>3
<1>5. \A i \in DOMAIN ctx.blocks : ctx.blocks[i].type \in BlockType
  <2>1. \A i \in DOMAIN ctx.blocks : ctx.blocks[i] \in BlockState
    BY <1>3
  <2> QED BY <2>1 DEF BlockState
<1>6. /\ ctx.textAt # 0 => ctx.blocks[ctx.textAt].type = "text"
      /\ \A t \in ToolId : ctx.tools[t] # 0 => ctx.blocks[ctx.tools[t]].type = "tool_use"
  BY <1>2 DEF PlacesOK
<1>7. ~finished /\ (ctx.inside \/ ctx.reasoning) =>
         ctx.thinkAt \in OpenBlocks(ctx) /\ ctx.blocks[ctx.thinkAt].type = "thinking"
  BY <1>2 DEF ThinkingOK
<1>8. ~(ctx.inside /\ ctx.reasoning)
  BY <1>2 DEF ThinkingOK
<1> QED BY <1>1, <1>3, <1>4, <1>5, <1>6, <1>7, <1>8 DEF StreamTypeOK

\* The decoder keeps its bounds, and what the translation believes to be filling are
\* open blocks of the right type; the two ways of thinking never share one.
THEOREM StreamTypeCorrect == StreamSpec => []StreamTypeOK
BY StreamInvariant, StreamTyped, PTL

\* After the end of a message nothing is owed.
LEMMA NothingAfterEnd ==
    ASSUME NEW v \in View, NEW w \in View, v.phase \in {"stopped", "failed"},
           NEW queue \in Seq(Item), Flow(v, queue, w)
    PROVE  w = v
<1>1. CASE queue = <<>>
  BY <1>1, FlowEmpty
<1>2. CASE queue # <<>>
  <2>1. Legal(v, Head(queue))
    BY <1>2, FlowHead
  <2> QED BY <2>1 DEF Legal
<1> QED BY <1>1, <1>2

LEMMA VerdictsFollow == StreamInv => VerdictsAgree
<1> SUFFICES ASSUME StreamInv, Ended, way = "live"
             PROVE  log # "open" /\ (client.phase = "stopped" <=> log = "success")
  BY DEF VerdictsAgree
<1> DEFINE v == ViewOf(client)
<1>1. /\ v \in View /\ v.phase = client.phase /\ v.phase \in {"stopped", "failed"}
      /\ ctx \in Context /\ pending \in Seq(Item)
  BY ViewIs DEF StreamInv, StreamTypes, Ended
<1>2. Owed(ctx, pending).out = pending /\ Owed(ctx, pending).failure = ctx.failure
      /\ Owed(ctx, pending).started = ctx.started
  BY <1>1, OwedIs
<1>3. Live \/ Over
  BY <1>1, ViewIs DEF StreamInv, Gone, Linked, Unbegun, Held
<1>4. ~Live
  <2> SUFFICES ASSUME Live PROVE FALSE
    OBVIOUS
  <2>1. Told(v, Owed(ctx, pending)) /\ Owed(ctx, pending).started
    BY SteadyIs DEF Live
  <2>2. PICK w \in View : Flow(v, pending, w) /\ w.phase = "open"
    BY <1>2, <2>1 DEF Told, Mirrors
  <2>3. w = v
    BY <1>1, <2>2, NothingAfterEnd
  <2> QED BY <1>1, <2>2, <2>3
<1>5. PICK w \in View : /\ Flow(v, pending, w)
                        /\ w.phase = IF ctx.failure = "none" THEN "stopped" ELSE "failed"
  BY <1>2, <1>3, <1>4 DEF Over, Concluded
<1>6. w = v
  BY <1>1, <1>5, NothingAfterEnd
<1>7. log = IF ctx.failure = "none" THEN "success" ELSE ctx.failure
  BY <1>3, <1>4 DEF Over
<1>8. ctx.failure \in Failure
  BY <1>1 DEF Context
<1> QED BY <1>1, <1>5, <1>6, <1>7, <1>8 DEF Failure

\* The record of a live stream and the client agree on how the answer ended
\* (handlers.rs, create_sse_stream: the record is finished after the final events).
THEOREM RecordsAgreeWithClients == StreamSpec => []VerdictsAgree
BY StreamInvariant, VerdictsFollow, PTL

-----------------------------------------------------------------------------
(* The decoder and the frames on the wire: what is collected, in which order. *)

\* The values of f come one from the other, from a on.
IsChain(f, a, n, G) == f[0] = a /\ \A k \in 1 .. n : f[k] = G[k][f[k - 1]]

\* Such values exist: they are the folds of the initial segments.
LEMMA ChainExists ==
    ASSUME NEW A, NEW a \in A, NEW n \in Nat, NEW G \in [1 .. n -> [A -> A]]
    PROVE  \E f \in [0 .. n -> A] : IsChain(f, a, n, G)
<1>1. PICK it \in [SUBSET (1 .. n) -> A] : IsFold(it, a, n, G)
  BY FoldExists
<1> DEFINE f == [k \in 0 .. n |-> it[1 .. k]]
<1>2. f \in [0 .. n -> A]
  <2>1. \A k \in 0 .. n : 1 .. k \in SUBSET (1 .. n)
    OBVIOUS
  <2> QED BY <1>1, <2>1
<1>3. f[0] = a
  <2>1. 1 .. 0 = {} /\ 0 \in 0 .. n
    OBVIOUS
  <2> QED BY <1>1, <2>1 DEF IsFold
<1>4. ASSUME NEW k \in 1 .. n PROVE f[k] = G[k][f[k - 1]]
  <2>1. /\ k \in Nat \ {0} /\ 1 .. k \in SUBSET (1 .. n) /\ 1 .. k # {}
        /\ k \in 0 .. n /\ k - 1 \in 0 .. n
    <3>1. k \in Nat \ {0} /\ k <= n
      OBVIOUS
    <3>2. k \in 1 .. k /\ \A i \in 1 .. k : i \in 1 .. n
      BY <3>1
    <3>3. k \in 0 .. n /\ k - 1 \in 0 .. n
      BY <3>1
    <3> QED BY <3>1, <3>2, <3>3
  <2>2. Max(1 .. k) = k /\ (1 .. k) \ {k} = 1 .. k - 1
    BY <2>1, MaxOfSegment
  <2>3. it[1 .. k] = G[k][it[1 .. k - 1]]
    BY <1>1, <2>1, <2>2 DEF IsFold
  <2> QED BY <2>1, <2>3
<1> QED BY <1>2, <1>3, <1>4 DEF IsChain

CollectChain(f, s, K) ==
    /\ f[0] = <<>> /\ Collect(s, K) = f[Len(s)]
    /\ \A k \in 1 .. Len(s) :
          f[k] = IF k \in K THEN Append(f[k - 1], s[k].event) ELSE f[k - 1]

\* What carries an event: a cell, or a frame that was sent.
Carrier == [event : Content \cup {<<>>}, len : Nat, crc : BOOLEAN,
            body : Damage \cup {"intact", "text"}]
    \cup [event : Content, trouble : Damage \cup {"none", "split", "held"}]

Events == Content \cup {<<>>}

LEMMA CarrierEvent == ASSUME NEW c \in Carrier PROVE c.event \in Events
BY DEF Carrier, Events

\* Collecting goes along the sequence, one element at a time.
LEMMA CollectSteps ==
    ASSUME NEW s \in Seq(Carrier), NEW K
    PROVE  \E f \in [0 .. Len(s) -> Seq(Events)] : CollectChain(f, s, K)
<1> DEFINE n == Len(s)
           V == Seq(Events)
           G == [k \in 1 .. n |-> [r \in V |-> IF k \in K THEN Append(r, s[k].event) ELSE r]]
           Step(f) == [k \in 0 .. n |->
                          IF k = 0 THEN <<>>
                          ELSE IF k \in K THEN Append(f[k - 1], s[k].event) ELSE f[k - 1]]
           h == CHOOSE f : f = Step(f)
<1>1. n \in Nat /\ <<>> \in V /\ \A k \in 1 .. n : s[k].event \in Events
  BY CarrierEvent
<1>2. G \in [1 .. n -> [V -> V]]
  <2>1. ASSUME NEW k \in 1 .. n, NEW r \in V
        PROVE  (IF k \in K THEN Append(r, s[k].event) ELSE r) \in V
    BY <1>1
  <2> HIDE DEF V
  <2> QED BY <2>1
<1>3. \A k \in 1 .. n : \A r \in V : G[k][r] = IF k \in K THEN Append(r, s[k].event) ELSE r
  OBVIOUS
<1>4. Collect(s, K) = h[n]
  BY DEF Collect
<1> HIDE DEF G, V, h, n
<1>5. PICK f \in [0 .. n -> V] : IsChain(f, <<>>, n, G)
  BY <1>1, <1>2, ChainExists
<1>6. ASSUME NEW k \in 1 .. n
      PROVE  f[k] = IF k \in K THEN Append(f[k - 1], s[k].event) ELSE f[k - 1]
  <2>1. k - 1 \in 0 .. n /\ f[k] = G[k][f[k - 1]]
    BY <1>1, <1>5 DEF IsChain
  <2>2. f[k - 1] \in V
    BY <1>5, <2>1
  <2> QED BY <1>3, <2>1, <2>2
<1>7. f = Step(f)
  <2>1. f = [k \in 0 .. n |-> f[k]]
    BY <1>5
  <2>2. ASSUME NEW k \in 0 .. n PROVE f[k] = Step(f)[k]
    <3>1. CASE k = 0
      BY <1>5, <3>1 DEF IsChain
    <3>2. CASE k # 0
      <4>1. k \in 1 .. n
        BY <1>1, <3>2
      <4> QED BY <1>6, <3>2, <4>1
    <3> QED BY <3>1, <3>2
  <2>3. Step(f) = [k \in 0 .. n |-> Step(f)[k]]
    OBVIOUS
  <2> HIDE DEF Step
  <2> QED BY <2>1, <2>2, <2>3
<1>8. h = Step(h)
  <2> HIDE DEF Step
  <2> QED BY <1>7 DEF h
<1>9. h[0] = <<>>
  BY <1>1, <1>8
<1>10. \A k \in 1 .. n : h[k] = IF k \in K THEN Append(h[k - 1], s[k].event) ELSE h[k - 1]
  <2>1. \A k \in 1 .. n : k \in 0 .. n /\ k # 0
    BY <1>1
  <2> QED BY <1>8, <2>1
<1> DEFINE T == {k \in Nat : k <= n => h[k] \in V}
<1>11. \A k \in Nat : k \in T
  <2>1. 0 \in T
    BY <1>1, <1>9
  <2>2. ASSUME NEW k \in T PROVE k + 1 \in T
    <3> SUFFICES ASSUME k + 1 <= n PROVE h[k + 1] \in V
      OBVIOUS
    <3>1. k + 1 \in 1 .. n /\ (k + 1) - 1 = k /\ h[k] \in V
      BY <1>1
    <3>2. s[k + 1].event \in Events
      BY <1>1, <3>1
    <3>3. Append(h[k], s[k + 1].event) \in V
      BY <3>1, <3>2 DEF V
    <3> QED BY <1>10, <3>1, <3>3
  <2>3. T \in SUBSET Nat
    OBVIOUS
  <2> HIDE DEF T
  <2> QED BY <2>1, <2>2, <2>3, Induction
<1>12. h \in [0 .. n -> V]
  <2>1. h = [k \in 0 .. n |-> h[k]]
    <3>1. Step(h) = [k \in 0 .. n |-> Step(h)[k]]
      OBVIOUS
    <3> HIDE DEF Step
    <3> QED BY <1>8, <3>1
  <2>2. \A k \in 0 .. n : h[k] \in V
    BY <1>1, <1>11
  <2> QED BY <2>1, <2>2
<1>13. CollectChain(h, s, K)
  BY <1>4, <1>9, <1>10 DEF CollectChain, n
<1> QED BY <1>12, <1>13 DEF n, V

LEMMA CollectTyped ==
    ASSUME NEW s \in Seq(Carrier), NEW K
    PROVE  Collect(s, K) \in Seq(Events)
<1>1. PICK f \in [0 .. Len(s) -> Seq(Events)] : CollectChain(f, s, K)
  BY CollectSteps
<1>2. Len(s) \in 0 .. Len(s)
  OBVIOUS
<1> QED BY <1>1, <1>2 DEF CollectChain

\* Nothing is collected where there is no position.
LEMMA CollectNone ==
    ASSUME NEW s \in Seq(Carrier), NEW K, \A k \in 1 .. Len(s) : k \notin K
    PROVE  Collect(s, K) = <<>>
<1>1. PICK f \in [0 .. Len(s) -> Seq(Events)] : CollectChain(f, s, K)
  BY CollectSteps
<1> DEFINE T == {k \in Nat : k <= Len(s) => f[k] = <<>>}
<1>2. 0 \in T
  BY <1>1 DEF CollectChain
<1>3. ASSUME NEW k \in T PROVE k + 1 \in T
  <2> SUFFICES ASSUME k + 1 <= Len(s) PROVE f[k + 1] = <<>>
    OBVIOUS
  <2>1. k + 1 \in 1 .. Len(s) /\ (k + 1) - 1 = k /\ f[k] = <<>>
    OBVIOUS
  <2> QED BY <1>1, <2>1 DEF CollectChain
<1>4. T \in SUBSET Nat
  OBVIOUS
<1>5. Len(s) \in T
  <2>1. Len(s) \in Nat
    OBVIOUS
  <2> HIDE DEF T
  <2> QED BY <1>2, <1>3, <1>4, <2>1, Induction
<1> QED BY <1>1, <1>5 DEF CollectChain

\* M are the positions K in the first m elements, and L in the n elements after them.
Meets(M, K, L, m, n) ==
    /\ \A k \in 1 .. m : k \in M <=> k \in K
    /\ \A k \in 1 .. n : m + k \in M <=> k \in L

\* What two sequences hold is collected from one and then from the other.
LEMMA CollectJoin ==
    ASSUME NEW s \in Seq(Carrier), NEW t \in Seq(Carrier), NEW K, NEW L, NEW M,
           Meets(M, K, L, Len(s), Len(t))
    PROVE  Collect(s \o t, M) = Collect(s, K) \o Collect(t, L)
<1> DEFINE m == Len(s)
           n == Len(t)
           u == s \o t
<1>1. /\ m \in Nat /\ n \in Nat /\ u \in Seq(Carrier) /\ Len(u) = m + n
      /\ \A k \in 1 .. m : u[k] = s[k]
      /\ \A k \in 1 .. n : u[m + k] = t[k]
  OBVIOUS
<1>2. PICK f \in [0 .. Len(s) -> Seq(Events)] : CollectChain(f, s, K)
  BY CollectSteps
<1>3. PICK g \in [0 .. Len(t) -> Seq(Events)] : CollectChain(g, t, L)
  BY CollectSteps
<1> HIDE DEF u
<1>4. PICK h \in [0 .. Len(u) -> Seq(Events)] : CollectChain(h, u, M)
  BY <1>1, CollectSteps
<1>5. /\ f[0] = <<>> /\ Collect(s, K) = f[m] /\ f[m] \in Seq(Events)
      /\ \A k \in 1 .. m : f[k] = IF k \in K THEN Append(f[k - 1], s[k].event) ELSE f[k - 1]
  <2>1. m \in 0 .. m
    BY <1>1
  <2> QED BY <1>2, <2>1 DEF CollectChain
<1>6. /\ g[0] = <<>> /\ Collect(t, L) = g[n] /\ \A k \in 0 .. n : g[k] \in Seq(Events)
      /\ \A k \in 1 .. n : g[k] = IF k \in L THEN Append(g[k - 1], t[k].event) ELSE g[k - 1]
  BY <1>3 DEF CollectChain
<1>7. /\ h[0] = <<>> /\ Collect(u, M) = h[m + n]
      /\ \A k \in 1 .. m + n :
            h[k] = IF k \in M THEN Append(h[k - 1], u[k].event) ELSE h[k - 1]
  BY <1>1, <1>4 DEF CollectChain
<1>8. \A k \in 1 .. m : k \in M <=> k \in K
  BY DEF Meets
<1>9. \A k \in 1 .. n : m + k \in M <=> k \in L
  BY DEF Meets
<1>10. \A k \in 1 .. n : t[k].event \in Events
  BY CarrierEvent
<1> HIDE DEF m, n
<1> DEFINE Both(k) == h[m + k] = f[m] \o g[k]
           T == {k \in Nat : k <= m => h[k] = f[k]}
           U == {k \in Nat : k <= n => Both(k)}
<1> HIDE DEF Both
<1>11. \A k \in Nat : k \in T
  <2>1. 0 \in T
    BY <1>5, <1>7
  <2>2. ASSUME NEW k \in T PROVE k + 1 \in T
    <3> SUFFICES ASSUME k + 1 <= m PROVE h[k + 1] = f[k + 1]
      OBVIOUS
    <3>1. k + 1 \in 1 .. m /\ k + 1 \in 1 .. m + n /\ (k + 1) - 1 = k /\ h[k] = f[k]
      BY <1>1
    <3>2. u[k + 1] = s[k + 1] /\ (k + 1 \in M <=> k + 1 \in K)
      BY <1>1, <1>8, <3>1
    <3>3. h[k + 1] = IF k + 1 \in M THEN Append(h[k], u[k + 1].event) ELSE h[k]
      BY <1>7, <3>1
    <3>4. f[k + 1] = IF k + 1 \in K THEN Append(f[k], s[k + 1].event) ELSE f[k]
      BY <1>5, <3>1
    <3> QED BY <3>1, <3>2, <3>3, <3>4
  <2>3. T \in SUBSET Nat
    OBVIOUS
  <2> HIDE DEF T
  <2> QED BY <2>1, <2>2, <2>3, Induction
<1>12. \A k \in Nat : k \in U
  <2>1. 0 \in U
    <3>1. h[m] = f[m] /\ f[m] \o <<>> = f[m] /\ m + 0 = m
      BY <1>1, <1>5, <1>11, ConcatEmptySeq
    <3>2. Both(0)
      BY <1>6, <3>1 DEF Both
    <3> QED BY <3>2
  <2>2. ASSUME NEW k \in U PROVE k + 1 \in U
    <3> SUFFICES ASSUME k + 1 <= n PROVE Both(k + 1)
      OBVIOUS
    <3>0. k \in Nat /\ Both(k)
      BY <1>1
    <3> HIDE DEF U
    <3>1. /\ k + 1 \in 1 .. n /\ (k + 1) - 1 = k /\ k \in 0 .. n
          /\ m + (k + 1) \in 1 .. m + n /\ (m + (k + 1)) - 1 = m + k
      BY <1>1, <3>0
    <3>2. g[k] \in Seq(Events) /\ t[k + 1].event \in Events /\ u[m + (k + 1)] = t[k + 1]
      BY <1>1, <1>6, <1>10, <3>1
    <3>3. f[m] \o Append(g[k], t[k + 1].event) = Append(f[m] \o g[k], t[k + 1].event)
      <4> DEFINE a == f[m]
                 b == g[k]
                 e == t[k + 1].event
      <4>1. a \in Seq(Events) /\ b \in Seq(Events) /\ e \in Events
        BY <1>5, <3>2
      <4> HIDE DEF a, b, e
      <4>2. a \o Append(b, e) = Append(a \o b, e)
        BY <4>1
      <4> QED BY <4>2 DEF a, b, e
    <3>4. h[m + (k + 1)] = IF m + (k + 1) \in M THEN Append(h[m + k], t[k + 1].event) ELSE h[m + k]
      BY <1>7, <3>1, <3>2
    <3>5. g[k + 1] = IF k + 1 \in L THEN Append(g[k], t[k + 1].event) ELSE g[k]
      BY <1>6, <3>1
    <3>6. h[m + k] = f[m] \o g[k] /\ (m + (k + 1) \in M <=> k + 1 \in L)
      BY <1>9, <3>0, <3>1 DEF Both
    <3>7. h[m + (k + 1)] = f[m] \o g[k + 1]
      BY <3>3, <3>4, <3>5, <3>6
    <3> QED BY <3>7 DEF Both
  <2>3. U \in SUBSET Nat
    OBVIOUS
  <2> HIDE DEF U
  <2> QED BY <2>1, <2>2, <2>3, Induction
<1>13. h[m + n] = f[m] \o g[n]
  <2>1. n \in U
    BY <1>1, <1>12
  <2>2. n <= n
    BY <1>1
  <2>3. Both(n)
    BY <2>1, <2>2
  <2> QED BY <2>3 DEF Both
<1>14. Collect(u, M) = Collect(s, K) \o Collect(t, L)
  BY <1>5, <1>6, <1>7, <1>13
<1> QED BY <1>14 DEF u

-----------------------------------------------------------------------------
(* Sequences without their first elements. *)

Beyond(s, n) == SubSeq(s, n + 1, Len(s))

LEMMA SameSeq ==
    ASSUME NEW S, NEW s \in Seq(S), NEW t \in Seq(S), Len(s) = Len(t),
           \A i \in 1 .. Len(s) : s[i] = t[i]
    PROVE  s = t
OBVIOUS

LEMMA Joined ==
    ASSUME NEW S, NEW s \in Seq(S), NEW t \in Seq(S)
    PROVE  /\ s \o t \in Seq(S) /\ Len(s) \in Nat /\ Len(t) \in Nat /\ Len(s \o t) = Len(s) + Len(t)
           /\ \A i \in 1 .. Len(s) : (s \o t)[i] = s[i]
           /\ \A i \in 1 .. Len(t) : (s \o t)[Len(s) + i] = t[i]
OBVIOUS

LEMMA BeyondIs ==
    ASSUME NEW S, NEW s \in Seq(S), NEW n \in 0 .. Len(s)
    PROVE  /\ Beyond(s, n) \in Seq(S) /\ Len(Beyond(s, n)) = Len(s) - n
           /\ \A i \in 1 .. Len(s) - n : Beyond(s, n)[i] = s[n + i]
           /\ SubSeq(s, 1, n) \in Seq(S) /\ Len(SubSeq(s, 1, n)) = n
           /\ \A i \in 1 .. n : SubSeq(s, 1, n)[i] = s[i]
           /\ s = SubSeq(s, 1, n) \o Beyond(s, n)
<1>1. Len(s) \in Nat /\ n \in Nat /\ n <= Len(s) /\ \A i \in 1 .. Len(s) : s[i] \in S
  OBVIOUS
<1> DEFINE a == SubSeq(s, 1, n)
           b == SubSeq(s, n + 1, Len(s))
<1>2. a \in Seq(S) /\ Len(a) = n /\ \A i \in 1 .. n : a[i] = s[i]
  <2>1. \A i \in 1 .. n : s[i] \in S
    BY <1>1
  <2>2. a \in Seq(S) /\ Len(a) = (IF 1 <= n THEN n - 1 + 1 ELSE 0)
        /\ \A i \in 1 .. n - 1 + 1 : a[i] = s[1 + i - 1]
    BY <1>1, <2>1, SubSeqProperties
  <2>3. n - 1 + 1 = n /\ \A i \in 1 .. n : 1 + i - 1 = i
    BY <1>1
  <2> QED BY <1>1, <2>2, <2>3
<1>3. b \in Seq(S) /\ Len(b) = Len(s) - n /\ \A i \in 1 .. Len(s) - n : b[i] = s[n + i]
  <2>1. \A i \in n + 1 .. Len(s) : s[i] \in S
    BY <1>1
  <2>2. b \in Seq(S) /\ Len(b) = (IF n + 1 <= Len(s) THEN Len(s) - (n + 1) + 1 ELSE 0)
        /\ \A i \in 1 .. Len(s) - (n + 1) + 1 : b[i] = s[(n + 1) + i - 1]
    BY <1>1, <2>1, SubSeqProperties
  <2>3. Len(s) - (n + 1) + 1 = Len(s) - n /\ \A i \in 1 .. Len(s) - n : (n + 1) + i - 1 = n + i
    BY <1>1
  <2>4. Len(b) = Len(s) - n
    <3>1. n + 1 <= Len(s) => Len(b) = Len(s) - (n + 1) + 1
      BY <2>2
    <3>2. ~(n + 1 <= Len(s)) => Len(b) = 0 /\ n = Len(s)
      BY <1>1, <2>2
    <3> HIDE DEF b
    <3> QED BY <1>1, <3>1, <3>2
  <2>5. \A i \in 1 .. Len(s) - n : b[i] = s[n + i]
    BY <2>2, <2>3
  <2> QED BY <2>2, <2>4, <2>5
<1> HIDE DEF a, b
<1>4. s = a \o b
  <2>1. /\ a \o b \in Seq(S) /\ Len(a \o b) = Len(s)
        /\ \A i \in 1 .. n : (a \o b)[i] = s[i]
        /\ \A i \in 1 .. Len(s) - n : (a \o b)[n + i] = s[n + i]
    BY <1>1, <1>2, <1>3, Joined
  <2>2. ASSUME NEW i \in 1 .. Len(s) PROVE s[i] = (a \o b)[i]
    <3>1. CASE i <= n
      <4>1. i \in 1 .. n
        BY <1>1, <3>1
      <4> QED BY <2>1, <4>1
    <3>2. CASE ~(i <= n)
      <4>1. i - n \in 1 .. Len(s) - n /\ n + (i - n) = i
        BY <1>1, <3>2
      <4>2. (a \o b)[n + (i - n)] = s[n + (i - n)]
        BY <2>1, <4>1
      <4> QED BY <4>1, <4>2
    <3> QED BY <3>1, <3>2
  <2> QED BY <2>1, <2>2, SameSeq
<1> QED BY <1>2, <1>3, <1>4 DEF a, b, Beyond

LEMMA BeyondJoin ==
    ASSUME NEW S, NEW s \in Seq(S), NEW t \in Seq(S), NEW n \in 0 .. Len(s)
    PROVE  /\ Beyond(s, n) \o t = Beyond(s \o t, n)
           /\ SubSeq(s, 1, n) = SubSeq(s \o t, 1, n)
<1> DEFINE u == s \o t
           a == Beyond(s, n)
<1>1. /\ u \in Seq(S) /\ Len(s) \in Nat /\ Len(t) \in Nat /\ Len(u) = Len(s) + Len(t)
      /\ \A i \in 1 .. Len(s) : u[i] = s[i]
      /\ \A i \in 1 .. Len(t) : u[Len(s) + i] = t[i]
  BY Joined
<1> HIDE DEF u
<1>2. n \in 0 .. Len(u)
  BY <1>1
<1>3. /\ a \in Seq(S) /\ Len(a) = Len(s) - n /\ \A i \in 1 .. Len(s) - n : a[i] = s[n + i]
      /\ SubSeq(s, 1, n) \in Seq(S) /\ Len(SubSeq(s, 1, n)) = n
      /\ \A i \in 1 .. n : SubSeq(s, 1, n)[i] = s[i]
  BY BeyondIs
<1>4. /\ Beyond(u, n) \in Seq(S) /\ Len(Beyond(u, n)) = Len(u) - n
      /\ \A i \in 1 .. Len(u) - n : Beyond(u, n)[i] = u[n + i]
      /\ SubSeq(u, 1, n) \in Seq(S) /\ Len(SubSeq(u, 1, n)) = n
      /\ \A i \in 1 .. n : SubSeq(u, 1, n)[i] = u[i]
  BY <1>1, <1>2, BeyondIs
<1> HIDE DEF a
<1>5. /\ a \o t \in Seq(S) /\ Len(a \o t) = Len(a) + Len(t)
      /\ \A i \in 1 .. Len(a) : (a \o t)[i] = a[i]
      /\ \A i \in 1 .. Len(t) : (a \o t)[Len(a) + i] = t[i]
  <2>1. a \in Seq(S) /\ t \in Seq(S)
    BY <1>3
  <2> QED BY <2>1, Joined
<1>6. ASSUME NEW i \in 1 .. Len(u) - n PROVE (a \o t)[i] = u[n + i]
  <2>1. CASE i <= Len(s) - n
    <3>1. i \in 1 .. Len(s) - n /\ n + i \in 1 .. Len(s)
      BY <1>1, <2>1
    <3> QED BY <1>1, <1>3, <1>5, <3>1
  <2>2. CASE ~(i <= Len(s) - n)
    <3> DEFINE j == i - (Len(s) - n)
    <3>1. j \in 1 .. Len(t) /\ i = Len(a) + j /\ n + i = Len(s) + j
      BY <1>1, <1>3, <2>2
    <3> HIDE DEF j
    <3>2. (a \o t)[Len(a) + j] = t[j] /\ u[Len(s) + j] = t[j]
      BY <1>1, <1>5, <3>1
    <3> QED BY <3>1, <3>2
  <2> QED BY <2>1, <2>2
<1>7. a \o t = Beyond(u, n)
  <2>1. Len(a \o t) = Len(u) - n
    BY <1>1, <1>3, <1>5
  <2>2. \A i \in 1 .. Len(a \o t) : (a \o t)[i] = Beyond(u, n)[i]
    BY <1>4, <1>6, <2>1
  <2> QED BY <1>4, <1>5, <2>1, <2>2, SameSeq
<1>8. SubSeq(s, 1, n) = SubSeq(u, 1, n)
  <2>1. \A i \in 1 .. n : i \in 1 .. Len(s)
    BY <1>1
  <2>2. \A i \in 1 .. n : SubSeq(s, 1, n)[i] = SubSeq(u, 1, n)[i]
    BY <1>1, <1>3, <1>4, <2>1
  <2> QED BY <1>3, <1>4, <2>2, SameSeq
<1> QED BY <1>7, <1>8 DEF a, u

-----------------------------------------------------------------------------
(* The intact frames among cells. *)

LEMMA CellCarrier == ASSUME NEW s \in Seq(Cell) PROVE s \in Seq(Carrier)
<1>1. Cell \subseteq Carrier
  BY DEF Cell, Carrier
<1> HIDE DEF Carrier
<1> QED BY <1>1

\* The cells of a kind, in their order.
OfKind(s, b) == Collect(s, {i \in DOMAIN s : s[i].body = b})

LEMMA OfKindJoin ==
    ASSUME NEW s \in Seq(Cell), NEW t \in Seq(Cell), NEW b
    PROVE  /\ OfKind(s \o t, b) = OfKind(s, b) \o OfKind(t, b)
           /\ OfKind(s, b) \in Seq(Events) /\ OfKind(t, b) \in Seq(Events)
<1> DEFINE u == s \o t
           K == {i \in DOMAIN s : s[i].body = b}
           L == {i \in DOMAIN t : t[i].body = b}
           M == {i \in DOMAIN u : u[i].body = b}
<1>1. /\ u \in Seq(Cell) /\ Len(s) \in Nat /\ Len(t) \in Nat /\ Len(u) = Len(s) + Len(t)
      /\ \A i \in 1 .. Len(s) : u[i] = s[i]
      /\ \A i \in 1 .. Len(t) : u[Len(s) + i] = t[i]
  BY Joined
<1>2. DOMAIN s = 1 .. Len(s) /\ DOMAIN t = 1 .. Len(t) /\ DOMAIN u = 1 .. Len(s) + Len(t)
  <2> HIDE DEF u
  <2> QED BY <1>1
<1>3. OfKind(u, b) = Collect(u, M) /\ OfKind(s, b) = Collect(s, K) /\ OfKind(t, b) = Collect(t, L)
  BY DEF OfKind
<1> HIDE DEF u
<1>4. \A i \in 1 .. Len(s) : i \in M <=> i \in K
  BY <1>1, <1>2
<1>5. \A i \in 1 .. Len(t) : Len(s) + i \in M <=> i \in L
  <2>1. \A i \in 1 .. Len(t) : Len(s) + i \in 1 .. Len(s) + Len(t)
    BY <1>1
  <2> QED BY <1>1, <1>2, <2>1
<1>6. s \in Seq(Carrier) /\ t \in Seq(Carrier)
  BY CellCarrier
<1> HIDE DEF K, L, M
<1>7. Collect(s \o t, M) = Collect(s, K) \o Collect(t, L)
  <2>1. s \in Seq(Carrier)
    BY <1>6
  <2>2. t \in Seq(Carrier)
    BY <1>6
  <2>3. Meets(M, K, L, Len(s), Len(t))
    BY <1>4, <1>5 DEF Meets
  <2> QED BY <2>1, <2>2, <2>3, CollectJoin
<1>8. Collect(s, K) \in Seq(Events) /\ Collect(t, L) \in Seq(Events)
  BY <1>6, CollectTyped
<1> QED BY <1>3, <1>7, <1>8 DEF u

LEMMA OfKindNone ==
    ASSUME NEW s \in Seq(Cell), NEW b, \A i \in 1 .. Len(s) : s[i].body # b
    PROVE  OfKind(s, b) = <<>>
<1> DEFINE K == {i \in DOMAIN s : s[i].body = b}
<1>1. \A i \in 1 .. Len(s) : i \notin K
  OBVIOUS
<1>2. OfKind(s, b) = Collect(s, K)
  BY DEF OfKind
<1> HIDE DEF K
<1> QED BY <1>1, <1>2, CellCarrier, CollectNone

\* The first cell, of the kind or not, and the others.
LEMMA OfKindFirst ==
    ASSUME NEW s \in Seq(Cell), Len(s) >= 1, NEW b
    PROVE  OfKind(s, b) = (IF s[1].body = b THEN <<s[1].event>> ELSE <<>>) \o OfKind(Beyond(s, 1), b)
<1> DEFINE a == SubSeq(s, 1, 1)
           r == Beyond(s, 1)
<1>1. Len(s) \in Nat /\ 1 \in 0 .. Len(s)
  OBVIOUS
<1>2. a \in Seq(Cell) /\ Len(a) = 1 /\ a[1] = s[1] /\ r \in Seq(Cell) /\ s = a \o r
  <2>1. 1 \in 1 .. 1
    OBVIOUS
  <2> QED BY <1>1, <2>1, BeyondIs
<1> HIDE DEF a, r
<1>3. OfKind(a, b) = IF s[1].body = b THEN <<s[1].event>> ELSE <<>>
  <2> DEFINE K == {i \in DOMAIN a : a[i].body = b}
  <2>1. 1 \in K <=> s[1].body = b
    <3>1. DOMAIN a = 1 .. 1
      BY <1>2
    <3> QED BY <1>2, <3>1
  <2>2. OfKind(a, b) = Collect(a, K)
    BY DEF OfKind
  <2> HIDE DEF K
  <2>3. PICK f \in [0 .. Len(a) -> Seq(Events)] : CollectChain(f, a, K)
    BY <1>2, CellCarrier, CollectSteps
  <2>4. /\ f[0] = <<>> /\ Collect(a, K) = f[1]
        /\ f[1] = IF 1 \in K THEN Append(f[0], a[1].event) ELSE f[0]
    <3>1. 1 \in 1 .. 1 /\ 1 - 1 = 0
      OBVIOUS
    <3> QED BY <1>2, <2>3, <3>1 DEF CollectChain
  <2>5. Append(<<>>, s[1].event) = <<s[1].event>>
    OBVIOUS
  <2> QED BY <1>2, <2>1, <2>2, <2>4, <2>5
<1>4. OfKind(s, b) = OfKind(a, b) \o OfKind(r, b)
  BY <1>2, OfKindJoin
<1> QED BY <1>3, <1>4 DEF r

LEMMA BufferedJoin ==
    ASSUME NEW s \in Seq(Cell), NEW t \in Seq(Cell)
    PROVE  /\ Buffered(s \o t) = Buffered(s) \o Buffered(t)
           /\ Buffered(s) \in Seq(Events) /\ Buffered(t) \in Seq(Events)
BY OfKindJoin DEF Buffered, OfKind

LEMMA BufferedNone ==
    ASSUME NEW s \in Seq(Cell), \A i \in 1 .. Len(s) : s[i].body # "intact"
    PROVE  Buffered(s) = <<>>
<1>1. Buffered(s) = OfKind(s, "intact")
  BY DEF Buffered, OfKind
<1> QED BY <1>1, OfKindNone

\* A frame's first cell carries its event.
LEMMA BufferedFirst ==
    ASSUME NEW s \in Seq(Cell), Len(s) >= 1, s[1].body = "intact",
           \A i \in 2 .. Len(s) : s[i].body # "intact"
    PROVE  Buffered(s) = <<s[1].event>>
<1> DEFINE b == Beyond(s, 1)
<1>1. Len(s) \in Nat /\ 1 \in 0 .. Len(s)
  OBVIOUS
<1>2. b \in Seq(Cell) /\ Len(b) = Len(s) - 1 /\ \A i \in 1 .. Len(s) - 1 : b[i] = s[1 + i]
  BY <1>1, BeyondIs
<1> HIDE DEF b
<1>3. OfKind(b, "intact") = <<>>
  <2>1. \A i \in 1 .. Len(b) : 1 + i \in 2 .. Len(s) /\ i \in 1 .. Len(s) - 1
    BY <1>1, <1>2
  <2>2. \A i \in 1 .. Len(b) : b[i].body # "intact"
    BY <1>2, <2>1
  <2> QED BY <1>2, <2>2, OfKindNone
<1>4. Buffered(s) = <<s[1].event>> \o OfKind(b, "intact")
  <2>1. Buffered(s) = OfKind(s, "intact")
    BY DEF Buffered, OfKind
  <2> QED BY <2>1, OfKindFirst DEF b
<1>5. <<s[1].event>> \o <<>> = <<s[1].event>>
  OBVIOUS
<1> QED BY <1>3, <1>4, <1>5

-----------------------------------------------------------------------------
(* Frames stay whole until the decoder takes them off, and no intact frame is *)
(* taken for anything else.                                                *)

\* A frame begins at i, and all of it is there.
FrameAt(cells, i) ==
    /\ cells[i].len = FrameLen /\ i + FrameLen - 1 <= Len(cells)
    /\ cells[i].body = "intact" => cells[i].crc
    /\ \A j \in i + 1 .. i + FrameLen - 1 : cells[j].body # "intact"

Aligned(cells) ==
    \A i \in 1 .. Len(cells) : cells[i].body \in {"intact", "data"} => FrameAt(cells, i)

LEMMA AlignedBeyond ==
    ASSUME NEW s \in Seq(Cell), Aligned(s), NEW n \in 0 .. Len(s)
    PROVE  Aligned(Beyond(s, n))
<1> DEFINE b == Beyond(s, n)
<1>1. /\ b \in Seq(Cell) /\ Len(b) = Len(s) - n /\ \A i \in 1 .. Len(s) - n : b[i] = s[n + i]
      /\ Len(s) \in Nat /\ n \in Nat /\ FrameLen \in Nat \ {0}
  BY BeyondIs, BoundsNat
<1> HIDE DEF b
<1>2. ASSUME NEW i \in 1 .. Len(b), b[i].body \in {"intact", "data"} PROVE FrameAt(b, i)
  <2>1. n + i \in 1 .. Len(s) /\ b[i] = s[n + i]
    BY <1>1
  <2>2. /\ s[n + i].len = FrameLen /\ (n + i) + FrameLen - 1 <= Len(s)
        /\ s[n + i].body = "intact" => s[n + i].crc
        /\ \A j \in (n + i) + 1 .. (n + i) + FrameLen - 1 : s[j].body # "intact"
    BY <1>2, <2>1 DEF Aligned, FrameAt
  <2>3. i + FrameLen - 1 <= Len(b)
    BY <1>1, <2>1, <2>2
  <2>4. ASSUME NEW j \in i + 1 .. i + FrameLen - 1 PROVE b[j].body # "intact"
    <3>1. n + j \in (n + i) + 1 .. (n + i) + FrameLen - 1 /\ j \in 1 .. Len(s) - n
      BY <1>1, <2>1, <2>3
    <3> QED BY <1>1, <2>2, <3>1
  <2> QED BY <2>1, <2>2, <2>3, <2>4 DEF FrameAt
<1> QED BY <1>2 DEF b, Aligned

LEMMA AlignedJoin ==
    ASSUME NEW s \in Seq(Cell), NEW t \in Seq(Cell), Aligned(s), Aligned(t)
    PROVE  Aligned(s \o t)
<1> DEFINE u == s \o t
<1>1. /\ u \in Seq(Cell) /\ Len(s) \in Nat /\ Len(t) \in Nat /\ Len(u) = Len(s) + Len(t)
      /\ \A i \in 1 .. Len(s) : u[i] = s[i]
      /\ \A i \in 1 .. Len(t) : u[Len(s) + i] = t[i]
      /\ FrameLen \in Nat \ {0}
  BY Joined, BoundsNat
<1> HIDE DEF u
<1>2. ASSUME NEW i \in 1 .. Len(u), u[i].body \in {"intact", "data"} PROVE FrameAt(u, i)
  <2>1. CASE i \in 1 .. Len(s)
    <3>1. /\ s[i].len = FrameLen /\ i + FrameLen - 1 <= Len(s)
          /\ s[i].body = "intact" => s[i].crc
          /\ \A j \in i + 1 .. i + FrameLen - 1 : s[j].body # "intact"
      BY <1>1, <1>2, <2>1 DEF Aligned, FrameAt
    <3>2. \A j \in i + 1 .. i + FrameLen - 1 : j \in 1 .. Len(s)
      BY <1>1, <2>1, <3>1
    <3>3. i + FrameLen - 1 <= Len(u)
      BY <1>1, <2>1, <3>1
    <3> QED BY <1>1, <2>1, <3>1, <3>2, <3>3 DEF FrameAt
  <2>2. CASE i \notin 1 .. Len(s)
    <3> DEFINE k == i - Len(s)
    <3>1. k \in 1 .. Len(t) /\ i = Len(s) + k
      BY <1>1, <2>2
    <3> HIDE DEF k
    <3>2. u[i] = t[k]
      BY <1>1, <3>1
    <3>3. /\ t[k].len = FrameLen /\ k + FrameLen - 1 <= Len(t)
          /\ t[k].body = "intact" => t[k].crc
          /\ \A j \in k + 1 .. k + FrameLen - 1 : t[j].body # "intact"
      BY <1>2, <3>1, <3>2 DEF Aligned, FrameAt
    <3>4. i + FrameLen - 1 <= Len(u)
      BY <1>1, <3>1, <3>3
    <3>5. ASSUME NEW j \in i + 1 .. i + FrameLen - 1 PROVE u[j].body # "intact"
      <4> DEFINE l == j - Len(s)
      <4>1. l \in k + 1 .. k + FrameLen - 1 /\ l \in 1 .. Len(t) /\ j = Len(s) + l
        BY <1>1, <3>1, <3>3
      <4> HIDE DEF l
      <4> QED BY <1>1, <3>3, <4>1
    <3> QED BY <3>2, <3>3, <3>4, <3>5 DEF FrameAt
  <2> QED BY <2>1, <2>2
<1> QED BY <1>2 DEF u, Aligned

\* What a frame's first cell reads as.
FirstOf(trouble, event) ==
    [len   |-> CASE trouble = "length"  -> 0
                 [] trouble = "swallow" -> FrameLen + 1
                 [] OTHER               -> FrameLen,
     crc   |-> trouble \notin {"prelude", "swallow"},
     body  |-> IF Intact(trouble) THEN "intact" ELSE trouble,
     event |-> event]

LEMMA CellsRead ==
    ASSUME NEW event \in Content, NEW trouble \in Damage \cup {"none", "split", "held"}
    PROVE  LET c == Cells(event, trouble)
           IN  /\ c \in Seq(Cell) /\ Len(c) = FrameLen /\ c[1] = FirstOf(trouble, event)
               /\ \A i \in 2 .. FrameLen : c[i] = Text
<1> DEFINE c == Cells(event, trouble)
           first == FirstOf(trouble, event)
           rest == [i \in 1 .. FrameLen - 1 |-> Text]
<1>1. c \in Seq(Cell) /\ Len(c) = FrameLen /\ FrameLen \in Nat \ {0}
  BY CellsAre, BoundsNat
<1>2. c = <<first>> \o rest
  BY DEF Cells, FirstOf
<1>3. rest \in Seq({Text}) /\ Len(rest) = FrameLen - 1 /\ \A i \in 1 .. FrameLen - 1 : rest[i] = Text
  <2>1. FrameLen - 1 \in Nat /\ DOMAIN rest = 1 .. FrameLen - 1
    BY <1>1
  <2>2. rest \in [1 .. FrameLen - 1 -> {Text}]
    OBVIOUS
  <2>3. rest \in Seq({Text})
    BY <2>1, <2>2
  <2>4. \A i \in 1 .. FrameLen - 1 : rest[i] = Text
    OBVIOUS
  <2> HIDE DEF rest
  <2> QED BY <2>1, <2>3, <2>4
<1> HIDE DEF first, rest, c
<1>4. <<first>> \in Seq({first, Text}) /\ rest \in Seq({first, Text}) /\ Len(<<first>>) = 1
      /\ <<first>>[1] = first
  BY <1>3
<1>5. /\ \A i \in 1 .. 1 : c[i] = <<first>>[i]
      /\ \A i \in 1 .. FrameLen - 1 : c[1 + i] = rest[i]
  BY <1>2, <1>3, <1>4, Joined
<1>6. c[1] = first
  BY <1>4, <1>5
<1>7. ASSUME NEW i \in 2 .. FrameLen PROVE c[i] = Text
  <2>1. i - 1 \in 1 .. FrameLen - 1 /\ 1 + (i - 1) = i
    BY <1>1
  <2> QED BY <1>3, <1>5, <2>1
<1> QED BY <1>1, <1>6, <1>7 DEF c, first

LEMMA CellsAligned ==
    ASSUME NEW event \in Content, NEW trouble \in Damage \cup {"none", "split", "held"}
    PROVE  /\ Aligned(Cells(event, trouble))
           /\ Buffered(Cells(event, trouble)) = IF Intact(trouble) THEN <<event>> ELSE <<>>
<1> DEFINE c == Cells(event, trouble)
           first == FirstOf(trouble, event)
<1>1. /\ c \in Seq(Cell) /\ Len(c) = FrameLen /\ c[1] = first
      /\ \A i \in 2 .. FrameLen : c[i] = Text
      /\ FrameLen \in Nat \ {0}
  BY CellsRead, BoundsNat
<1>2. /\ first.body \in {"intact", "data"} => first.len = FrameLen /\ first.crc
      /\ first.body = IF Intact(trouble) THEN "intact" ELSE trouble
      /\ ~Intact(trouble) => trouble # "intact"
      /\ first.event = event
  BY DEF FirstOf, Intact, Damage
<1> HIDE DEF first, c
<1>3. Text.body = "text"
  BY DEF Text
<1>4. ASSUME NEW i \in 1 .. Len(c), c[i].body \in {"intact", "data"} PROVE FrameAt(c, i)
  <2>1. i = 1
    <3>1. i # 1 => i \in 2 .. FrameLen
      BY <1>1
    <3> QED BY <1>1, <1>3, <1>4, <3>1
  <2>2. \A j \in 2 .. FrameLen : c[j].body # "intact"
    BY <1>1, <1>3
  <2>3. /\ c[1].len = FrameLen /\ 1 + FrameLen - 1 <= Len(c)
        /\ c[1].body = "intact" => c[1].crc
        /\ \A j \in 1 + 1 .. 1 + FrameLen - 1 : c[j].body # "intact"
    <3>1. 1 + FrameLen - 1 = FrameLen /\ 1 + 1 = 2
      BY <1>1
    <3> QED BY <1>1, <1>2, <1>4, <2>1, <2>2, <3>1
  <2> QED BY <2>1, <2>3 DEF FrameAt
<1>5. CASE Intact(trouble)
  <2>1. Len(c) >= 1 /\ c[1].body = "intact" /\ \A i \in 2 .. Len(c) : c[i].body # "intact"
    BY <1>1, <1>2, <1>3, <1>5
  <2>2. Buffered(c) = <<c[1].event>>
    BY <1>1, <2>1, BufferedFirst
  <2> QED BY <1>1, <1>2, <1>4, <1>5, <2>2 DEF Aligned, c
<1>6. CASE ~Intact(trouble)
  <2>1. ASSUME NEW i \in 1 .. Len(c) PROVE c[i].body # "intact"
    <3>1. i = 1 \/ i \in 2 .. FrameLen
      BY <1>1
    <3> QED BY <1>1, <1>2, <1>3, <1>6, <3>1
  <2>2. Buffered(c) = <<>>
    BY <1>1, <2>1, BufferedNone
  <2> QED BY <1>4, <1>6, <2>2 DEF Aligned, c
<1> QED BY <1>5, <1>6

-----------------------------------------------------------------------------
(* One turn of the decoder, and all of them. *)

\* All turns in a set that turns do not leave.
LEMMA TurnsStay ==
    ASSUME NEW A \in SUBSET Run, NEW x \in A, NEW m \in Nat,
           \A y \in A : \A i \in 1 .. m : Turn(y, i) \in A
    PROVE  FoldLeft(Turn, x, [i \in 1 .. m |-> i]) \in A
<1>1. PICK h \in [0 .. m -> Run] : TurnChain(h, x, m)
  BY TurnsSteps
<1> DEFINE T == {k \in Nat : k <= m => h[k] \in A}
<1>2. 0 \in T
  BY <1>1 DEF TurnChain
<1>3. ASSUME NEW k \in T PROVE k + 1 \in T
  <2> SUFFICES ASSUME k + 1 <= m PROVE h[k + 1] \in A
    OBVIOUS
  <2>1. k + 1 \in 1 .. m /\ (k + 1) - 1 = k /\ h[k] \in A
    OBVIOUS
  <2>2. h[k + 1] = Turn(h[k], k + 1)
    BY <1>1, <2>1 DEF TurnChain
  <2> QED BY <2>1, <2>2
<1>4. T \in SUBSET Nat
  OBVIOUS
<1>5. m \in T
  <2> HIDE DEF T
  <2> QED BY <1>2, <1>3, <1>4, Induction
<1> QED BY <1>1, <1>5 DEF TurnChain

\* What the first cell of the buffer says about the verdict.
LEMMA ParseIs ==
    ASSUME NEW buf \in Seq(Cell), buf # <<>>
    PROVE  /\ buf[1] \in Cell /\ Head(buf) = buf[1] /\ Len(buf) \in Nat \ {0} /\ buf[1].len \in Nat
           /\ Parse(buf) = "frame" => buf[1].body = "intact" /\ buf[1].len <= Len(buf)
           /\ Parse(buf) = "data" => buf[1].body = "data" /\ buf[1].len <= Len(buf)
           /\ buf[1].body = "intact" /\ buf[1].crc /\ buf[1].len = FrameLen
                 => Parse(buf) \in {"more", "frame"}
           /\ buf[1].len = FrameLen /\ buf[1].crc /\ Len(buf) >= FrameLen
                 => Parse(buf) = IF buf[1].body = "intact" THEN "frame" ELSE buf[1].body
           /\ buf[1].len = FrameLen /\ Len(buf) < FrameLen => Parse(buf) = "more"
<1> DEFINE c == buf[1]
           n == Len(buf)
<1>1. c \in Cell /\ Head(buf) = c /\ n \in Nat \ {0}
  OBVIOUS
<1>2. /\ c.len \in Nat /\ c.crc \in BOOLEAN
      /\ c.body \in {"length", "swallow", "prelude", "data", "headers", "intact", "text"}
  BY <1>1 DEF Cell, Damage
<1>3. Parse(buf) = CASE n < PreludeLen -> "more"
                     [] n >= PreludeLen /\ c.len = 0 -> "prelude"
                     [] n >= PreludeLen /\ c.len # 0 /\ n < c.len -> "more"
                     [] OTHER -> CASE ~c.crc             -> "prelude"
                                   [] c.crc /\ c.body = "intact" -> "frame"
                                   [] OTHER              -> c.body
  BY <1>1 DEF Parse
<1>4. FrameLen \in Nat \ {0} /\ PreludeLen \in Nat /\ PreludeLen < FrameLen
  BY DecoderAssumption
<1> HIDE DEF c, n
<1>5. Parse(buf) = "frame" => c.body = "intact" /\ c.len <= n
  BY <1>1, <1>2, <1>3, <1>4
<1>6. Parse(buf) = "data" => c.body = "data" /\ c.len <= n
  BY <1>1, <1>2, <1>3, <1>4
<1>7. c.body = "intact" /\ c.crc /\ c.len = FrameLen => Parse(buf) \in {"more", "frame"}
  BY <1>1, <1>2, <1>3, <1>4
<1>8. c.len = FrameLen /\ c.crc /\ n >= FrameLen
         => Parse(buf) = IF c.body = "intact" THEN "frame" ELSE c.body
  BY <1>1, <1>2, <1>3, <1>4
<1>9. c.len = FrameLen /\ n < FrameLen => Parse(buf) = "more"
  BY <1>1, <1>2, <1>3, <1>4
<1> QED BY <1>1, <1>2, <1>5, <1>6, <1>7, <1>8, <1>9 DEF c, n

\* What one decoding does, by the verdict: n cells are taken off the buffer.
Outcome(d, e, n) ==
    /\ n \in 0 .. Len(d.buf) /\ e.buf = Beyond(d.buf, n)
    /\ \/ Parse(d.buf) = "more" /\ n = 0 /\ e.state = "Ready" /\ e.errors = d.errors
       \/ Parse(d.buf) = "frame" /\ n = d.buf[1].len /\ e.state = "Ready" /\ e.errors = 0
       \/ /\ Parse(d.buf) = "data" /\ n = d.buf[1].len /\ e.state = "Recovering"
          /\ e.errors = d.errors + 1
       \/ /\ Parse(d.buf) \notin {"more", "frame", "data"} /\ n = 1 /\ e.state = "Recovering"
          /\ e.errors = d.errors + 1
       \/ /\ Parse(d.buf) \notin {"more", "frame"} /\ n = 0 /\ e.state = "Stopped"
          /\ d.errors + 1 >= MaxErrors

LEMMA AllBeyond == ASSUME NEW S, NEW s \in Seq(S) PROVE Beyond(s, 0) = s
<1>1. 0 \in 0 .. Len(s)
  OBVIOUS
<1> DEFINE b == Beyond(s, 0)
<1>2. b \in Seq(S) /\ Len(b) = Len(s) - 0 /\ \A i \in 1 .. Len(s) - 0 : b[i] = s[0 + i]
  BY <1>1, BeyondIs
<1> HIDE DEF b
<1>3. Len(s) - 0 = Len(s) /\ \A i \in 1 .. Len(s) : 0 + i = i
  OBVIOUS
<1>4. b = s
  BY <1>2, <1>3, SameSeq
<1> QED BY <1>4 DEF b

LEMMA DecodeIs ==
    ASSUME NEW d \in Decoder, d.state = "Ready", d.buf # <<>>
    PROVE  \E n \in Nat : Outcome(d, Decode(d), n)
<1> DEFINE f == [d EXCEPT !.errors = d.errors + 1]
           l == d.buf[1].len
           e == Decode(d)
<1>1. /\ d.buf \in Seq(Cell) /\ Len(d.buf) \in Nat \ {0} /\ l \in Nat /\ Head(d.buf).len = l
      /\ Parse(d.buf) \in {"frame", "data"} => l <= Len(d.buf)
  BY DecoderIs, ParseIs
<1>2. Beyond(d.buf, 0) = d.buf
  BY <1>1, AllBeyond
<1>3. f.errors = d.errors + 1 /\ f.buf = d.buf
  BY DEF Decoder
<1>4. CASE Parse(d.buf) = "more"
  <2>1. e = [d EXCEPT !.state = "Ready"]
    BY <1>4 DEF Decode
  <2>2. e.buf = d.buf /\ e.state = "Ready" /\ e.errors = d.errors
    BY <2>1 DEF Decoder
  <2>3. 0 \in 0 .. Len(d.buf)
    BY <1>1
  <2> HIDE DEF e
  <2>4. Outcome(d, e, 0)
    BY <1>2, <1>4, <2>2, <2>3 DEF Outcome
  <2> QED BY <2>4 DEF e
<1>5. CASE Parse(d.buf) = "frame"
  <2>1. e = [Advance(d, l) EXCEPT !.state = "Ready", !.errors = 0]
    BY <1>1, <1>5 DEF Decode
  <2>2. e.buf = Beyond(d.buf, l) /\ e.state = "Ready" /\ e.errors = 0
    BY <2>1 DEF Decoder, Advance, Beyond
  <2>3. l \in 0 .. Len(d.buf)
    BY <1>1, <1>5
  <2> HIDE DEF e
  <2>4. Outcome(d, e, l)
    BY <1>5, <2>2, <2>3 DEF Outcome
  <2> QED BY <1>1, <2>4 DEF e
<1>6. CASE Parse(d.buf) \notin {"more", "frame"} /\ d.errors + 1 >= MaxErrors
  <2>1. e = [f EXCEPT !.state = "Stopped"]
    BY <1>3, <1>6 DEF Decode
  <2>2. e.buf = d.buf /\ e.state = "Stopped"
    BY <1>3, <2>1 DEF Decoder
  <2>3. 0 \in 0 .. Len(d.buf)
    BY <1>1
  <2> HIDE DEF e, f
  <2>4. Outcome(d, e, 0)
    BY <1>2, <1>6, <2>2, <2>3 DEF Outcome
  <2> QED BY <2>4 DEF e
<1>7. CASE Parse(d.buf) \notin {"more", "frame"} /\ ~(d.errors + 1 >= MaxErrors)
  <2> DEFINE n == IF Parse(d.buf) = "data" THEN l ELSE 1
  <2>1. e = [Advance(f, n) EXCEPT !.state = "Recovering"]
    BY <1>1, <1>3, <1>7 DEF Decode, TryRecover
  <2>2. n \in 0 .. Len(d.buf)
    BY <1>1
  <2> HIDE DEF n
  <2>3. e.buf = Beyond(d.buf, n) /\ e.state = "Recovering" /\ e.errors = d.errors + 1
    BY <1>3, <2>1 DEF Decoder, Advance, Beyond
  <2> HIDE DEF e, f
  <2>4. Outcome(d, e, n)
    BY <1>7, <2>2, <2>3 DEF Outcome, n
  <2>5. n \in Nat
    BY <1>1, <2>2
  <2> QED BY <2>4, <2>5 DEF e
<1> QED BY <1>4, <1>5, <1>6, <1>7

\* Cells that carry no intact frame may go.
LEMMA DropSilent ==
    ASSUME NEW s \in Seq(Cell), NEW n \in 0 .. Len(s), \A i \in 1 .. n : s[i].body # "intact"
    PROVE  Buffered(Beyond(s, n)) = Buffered(s)
<1> DEFINE a == SubSeq(s, 1, n)
           b == Beyond(s, n)
<1>1. /\ a \in Seq(Cell) /\ Len(a) = n /\ (\A i \in 1 .. n : a[i] = s[i])
      /\ b \in Seq(Cell) /\ s = a \o b
  BY BeyondIs
<1> HIDE DEF a, b
<1>2. Buffered(a) = <<>>
  <2>1. \A i \in 1 .. Len(a) : a[i].body # "intact"
    BY <1>1
  <2> QED BY <1>1, <2>1, BufferedNone
<1>3. Buffered(s) = Buffered(a) \o Buffered(b) /\ Buffered(b) \in Seq(Events)
  BY <1>1, BufferedJoin
<1>4. <<>> \o Buffered(b) = Buffered(b)
  BY <1>3, ConcatEmptySeq
<1> QED BY <1>2, <1>3, <1>4 DEF b

\* An intact frame at the beginning may be taken off, with its event.
LEMMA DropFrame ==
    ASSUME NEW s \in Seq(Cell), Aligned(s), s # <<>>, s[1].body = "intact"
    PROVE  /\ s[1].len = FrameLen /\ FrameLen <= Len(s)
           /\ Buffered(s) = <<s[1].event>> \o Buffered(Beyond(s, FrameLen))
<1> DEFINE a == SubSeq(s, 1, FrameLen)
           b == Beyond(s, FrameLen)
<1>1. Len(s) \in Nat \ {0} /\ FrameLen \in Nat \ {0}
  BY BoundsNat
<1>2. /\ s[1].len = FrameLen /\ FrameLen <= Len(s)
      /\ \A i \in 2 .. FrameLen : s[i].body # "intact"
  <2>1. 1 \in 1 .. Len(s) /\ 1 + FrameLen - 1 = FrameLen /\ 1 + 1 = 2
    BY <1>1
  <2>2. FrameAt(s, 1)
    BY <2>1 DEF Aligned
  <2> QED BY <2>1, <2>2 DEF FrameAt
<1>3. FrameLen \in 0 .. Len(s)
  BY <1>1, <1>2
<1>4. /\ a \in Seq(Cell) /\ Len(a) = FrameLen /\ (\A i \in 1 .. FrameLen : a[i] = s[i])
      /\ b \in Seq(Cell) /\ s = a \o b
  BY <1>3, BeyondIs
<1> HIDE DEF a, b
<1>5. Buffered(a) = <<s[1].event>>
  <2>1. 1 \in 1 .. FrameLen /\ \A i \in 2 .. FrameLen : i \in 1 .. FrameLen
    BY <1>1
  <2>2. a[1] = s[1] /\ \A i \in 2 .. Len(a) : a[i].body # "intact"
    BY <1>2, <1>4, <2>1
  <2>3. Len(a) >= 1
    BY <1>1, <1>4
  <2> QED BY <1>4, <2>2, <2>3, BufferedFirst
<1>6. Buffered(s) = Buffered(a) \o Buffered(b)
  BY <1>4, BufferedJoin
<1> QED BY <1>2, <1>5, <1>6 DEF b

\* A frame that is damaged in its body has no intact one in it.
LEMMA DamagedIsSilent ==
    ASSUME NEW s \in Seq(Cell), Aligned(s), s # <<>>, s[1].body = "data"
    PROVE  s[1].len = FrameLen /\ \A i \in 1 .. FrameLen : s[i].body # "intact"
<1>1. Len(s) \in Nat \ {0} /\ FrameLen \in Nat \ {0}
  BY BoundsNat
<1>2. 1 \in 1 .. Len(s) /\ 1 + FrameLen - 1 = FrameLen /\ 1 + 1 = 2
  BY <1>1
<1>3. FrameAt(s, 1)
  BY <1>2 DEF Aligned
<1>4. s[1].len = FrameLen /\ \A i \in 2 .. FrameLen : s[i].body # "intact"
  BY <1>2, <1>3 DEF FrameAt
<1>5. ASSUME NEW i \in 1 .. FrameLen PROVE s[i].body # "intact"
  <2>1. i = 1 \/ i \in 2 .. FrameLen
    BY <1>1
  <2> QED BY <1>4, <2>1
<1> QED BY <1>4, <1>5

LEMMA AppendFirst ==
    ASSUME NEW S, NEW s \in Seq(S), NEW t \in Seq(S), NEW e \in S
    PROVE  s \o (<<e>> \o t) = Append(s, e) \o t
<1>1. Append(s, e) = s \o <<e>> /\ <<e>> \in Seq(S)
  OBVIOUS
<1>2. s \o (<<e>> \o t) = (s \o <<e>>) \o t
  BY <1>1, ConcatAssociative
<1> QED BY <1>1, <1>2

LEMMA DecodeCarries ==
    ASSUME NEW d \in Decoder, d.state = "Ready", d.buf # <<>>, NEW w \in Seq(Cell),
           Aligned(d.buf \o w)
    PROVE  LET e == Decode(d)
           IN  /\ Aligned(e.buf \o w) /\ Len(e.buf) <= Len(d.buf)
               /\ Parse(d.buf) = "frame" =>
                     Buffered(d.buf \o w) = <<Head(d.buf).event>> \o Buffered(e.buf \o w)
               /\ Parse(d.buf) # "frame" => Buffered(d.buf \o w) = Buffered(e.buf \o w)
<1> DEFINE e == Decode(d)
           s == d.buf \o w
<1>1. d.buf \in Seq(Cell) /\ Len(d.buf) \in Nat \ {0} /\ Head(d.buf) = d.buf[1]
  BY DecoderIs, ParseIs
<1>2. PICK n \in Nat : Outcome(d, e, n)
  BY DecodeIs
<1> HIDE DEF e
<1>3. n \in 0 .. Len(d.buf) /\ e.buf = Beyond(d.buf, n)
  BY <1>2 DEF Outcome
<1>4. s \in Seq(Cell) /\ s # <<>> /\ s[1] = d.buf[1] /\ Len(d.buf) <= Len(s)
  <2>1. s \in Seq(Cell) /\ Len(s) = Len(d.buf) + Len(w) /\ Len(w) \in Nat
        /\ \A i \in 1 .. Len(d.buf) : s[i] = d.buf[i]
    BY <1>1, Joined
  <2> HIDE DEF s
  <2>2. 1 \in 1 .. Len(d.buf) /\ Len(s) # 0
    BY <1>1, <2>1
  <2> QED BY <1>1, <2>1, <2>2
<1>5. e.buf \o w = Beyond(s, n)
  BY <1>1, <1>3, BeyondJoin
<1>6. Len(e.buf) <= Len(d.buf)
  <2>1. Len(e.buf) = Len(d.buf) - n
    BY <1>1, <1>3, BeyondIs
  <2> QED BY <1>1, <1>3, <2>1
<1> HIDE DEF s
<1>7. n \in 0 .. Len(s)
  BY <1>1, <1>3, <1>4
<1>8. Aligned(s)
  BY DEF s
<1>9. Aligned(e.buf \o w)
  BY <1>4, <1>5, <1>7, <1>8, AlignedBeyond
<1>10. CASE Parse(d.buf) = "frame"
  <2>1. s[1].body = "intact" /\ n = s[1].len
    BY <1>1, <1>2, <1>4, <1>10, ParseIs DEF Outcome
  <2>2. n = FrameLen /\ Buffered(s) = <<s[1].event>> \o Buffered(Beyond(s, FrameLen))
    BY <1>4, <1>8, <2>1, DropFrame
  <2> QED BY <1>1, <1>4, <1>5, <1>6, <1>9, <1>10, <2>2 DEF s, e
<1>11. CASE Parse(d.buf) # "frame"
  <2>1. \A i \in 1 .. n : s[i].body # "intact"
    <3>1. CASE n = 0
      BY <3>1
    <3>2. CASE n # 0 /\ Parse(d.buf) = "data"
      <4>1. s[1].body = "data" /\ n = s[1].len
        BY <1>1, <1>2, <1>4, <3>2, ParseIs DEF Outcome
      <4> QED BY <1>4, <1>8, <4>1, DamagedIsSilent
    <3>3. CASE n # 0 /\ Parse(d.buf) # "data"
      <4>1. n = 1 /\ Parse(d.buf) \notin {"more", "frame"}
        BY <1>2, <1>11, <3>3 DEF Outcome
      <4>2. s[1].body # "intact"
        <5> SUFFICES ASSUME s[1].body = "intact" PROVE FALSE
          OBVIOUS
        <5>1. s[1].len = FrameLen /\ s[1].crc
          <6>1. 1 \in 1 .. Len(s)
            BY <1>1, <1>4
          <6> QED BY <1>8, <6>1 DEF Aligned, FrameAt
        <5>2. Parse(d.buf) \in {"more", "frame"}
          BY <1>1, <1>4, <5>1, ParseIs
        <5> QED BY <4>1, <5>2
      <4> QED BY <4>1, <4>2
    <3> QED BY <3>1, <3>2, <3>3
  <2>2. Buffered(Beyond(s, n)) = Buffered(s)
    BY <1>4, <1>7, <2>1, DropSilent
  <2> QED BY <1>5, <1>6, <1>9, <1>11, <2>2 DEF s, e
<1> QED BY <1>10, <1>11

\* Runs that have handed on, or still hold before w, all intact frames.
Carrying(w, all, m) ==
    {r \in Run : /\ Aligned(r.d.buf \o w) /\ Len(r.d.buf) <= m
                 /\ r.events \o Buffered(r.d.buf \o w) = all}

LEMMA TurnCarries ==
    ASSUME NEW w \in Seq(Cell), NEW all, NEW m \in Nat, NEW r \in Carrying(w, all, m), NEW i
    PROVE  Turn(r, i) \in Carrying(w, all, m)
<1> DEFINE ready == r.on /\ r.d.state = "Ready" /\ r.d.buf # <<>>
           got == ready /\ Parse(r.d.buf) = "frame"
           t == Turn(r, i)
           e == Decode(r.d)
<1>1. /\ r \in Run /\ r.d \in Decoder /\ r.events \in Seq(Content)
      /\ Aligned(r.d.buf \o w) /\ Len(r.d.buf) <= m
      /\ r.events \o Buffered(r.d.buf \o w) = all
  BY DEF Carrying, Run
<1>2. t \in Run
  BY <1>1, TurnKeeps
<1>3. t = [d |-> IF ready THEN e ELSE r.d,
           events |-> IF got THEN Append(r.events, Head(r.d.buf).event) ELSE r.events,
           on |-> got]
  BY DEF Turn
<1>4. /\ t.d = (IF ready THEN e ELSE r.d)
      /\ t.events = (IF got THEN Append(r.events, Head(r.d.buf).event) ELSE r.events)
  BY <1>3
<1> HIDE DEF t
<1>5. CASE ~ready
  BY <1>1, <1>2, <1>4, <1>5 DEF Carrying, t
<1>6. CASE ready
  <2>1. /\ Aligned(e.buf \o w) /\ Len(e.buf) <= Len(r.d.buf)
        /\ Parse(r.d.buf) = "frame" =>
              Buffered(r.d.buf \o w) = <<Head(r.d.buf).event>> \o Buffered(e.buf \o w)
        /\ Parse(r.d.buf) # "frame" => Buffered(r.d.buf \o w) = Buffered(e.buf \o w)
    BY <1>1, <1>6, DecodeCarries
  <2>2. e \in Decoder /\ e.buf \in Seq(Cell) /\ Len(e.buf) \in Nat /\ Len(r.d.buf) \in Nat
    BY <1>1, <1>6, DecodeKeeps, DecoderIs
  <2> HIDE DEF e
  <2>3. Len(e.buf) <= m
    BY <1>1, <2>1, <2>2
  <2>4. CASE ~got
    <3>1. t.d = e /\ t.events = r.events
      BY <1>4, <1>6, <2>4
    <3>2. Buffered(r.d.buf \o w) = Buffered(e.buf \o w)
      BY <1>6, <2>1, <2>4
    <3> QED BY <1>1, <1>2, <2>1, <2>3, <3>1, <3>2 DEF Carrying, t
  <2>5. CASE got
    <3> DEFINE x == Head(r.d.buf).event
               b == Buffered(e.buf \o w)
    <3>1. t.d = e /\ t.events = Append(r.events, x)
      BY <1>4, <1>6, <2>5
    <3>2. x \in Content
      BY <1>1, <1>6, <2>5, HeadOfBuffer
    <3>3. b \in Seq(Events)
      <4>1. e.buf \o w \in Seq(Cell)
        BY <2>2, Joined
      <4> QED BY <4>1, BufferedJoin
    <3>4. r.events \o (<<x>> \o b) = Append(r.events, x) \o b
      <4>1. r.events \in Seq(Events) /\ x \in Events
        <5>1. Content \subseteq Events
          BY DEF Events
        <5> QED BY <1>1, <3>2, <5>1
      <4> DEFINE v == r.events
      <4> HIDE DEF v, x, b
      <4>2. v \in Seq(Events)
        BY <4>1 DEF v
      <4>3. v \o (<<x>> \o b) = Append(v, x) \o b
        BY <3>3, <4>1, <4>2, AppendFirst
      <4> QED BY <4>3 DEF v
    <3>5. Buffered(r.d.buf \o w) = <<x>> \o b
      BY <1>6, <2>1, <2>5
    <3>6. t.events \o Buffered(t.d.buf \o w) = all
      BY <1>1, <3>1, <3>4, <3>5
    <3> QED BY <1>2, <2>1, <2>3, <3>1, <3>6 DEF Carrying, t
  <2> QED BY <2>4, <2>5
<1> QED BY <1>5, <1>6

LEMMA DecodeAllCarries ==
    ASSUME NEW d \in Decoder, NEW w \in Seq(Cell), Aligned(d.buf \o w)
    PROVE  DecodeAll(d) \in Carrying(w, Buffered(d.buf \o w), Len(d.buf))
<1> DEFINE m == Len(d.buf) \div FrameLen + 1
           x == [d |-> d, events |-> <<>>, on |-> TRUE]
           all == Buffered(d.buf \o w)
           A == Carrying(w, all, Len(d.buf))
<1>1. m \in Nat /\ Len(d.buf) \in Nat
  <2>1. Len(d.buf) \in Nat /\ FrameLen \in Nat \ {0}
    BY DecoderIs, BoundsNat
  <2> QED BY <2>1, Quotient
<1>2. x \in Run /\ x.d = d /\ x.events = <<>>
  BY DEF Run
<1>3. DecodeAll(d) = FoldLeft(Turn, x, [i \in 1 .. m |-> i])
  BY DEF DecodeAll
<1> HIDE DEF m, x
<1>4. <<>> \o all = all
  <2>1. d.buf \o w \in Seq(Cell)
    BY DecoderIs, Joined
  <2>2. all \in Seq(Events)
    BY <2>1, BufferedJoin
  <2> HIDE DEF all
  <2> QED BY <2>2, ConcatEmptySeq
<1>5. x \in A
  <2>1. Len(d.buf) <= Len(d.buf)
    BY <1>1
  <2> QED BY <1>2, <1>4, <2>1 DEF Carrying
<1>6. A \in SUBSET Run
  BY DEF Carrying
<1> HIDE DEF all
<1>7. \A y \in A : \A i \in 1 .. m : Turn(y, i) \in A
  BY <1>1, TurnCarries
<1> HIDE DEF A
<1>8. FoldLeft(Turn, x, [i \in 1 .. m |-> i]) \in A
  BY <1>1, <1>5, <1>6, <1>7, TurnsStay
<1> QED BY <1>3, <1>8 DEF A, all

-----------------------------------------------------------------------------
(* A wire on which only bodies are damaged: frames follow each other.      *)

LEMMA Times ==
    ASSUME NEW a \in Nat, NEW b \in Nat
    PROVE  a * b \in Nat /\ (a + 1) * b = a * b + b
OBVIOUS

LEMMA TimesMore ==
    ASSUME NEW a \in Nat, NEW b \in Nat, NEW c \in Nat, a <= b
    PROVE  a * c <= b * c
<1>1. b - a \in Nat /\ (b - a) * c \in Nat /\ b * c = a * c + (b - a) * c
  OBVIOUS
<1>2. a * c \in Nat /\ b * c \in Nat
  BY Times
<1> QED BY <1>1, <1>2

HeadAt(cells, i) ==
    cells[i].len = FrameLen /\ cells[i].crc /\ cells[i].body \in {"intact", "data"}

\* k frames, one after the other.
Whole(cells, k) ==
    /\ Len(cells) = k * FrameLen
    /\ \A j \in 0 .. k - 1 : HeadAt(cells, j * FrameLen + 1)

LEMMA WholeFirst ==
    ASSUME NEW s \in Seq(Cell), NEW k \in Nat, Whole(s, k), s # <<>>
    PROVE  /\ k \in Nat \ {0} /\ k - 1 \in Nat /\ HeadAt(s, 1) /\ FrameLen <= Len(s)
           /\ Whole(Beyond(s, FrameLen), k - 1)
<1> DEFINE b == Beyond(s, FrameLen)
<1>1. FrameLen \in Nat \ {0} /\ Len(s) \in Nat \ {0} /\ Len(s) = k * FrameLen
  BY BoundsNat DEF Whole
<1>2. k # 0 /\ k - 1 \in Nat
  <2>1. 0 * FrameLen = 0
    BY <1>1
  <2> QED BY <1>1, <2>1
<1>3. HeadAt(s, 1)
  <2>1. 0 \in 0 .. k - 1 /\ 0 * FrameLen + 1 = 1
    BY <1>1, <1>2
  <2>2. HeadAt(s, 0 * FrameLen + 1)
    BY <2>1 DEF Whole
  <2> QED BY <2>1, <2>2
<1>4. k * FrameLen = (k - 1) * FrameLen + FrameLen /\ (k - 1) * FrameLen \in Nat
  <2>1. (k - 1) + 1 = k
    OBVIOUS
  <2> QED BY <1>1, <1>2, <2>1, Times
<1>5. FrameLen \in 0 .. Len(s)
  BY <1>1, <1>4
<1>6. /\ Len(b) = Len(s) - FrameLen
      /\ \A i \in 1 .. Len(s) - FrameLen : b[i] = s[FrameLen + i]
  BY <1>5, BeyondIs
<1> HIDE DEF b
<1>7. ASSUME NEW j \in 0 .. (k - 1) - 1 PROVE HeadAt(b, j * FrameLen + 1)
  <2>1. j \in Nat /\ j + 1 \in 0 .. k - 1 /\ j + 1 <= k - 1
    BY <1>2
  <2>2. (j + 1) * FrameLen = j * FrameLen + FrameLen /\ j * FrameLen \in Nat
    BY <1>1, <2>1, Times
  <2>3. (j + 1) * FrameLen <= (k - 1) * FrameLen
    BY <1>1, <1>2, <2>1, TimesMore
  <2> DEFINE p == j * FrameLen
             q == (j + 1) * FrameLen
             l == (k - 1) * FrameLen
  <2>4. p \in Nat /\ q = p + FrameLen /\ q <= l /\ l = Len(s) - FrameLen /\ l \in Nat
    BY <1>1, <1>4, <2>2, <2>3
  <2>5. HeadAt(s, q + 1)
    BY <2>1 DEF Whole
  <2> HIDE DEF p, q, l
  <2>6. p + 1 \in 1 .. Len(s) - FrameLen /\ FrameLen + (p + 1) = q + 1
    BY <1>1, <2>4
  <2>7. b[p + 1] = s[q + 1]
    BY <1>6, <2>6
  <2>8. HeadAt(b, p + 1)
    BY <2>5, <2>7 DEF HeadAt
  <2> QED BY <2>8 DEF p
<1>8. Len(b) = (k - 1) * FrameLen
  <2> DEFINE l == (k - 1) * FrameLen
             q == k * FrameLen
  <2>1. q = l + FrameLen /\ l \in Nat /\ Len(s) = q
    BY <1>1, <1>4
  <2> HIDE DEF l, q
  <2>2. Len(b) = l
    BY <1>1, <1>6, <2>1
  <2> QED BY <2>2 DEF l
<1> QED BY <1>1, <1>2, <1>3, <1>5, <1>7, <1>8 DEF Whole, b

LEMMA WholeJoin ==
    ASSUME NEW s \in Seq(Cell), NEW t \in Seq(Cell), NEW k \in Nat, Whole(s, k),
           Len(t) = FrameLen, HeadAt(t, 1)
    PROVE  Whole(s \o t, k + 1)
<1> DEFINE u == s \o t
<1>1. /\ u \in Seq(Cell) /\ Len(s) \in Nat /\ Len(t) \in Nat /\ Len(u) = Len(s) + Len(t)
      /\ \A i \in 1 .. Len(s) : u[i] = s[i]
      /\ \A i \in 1 .. Len(t) : u[Len(s) + i] = t[i]
      /\ FrameLen \in Nat \ {0} /\ Len(s) = k * FrameLen
  BY Joined, BoundsNat DEF Whole
<1> HIDE DEF u
<1>2. (k + 1) * FrameLen = k * FrameLen + FrameLen /\ k * FrameLen \in Nat
  BY <1>1, Times
<1>3. Len(u) = (k + 1) * FrameLen
  BY <1>1, <1>2
<1>4. ASSUME NEW j \in 0 .. (k + 1) - 1 PROVE HeadAt(u, j * FrameLen + 1)
  <2>1. CASE j = k
    <3>1. 1 \in 1 .. Len(t) /\ j * FrameLen + 1 = Len(s) + 1
      BY <1>1, <2>1
    <3>2. u[Len(s) + 1] = t[1]
      BY <1>1, <3>1
    <3> QED BY <3>1, <3>2 DEF HeadAt
  <2>2. CASE j # k
    <3>1. j \in Nat /\ j \in 0 .. k - 1 /\ j + 1 <= k
      BY <2>2
    <3>2. (j + 1) * FrameLen = j * FrameLen + FrameLen /\ j * FrameLen \in Nat
          /\ (j + 1) * FrameLen <= k * FrameLen
      BY <1>1, <3>1, Times, TimesMore
    <3> DEFINE p == j * FrameLen
               q == (j + 1) * FrameLen
    <3>3. p \in Nat /\ q = p + FrameLen /\ q <= Len(s)
      BY <1>1, <3>2
    <3>4. HeadAt(s, p + 1)
      BY <3>1 DEF Whole
    <3> HIDE DEF p, q
    <3>5. p + 1 \in 1 .. Len(s)
      BY <1>1, <3>3
    <3>6. HeadAt(u, p + 1)
      BY <1>1, <3>4, <3>5 DEF HeadAt
    <3> QED BY <3>6 DEF p
  <2> QED BY <2>1, <2>2
<1> QED BY <1>3, <1>4 DEF Whole, u

\* The frames that are damaged in their bodies.
Harms(cells) == Len(OfKind(cells, "data"))

LEMMA HarmsJoin ==
    ASSUME NEW s \in Seq(Cell), NEW t \in Seq(Cell)
    PROVE  /\ Harms(s \o t) = Harms(s) + Harms(t)
           /\ Harms(s) \in Nat /\ Harms(t) \in Nat
<1> DEFINE a == OfKind(s, "data")
           b == OfKind(t, "data")
<1>1. OfKind(s \o t, "data") = a \o b /\ a \in Seq(Events) /\ b \in Seq(Events)
  BY OfKindJoin
<1> HIDE DEF a, b
<1>2. Len(a \o b) = Len(a) + Len(b) /\ Len(a) \in Nat /\ Len(b) \in Nat
  BY <1>1, Joined
<1> QED BY <1>1, <1>2 DEF a, b, Harms

LEMMA HarmsOfNothing == Harms(<<>>) = 0
<1>1. <<>> \in Seq(Cell) /\ \A i \in 1 .. Len(<<>>) : <<>>[i].body # "data"
  OBVIOUS
<1>2. OfKind(<<>>, "data") = <<>>
  BY <1>1, OfKindNone
<1> QED BY <1>2 DEF Harms

LEMMA HarmsFirst ==
    ASSUME NEW s \in Seq(Cell), Len(s) >= 1
    PROVE  Harms(s) = (IF s[1].body = "data" THEN 1 ELSE 0) + Harms(Beyond(s, 1))
<1> DEFINE r == Beyond(s, 1)
           a == IF s[1].body = "data" THEN <<s[1].event>> ELSE <<>>
           b == OfKind(r, "data")
<1>1. OfKind(s, "data") = a \o b
  BY OfKindFirst
<1>2. r \in Seq(Cell) /\ s[1] \in Carrier
  <2>1. Len(s) \in Nat /\ 1 \in 0 .. Len(s) /\ 1 \in 1 .. Len(s)
    OBVIOUS
  <2>2. s \in Seq(Carrier)
    BY CellCarrier
  <2> QED BY <2>1, <2>2, BeyondIs
<1>3. b \in Seq(Events)
  BY <1>2, OfKindJoin
<1>4. a \in Seq(Events) /\ Len(a) = IF s[1].body = "data" THEN 1 ELSE 0
  BY <1>2, CarrierEvent
<1> HIDE DEF a, b
<1>5. Len(a \o b) = Len(a) + Len(b)
  BY <1>3, <1>4, Joined
<1> QED BY <1>1, <1>4, <1>5 DEF b, Harms

\* What a dropped frame leaves.
LEMMA HarmsBeyond ==
    ASSUME NEW s \in Seq(Cell), NEW n \in 1 .. Len(s)
    PROVE  /\ Harms(s) \in Nat /\ Harms(Beyond(s, n)) \in Nat
           /\ (IF s[1].body = "data" THEN 1 ELSE 0) + Harms(Beyond(s, n)) <= Harms(s)
<1> DEFINE a == SubSeq(s, 1, n)
           b == Beyond(s, n)
<1>1. n \in 0 .. Len(s) /\ n \in Nat /\ 1 \in 1 .. n /\ n >= 1
  OBVIOUS
<1>2. a \in Seq(Cell) /\ Len(a) = n /\ a[1] = s[1] /\ b \in Seq(Cell) /\ s = a \o b
  BY <1>1, BeyondIs
<1> HIDE DEF a, b
<1>3. Harms(s) = Harms(a) + Harms(b) /\ Harms(a) \in Nat /\ Harms(b) \in Nat
  BY <1>2, HarmsJoin
<1>4. Harms(a) = (IF s[1].body = "data" THEN 1 ELSE 0) + Harms(Beyond(a, 1))
  BY <1>1, <1>2, HarmsFirst
<1>5. Harms(Beyond(a, 1)) \in Nat
  <2>1. 1 \in 0 .. Len(a)
    BY <1>1, <1>2
  <2>2. Beyond(a, 1) \in Seq(Cell)
    BY <1>2, <2>1, BeyondIs
  <2> QED BY <2>2, HarmsJoin
<1> QED BY <1>3, <1>4, <1>5 DEF b

\* Whole frames, and no more harm done or to come than D.
Fits(s, errors, D) == (\E k \in Nat : Whole(s, k)) /\ errors + Harms(s) <= D

\* Runs that have not stopped, and that ended where no complete frame is left.
Tidy(w, D) ==
    {r \in Run : /\ Fits(r.d.buf \o w, r.d.errors, D)
                 /\ r.d.state # "Stopped" /\ (r.on => r.d.state = "Ready")
                 /\ ~r.on /\ r.d.state = "Ready" => Len(r.d.buf) < FrameLen}

\* A decoding takes a whole frame, or waits for one.
LEMMA DecodeFits ==
    ASSUME NEW d \in Decoder, d.state = "Ready", d.buf # <<>>, NEW w \in Seq(Cell),
           NEW D \in Nat, D < MaxErrors, Fits(d.buf \o w, d.errors, D)
    PROVE  LET e == Decode(d)
           IN  /\ Fits(e.buf \o w, e.errors, D) /\ e.state # "Stopped"
               /\ Parse(d.buf) = "frame" => e.state = "Ready" /\ Len(e.buf) + FrameLen = Len(d.buf)
               /\ Parse(d.buf) # "frame" /\ e.state = "Ready" => Len(e.buf) < FrameLen
<1> DEFINE e == Decode(d)
           s == d.buf \o w
<1>1. /\ d.buf \in Seq(Cell) /\ Len(d.buf) \in Nat \ {0} /\ d.errors \in Nat
      /\ FrameLen \in Nat \ {0} /\ MaxErrors \in Nat
  BY DecoderIs, ParseIs, BoundsNat
<1>2. PICK n \in Nat : Outcome(d, e, n)
  BY DecodeIs
<1>3. n \in 0 .. Len(d.buf) /\ e.buf = Beyond(d.buf, n)
  BY <1>2 DEF Outcome
<1>4. s \in Seq(Cell) /\ s # <<>> /\ s[1] = d.buf[1] /\ Len(s) \in Nat /\ Len(d.buf) <= Len(s)
  <2>1. s \in Seq(Cell) /\ Len(s) = Len(d.buf) + Len(w) /\ Len(w) \in Nat
        /\ \A i \in 1 .. Len(d.buf) : s[i] = d.buf[i]
    BY <1>1, Joined
  <2> HIDE DEF s
  <2>2. 1 \in 1 .. Len(d.buf) /\ Len(s) # 0
    BY <1>1, <2>1
  <2> QED BY <1>1, <2>1, <2>2
<1>5. e.buf \o w = Beyond(s, n)
  BY <1>1, <1>3, BeyondJoin
<1>6. Len(e.buf) = Len(d.buf) - n
  BY <1>1, <1>3, BeyondIs
<1> HIDE DEF s, e
<1>7. PICK k \in Nat : Whole(s, k)
  BY DEF Fits, s
<1>8. /\ k - 1 \in Nat /\ HeadAt(s, 1) /\ FrameLen <= Len(s) /\ Whole(Beyond(s, FrameLen), k - 1)
  BY <1>4, <1>7, WholeFirst
<1>9. /\ d.buf[1].len = FrameLen /\ d.buf[1].crc /\ d.buf[1].body \in {"intact", "data"}
  BY <1>4, <1>8 DEF HeadAt
<1>10. d.errors + Harms(s) <= D /\ Harms(s) \in Nat
  <2>1. Harms(s) \in Nat
    BY <1>4, HarmsJoin
  <2> QED BY <2>1 DEF Fits, s
<1>11. FrameLen \in 1 .. Len(s)
  BY <1>1, <1>4, <1>8
<1>12. /\ Harms(Beyond(s, FrameLen)) \in Nat
       /\ (IF s[1].body = "data" THEN 1 ELSE 0) + Harms(Beyond(s, FrameLen)) <= Harms(s)
  BY <1>4, <1>11, HarmsBeyond
<1>13. CASE Len(d.buf) < FrameLen
  <2>1. Parse(d.buf) = "more"
    BY <1>1, <1>9, <1>13, ParseIs
  <2>2. n = 0 /\ e.state = "Ready" /\ e.errors = d.errors
    BY <1>2, <2>1 DEF Outcome
  <2>3. e.buf \o w = s
    BY <1>4, <1>5, <2>2, AllBeyond
  <2> QED BY <1>1, <1>6, <1>7, <1>10, <1>13, <2>1, <2>2, <2>3 DEF Fits, e
<1>14. CASE ~(Len(d.buf) < FrameLen) /\ d.buf[1].body = "intact"
  <2>1. Parse(d.buf) = "frame"
    BY <1>1, <1>9, <1>14, ParseIs
  <2>2. n = FrameLen /\ e.state = "Ready" /\ e.errors = 0
    BY <1>2, <1>9, <2>1 DEF Outcome
  <2>3. 0 + Harms(Beyond(s, FrameLen)) <= D
    BY <1>1, <1>4, <1>10, <1>12, <1>14
  <2>4. Len(e.buf) + FrameLen = Len(d.buf)
    BY <1>1, <1>3, <1>6, <2>2
  <2> QED BY <1>5, <1>8, <2>1, <2>2, <2>3, <2>4 DEF Fits, e
<1>15. CASE ~(Len(d.buf) < FrameLen) /\ d.buf[1].body = "data"
  <2>1. Parse(d.buf) = "data"
    BY <1>1, <1>9, <1>15, ParseIs
  <2>2. s[1].body = "data" /\ d.errors + 1 < MaxErrors
        /\ (d.errors + 1) + Harms(Beyond(s, FrameLen)) <= D
    BY <1>1, <1>4, <1>10, <1>12, <1>15
  <2>3. ~(d.errors + 1 >= MaxErrors)
    BY <1>1, <2>2
  <2>4. n = FrameLen /\ e.state = "Recovering" /\ e.errors = d.errors + 1
    BY <1>2, <1>9, <2>1, <2>3 DEF Outcome
  <2> QED BY <1>5, <1>8, <2>1, <2>2, <2>4 DEF Fits, e
<1> QED BY <1>9, <1>13, <1>14, <1>15

LEMMA TurnTidy ==
    ASSUME NEW w \in Seq(Cell), NEW D \in Nat, D < MaxErrors, NEW r \in Tidy(w, D), NEW i
    PROVE  /\ Turn(r, i) \in Tidy(w, D)
           /\ Turn(r, i).on => r.on /\ Len(Turn(r, i).d.buf) + FrameLen = Len(r.d.buf)
<1> DEFINE ready == r.on /\ r.d.state = "Ready" /\ r.d.buf # <<>>
           got == ready /\ Parse(r.d.buf) = "frame"
           t == Turn(r, i)
           e == Decode(r.d)
<1>1. /\ r \in Run /\ r.d \in Decoder /\ r.on \in BOOLEAN
      /\ Fits(r.d.buf \o w, r.d.errors, D)
      /\ r.d.state # "Stopped" /\ (r.on => r.d.state = "Ready")
      /\ ~r.on /\ r.d.state = "Ready" => Len(r.d.buf) < FrameLen
  BY DEF Tidy, Run
<1>2. t \in Run
  BY <1>1, TurnKeeps
<1>3. t = [d |-> IF ready THEN e ELSE r.d,
           events |-> IF got THEN Append(r.events, Head(r.d.buf).event) ELSE r.events,
           on |-> got]
  BY DEF Turn
<1>4. t.d = (IF ready THEN e ELSE r.d) /\ t.on = got
  BY <1>3
<1> HIDE DEF t
<1>5. CASE ~ready
  <2>1. t.d = r.d /\ t.on = FALSE
    BY <1>4, <1>5
  <2>2. r.d.state = "Ready" => Len(r.d.buf) < FrameLen
    <3>1. r.d.buf = <<>> => Len(r.d.buf) = 0
      OBVIOUS
    <3> QED BY <1>1, <1>5, <3>1, BoundsNat
  <2> QED BY <1>1, <1>2, <2>1, <2>2 DEF Tidy, t
<1>6. CASE ready
  <2>1. /\ Fits(e.buf \o w, e.errors, D) /\ e.state # "Stopped"
        /\ Parse(r.d.buf) = "frame" => e.state = "Ready" /\ Len(e.buf) + FrameLen = Len(r.d.buf)
        /\ Parse(r.d.buf) # "frame" /\ e.state = "Ready" => Len(e.buf) < FrameLen
    BY <1>1, <1>6, DecodeFits
  <2>2. t.d = e /\ (t.on <=> Parse(r.d.buf) = "frame") /\ r.on
    BY <1>4, <1>6
  <2> HIDE DEF e
  <2> QED BY <1>2, <2>1, <2>2 DEF Tidy, t
<1> QED BY <1>5, <1>6

\* There are more turns than frames.
LEMMA MoreTurns ==
    ASSUME NEW a \in Nat, NEW b \in Nat \ {0}
    PROVE  a \div b + 1 \in Nat /\ a < (a \div b + 1) * b
<1>1. a \div b \in Nat
  OBVIOUS
<1>2. a < b * (a \div b) + b
  OBVIOUS
<1> DEFINE q == a \div b
<1> HIDE DEF q
<1>3. (q + 1) * b = b * q + b /\ q + 1 \in Nat
  <2>1. q \in Nat
    BY <1>1 DEF q
  <2> QED BY <2>1
<1>4. a < b * q + b
  BY <1>2 DEF q
<1>5. q + 1 \in Nat /\ a < (q + 1) * b
  BY <1>3, <1>4
<1> QED BY <1>5 DEF q

LEMMA DecodeAllTidy ==
    ASSUME NEW d \in Decoder, d.state = "Ready", NEW w \in Seq(Cell),
           NEW D \in Nat, D < MaxErrors, Fits(d.buf \o w, d.errors, D)
    PROVE  LET e == DecodeAll(d).d
           IN  /\ Fits(e.buf \o w, e.errors, D) /\ e.state # "Stopped"
               /\ e.state = "Ready" => Len(e.buf) < FrameLen
<1> DEFINE m == Len(d.buf) \div FrameLen + 1
           l == Len(d.buf)
           x == [d |-> d, events |-> <<>>, on |-> TRUE]
           A == Tidy(w, D)
<1>1. m \in Nat /\ l \in Nat /\ l < m * FrameLen /\ FrameLen \in Nat \ {0}
  <2>1. Len(d.buf) \in Nat /\ FrameLen \in Nat \ {0}
    BY DecoderIs, BoundsNat
  <2> QED BY <2>1, MoreTurns
<1>2. x \in Run /\ x.d = d /\ x.on = TRUE
  BY DEF Run
<1>3. DecodeAll(d) = FoldLeft(Turn, x, [i \in 1 .. m |-> i])
  BY DEF DecodeAll
<1> HIDE DEF m, x
<1>4. x \in A
  BY <1>2 DEF Tidy
<1>5. PICK h \in [0 .. m -> Run] : TurnChain(h, x, m)
  BY <1>1, <1>2, TurnsSteps
<1>6. /\ h[0] = x /\ DecodeAll(d) = h[m]
      /\ \A k \in 1 .. m : h[k] = Turn(h[k - 1], k)
  BY <1>3, <1>5 DEF TurnChain
<1>7. \A r \in A : \A i : /\ Turn(r, i) \in A
                          /\ Turn(r, i).on => r.on /\ Len(Turn(r, i).d.buf) + FrameLen = Len(r.d.buf)
  BY TurnTidy
<1>8. \A r \in A : Len(r.d.buf) \in Nat
  <2>1. \A r \in A : r.d \in Decoder
    BY DEF Tidy, Run
  <2> QED BY <2>1, DecoderIs
<1> HIDE DEF A, l
<1> DEFINE Along(k) == h[k] \in A /\ (h[k].on => Len(h[k].d.buf) + k * FrameLen = l)
           T == {k \in Nat : k <= m => Along(k)}
<1> HIDE DEF Along
<1>9. 0 \in T
  <2>1. 0 * FrameLen = 0 /\ Len(x.d.buf) = l
    BY <1>1, <1>2 DEF l
  <2>2. Along(0)
    BY <1>1, <1>4, <1>6, <1>8, <2>1 DEF Along
  <2> QED BY <2>2
<1>10. ASSUME NEW k \in T PROVE k + 1 \in T
  <2> SUFFICES ASSUME k + 1 <= m
               PROVE  Along(k + 1)
    OBVIOUS
  <2>0. k \in Nat /\ k <= m /\ Along(k)
    BY <1>1
  <2> HIDE DEF T
  <2>1. k + 1 \in 1 .. m /\ (k + 1) - 1 = k /\ h[k] \in A /\ k \in Nat
        /\ (h[k].on => Len(h[k].d.buf) + k * FrameLen = l)
    <3>1. k + 1 \in 1 .. m /\ (k + 1) - 1 = k
      BY <1>1, <2>0
    <3>2. h[k] \in A /\ (h[k].on => Len(h[k].d.buf) + k * FrameLen = l)
      BY <2>0 DEF Along
    <3> QED BY <2>0, <3>1, <3>2
  <2>2. h[k + 1] = Turn(h[k], k + 1)
    BY <1>6, <2>1
  <2>3. /\ h[k + 1] \in A
        /\ h[k + 1].on => h[k].on /\ Len(h[k + 1].d.buf) + FrameLen = Len(h[k].d.buf)
    BY <1>7, <2>1, <2>2
  <2>4. (k + 1) * FrameLen = k * FrameLen + FrameLen /\ k * FrameLen \in Nat
    BY <1>1, <2>1, Times
  <2> DEFINE p == k * FrameLen
             q == (k + 1) * FrameLen
             a == Len(h[k].d.buf)
             b == Len(h[k + 1].d.buf)
  <2>5. a \in Nat /\ b \in Nat
    BY <1>8, <2>1, <2>3
  <2>6. p \in Nat /\ q = p + FrameLen /\ (h[k].on => a + p = l)
        /\ (h[k + 1].on => h[k].on /\ b + FrameLen = a)
    BY <2>1, <2>3, <2>4
  <2> HIDE DEF p, q, a, b
  <2>7. h[k + 1].on => b + q = l
    BY <1>1, <2>5, <2>6
  <2> QED BY <2>3, <2>7 DEF Along, b, q
<1>11. T \in SUBSET Nat
  OBVIOUS
<1>12. m \in T
  <2> HIDE DEF T
  <2> QED BY <1>1, <1>9, <1>10, <1>11, Induction
<1>13. h[m] \in A /\ (h[m].on => Len(h[m].d.buf) + m * FrameLen = l)
  <2>1. Along(m)
    BY <1>1, <1>12
  <2> QED BY <2>1 DEF Along
<1>14. ~h[m].on
  <2> DEFINE q == m * FrameLen
             a == Len(h[m].d.buf)
  <2>1. a \in Nat /\ l < q /\ q \in Nat /\ (h[m].on => a + q = l)
    BY <1>1, <1>8, <1>13, Times
  <2> HIDE DEF q, a
  <2> QED BY <1>1, <2>1
<1> QED BY <1>6, <1>13, <1>14 DEF A, Tidy

-----------------------------------------------------------------------------
(* The stream with its frames.                                             *)

\* What was sent and is not damaged, and how much is damaged in its body.
Sent == [event : Content, trouble : Damage \cup {"none", "split", "held"}]
IntactOf(s) == Collect(s, {i \in DOMAIN s : Intact(s[i].trouble)})
HarmedIn(s) == {i \in DOMAIN s : s[i].trouble = "data"}
Orderly(s) == \A i \in DOMAIN s : s[i].trouble \notin Damage \ {"data"}

LEMMA SentCarrier == ASSUME NEW s \in Seq(Sent) PROVE s \in Seq(Carrier)
<1>1. Sent \subseteq Carrier
  BY DEF Sent, Carrier
<1> HIDE DEF Carrier, Sent
<1> QED BY <1>1

LEMMA SentFew ==
    ASSUME NEW s \in Seq(Sent), NEW K \in SUBSET (DOMAIN s)
    PROVE  IsFiniteSet(K) /\ Cardinality(K) \in Nat
<1>1. DOMAIN s = 1 .. Len(s) /\ Len(s) \in Int /\ 1 \in Int
  OBVIOUS
<1>2. IsFiniteSet(DOMAIN s)
  BY <1>1, FS_Interval
<1>3. IsFiniteSet(K)
  BY <1>2, FS_Subset
<1> QED BY <1>3, FS_CardinalityType

\* One frame more.
LEMMA SentMore ==
    ASSUME NEW s \in Seq(Sent), NEW f \in Sent
    PROVE  LET t == Append(s, f)
           IN  /\ t \in Seq(Sent) /\ Len(t) = Len(s) + 1
               /\ IntactOf(t) = IntactOf(s) \o (IF Intact(f.trouble) THEN <<f.event>> ELSE <<>>)
               /\ IntactOf(s) \in Seq(Events)
               /\ Cardinality(HarmedIn(t))
                     = Cardinality(HarmedIn(s)) + (IF f.trouble = "data" THEN 1 ELSE 0)
               /\ Orderly(t) => Orderly(s) /\ f.trouble \notin Damage \ {"data"}
<1> DEFINE t == Append(s, f)
           o == <<f>>
           n == Len(s)
           K == {i \in DOMAIN s : Intact(s[i].trouble)}
           L == {i \in DOMAIN o : Intact(o[i].trouble)}
           M == {i \in DOMAIN t : Intact(t[i].trouble)}
<1>1. /\ t \in Seq(Sent) /\ n \in Nat /\ Len(t) = n + 1 /\ t = s \o o /\ t[n + 1] = f
      /\ \A i \in 1 .. n : t[i] = s[i]
      /\ DOMAIN s = 1 .. n /\ DOMAIN t = 1 .. n + 1
  OBVIOUS
<1>2. o \in Seq(Sent) /\ Len(o) = 1 /\ o[1] = f /\ DOMAIN o = 1 .. 1
  OBVIOUS
<1> HIDE DEF t, o
<1>3. Meets(M, K, L, n, 1)
  <2>1. \A i \in 1 .. n : i \in M <=> i \in K
    <3>1. \A i \in 1 .. n : i \in 1 .. n + 1
      BY <1>1
    <3> QED BY <1>1, <3>1
  <2>2. ASSUME NEW i \in 1 .. 1 PROVE n + i \in M <=> i \in L
    <3>1. i = 1 /\ n + 1 \in 1 .. n + 1
      BY <1>1
    <3>2. (n + 1 \in M <=> Intact(f.trouble)) /\ (1 \in L <=> Intact(f.trouble))
      BY <1>1, <1>2, <3>1
    <3> QED BY <3>1, <3>2
  <2> QED BY <2>1, <2>2 DEF Meets
<1>4. IntactOf(t) = Collect(t, M) /\ IntactOf(s) = Collect(s, K)
  BY DEF IntactOf
<1>5. s \in Seq(Carrier) /\ o \in Seq(Carrier)
  BY <1>2, SentCarrier
<1>6. IntactOf(s) \in Seq(Events)
  BY <1>4, <1>5, CollectTyped
<1>7. 1 \in L <=> Intact(f.trouble)
  BY <1>2
<1> HIDE DEF K, L, M
<1>8. Collect(s \o o, M) = Collect(s, K) \o Collect(o, L)
  <2>1. s \in Seq(Carrier)
    BY <1>5
  <2>2. o \in Seq(Carrier)
    BY <1>5
  <2>3. Meets(M, K, L, Len(s), Len(o))
    BY <1>2, <1>3
  <2> QED BY <2>1, <2>2, <2>3, CollectJoin
<1>9. Collect(o, L) = IF Intact(f.trouble) THEN <<f.event>> ELSE <<>>
  <2>1. PICK g \in [0 .. Len(o) -> Seq(Events)] : CollectChain(g, o, L)
    BY <1>5, CollectSteps
  <2>2. /\ g[0] = <<>> /\ Collect(o, L) = g[1]
        /\ g[1] = IF 1 \in L THEN Append(g[0], o[1].event) ELSE g[0]
    <3>1. 1 \in 1 .. 1 /\ 1 - 1 = 0
      OBVIOUS
    <3> QED BY <1>2, <2>1, <3>1 DEF CollectChain
  <2>3. Append(<<>>, f.event) = <<f.event>>
    OBVIOUS
  <2> QED BY <1>2, <1>7, <2>2, <2>3
<1>10. IntactOf(t) = IntactOf(s) \o (IF Intact(f.trouble) THEN <<f.event>> ELSE <<>>)
  BY <1>1, <1>4, <1>8, <1>9
<1>11. Cardinality(HarmedIn(t))
          = Cardinality(HarmedIn(s)) + (IF f.trouble = "data" THEN 1 ELSE 0)
  <2>1. HarmedIn(s) \in SUBSET (DOMAIN s)
    BY DEF HarmedIn
  <2>2. IsFiniteSet(HarmedIn(s)) /\ Cardinality(HarmedIn(s)) \in Nat
    BY <2>1, SentFew
  <2>3. n + 1 \notin HarmedIn(s)
    BY <1>1 DEF HarmedIn
  <2>4. HarmedIn(t) = IF f.trouble = "data" THEN HarmedIn(s) \cup {n + 1} ELSE HarmedIn(s)
    <3>1. \A i : i \in 1 .. n + 1 <=> i \in 1 .. n \/ i = n + 1
      BY <1>1
    <3>2. n + 1 \notin 1 .. n
      BY <1>1
    <3> QED BY <1>1, <3>1, <3>2 DEF HarmedIn
  <2>5. Cardinality(HarmedIn(s) \cup {n + 1}) = Cardinality(HarmedIn(s)) + 1
    BY <2>2, <2>3, FS_AddElement
  <2> QED BY <2>2, <2>4, <2>5
<1>12. Orderly(t) => Orderly(s) /\ f.trouble \notin Damage \ {"data"}
  <2> SUFFICES ASSUME Orderly(t) PROVE Orderly(s) /\ f.trouble \notin Damage \ {"data"}
    OBVIOUS
  <2>1. \A i \in 1 .. n + 1 : t[i].trouble \notin Damage \ {"data"}
    BY <1>1 DEF Orderly
  <2>2. n + 1 \in 1 .. n + 1 /\ \A i \in 1 .. n : i \in 1 .. n + 1
    BY <1>1
  <2> QED BY <1>1, <2>1, <2>2 DEF Orderly
<1> QED BY <1>1, <1>6, <1>10, <1>11, <1>12 DEF t

\* A frame that is not damaged, or in its body alone, begins as a frame does.
LEMMA CellsWhole ==
    ASSUME NEW event \in Content, NEW trouble \in {"none", "split", "held", "data"}
    PROVE  LET c == Cells(event, trouble)
           IN  HeadAt(c, 1) /\ Harms(c) = IF trouble = "data" THEN 1 ELSE 0
<1> DEFINE c == Cells(event, trouble)
           first == FirstOf(trouble, event)
<1>1. trouble \in Damage \cup {"none", "split", "held"}
  BY DEF Damage
<1>2. /\ c \in Seq(Cell) /\ Len(c) = FrameLen /\ c[1] = first
      /\ \A i \in 2 .. FrameLen : c[i] = Text
      /\ FrameLen \in Nat \ {0}
  BY <1>1, CellsRead, BoundsNat
<1>3. /\ first.len = FrameLen /\ first.crc /\ first.body \in {"intact", "data"}
      /\ first.body = "data" <=> trouble = "data"
  BY DEF FirstOf, Intact, Damage
<1> HIDE DEF first, c
<1>4. HeadAt(c, 1)
  BY <1>2, <1>3 DEF HeadAt
<1> DEFINE r == Beyond(c, 1)
<1>5. Len(c) >= 1 /\ 1 \in 0 .. Len(c)
  BY <1>2
<1>6. r \in Seq(Cell) /\ Len(r) = Len(c) - 1 /\ \A i \in 1 .. Len(c) - 1 : r[i] = c[1 + i]
  BY <1>2, <1>5, BeyondIs
<1>7. Harms(c) = (IF c[1].body = "data" THEN 1 ELSE 0) + Harms(r)
  BY <1>2, <1>5, HarmsFirst
<1> HIDE DEF r
<1>8. \A i \in 1 .. Len(r) : r[i].body # "data"
  <2>1. \A i \in 1 .. Len(r) : i \in 1 .. Len(c) - 1 /\ 1 + i \in 2 .. FrameLen
    BY <1>2, <1>6
  <2>2. Text.body # "data"
    BY DEF Text
  <2> QED BY <1>2, <1>6, <2>1, <2>2
<1>9. Harms(r) = 0
  <2>1. OfKind(r, "data") = <<>>
    BY <1>6, <1>8, OfKindNone
  <2> QED BY <2>1 DEF Harms
<1> QED BY <1>2, <1>3, <1>4, <1>7, <1>9 DEF c

\* What a chunk feeds and what stays on the wire are what was on the wire.
LEMMA Fed ==
    ASSUME NEW d \in Decoder, NEW cells \in Seq(Cell), NEW n \in 0 .. Len(cells),
           Len(d.buf) + Len(cells) <= MaxBuffer
    PROVE  LET f == Feed(d, SubSeq(cells, 1, n))
               w == Beyond(cells, n)
           IN  /\ f \in Decoder /\ w \in Seq(Cell) /\ f.buf \o w = d.buf \o cells
               /\ f.errors = d.errors /\ (d.state # "Stopped" => f.state = "Ready")
               /\ Len(f.buf) + Len(w) = Len(d.buf) + Len(cells)
<1> DEFINE a == SubSeq(cells, 1, n)
           w == Beyond(cells, n)
           f == Feed(d, a)
<1>1. /\ d.buf \in Seq(Cell) /\ Len(d.buf) \in Nat /\ Len(cells) \in Nat /\ MaxBuffer \in Nat
      /\ d.state \in {"Ready", "Recovering", "Stopped"}
  BY DecoderIs, BoundsNat
<1>2. /\ a \in Seq(Cell) /\ Len(a) = n /\ w \in Seq(Cell) /\ Len(w) = Len(cells) - n
      /\ cells = a \o w /\ n \in Nat /\ n <= Len(cells)
  BY BeyondIs
<1> HIDE DEF a, w
<1> DEFINE l == Len(d.buf)
           m == Len(cells)
<1> HIDE DEF l, m
<1>12. /\ l \in Nat /\ m \in Nat /\ n \in Nat /\ n <= m /\ MaxBuffer \in Nat
       /\ l + m <= MaxBuffer /\ Len(a) = n /\ Len(w) = m - n
  BY <1>1, <1>2 DEF l, m
<1>3. ~(Len(d.buf) + Len(a) > MaxBuffer)
  <2>1. ~(l + n > MaxBuffer)
    BY <1>12
  <2> QED BY <1>12, <2>1 DEF l
<1>4. f = [d EXCEPT !.buf = d.buf \o a, !.state = IF d.state = "Recovering" THEN "Ready" ELSE d.state]
  BY <1>3 DEF Feed
<1>5. f.buf = d.buf \o a /\ f.errors = d.errors /\ (d.state # "Stopped" => f.state = "Ready")
  BY <1>1, <1>4 DEF Decoder
<1>6. f \in Decoder
  BY <1>2, FeedKeeps
<1> HIDE DEF f
<1> DEFINE b == d.buf
<1>7. b \in Seq(Cell)
  BY <1>1
<1> HIDE DEF b
<1>8. (b \o a) \o w = b \o (a \o w)
  BY <1>2, <1>7, ConcatAssociative
<1>9. Len(b \o a) = Len(b) + n
  <2>1. Len(b \o a) = Len(b) + Len(a)
    BY <1>2, <1>7, Joined
  <2> QED BY <1>12, <2>1
<1>10. f.buf \o w = d.buf \o cells
  BY <1>2, <1>5, <1>8 DEF b
<1>11. Len(f.buf) + Len(w) = Len(d.buf) + Len(cells)
  <2>1. Len(f.buf) = Len(d.buf) + n
    BY <1>5, <1>9 DEF b
  <2>2. (l + n) + (m - n) = l + m
    BY <1>12
  <2> QED BY <1>12, <2>1, <2>2 DEF l, m
<1> QED BY <1>2, <1>5, <1>6, <1>10, <1>11 DEF a, w, f

\* A chunk, from the wire to the translation.
LEMMA ChunkCarries ==
    ASSUME decoder \in Decoder, seen \in Seq(Content),
           NEW cells \in Seq(Cell), NEW k \in Nat, k <= Len(cells), Chunk(cells, k),
           Len(decoder.buf) + Len(cells) <= MaxBuffer, Aligned(decoder.buf \o cells)
    PROVE  /\ decoder' \in Decoder /\ wire' \in Seq(Cell) /\ seen' \in Seq(Content)
           /\ Aligned(decoder'.buf \o wire')
           /\ seen' \o Buffered(decoder'.buf \o wire') = seen \o Buffered(decoder.buf \o cells)
           /\ Len(decoder'.buf) + Len(wire') <= Len(decoder.buf) + Len(cells)
           /\ \A D \in Nat :
                 /\ D < MaxErrors /\ Fits(decoder.buf \o cells, decoder.errors, D)
                 /\ decoder.state # "Stopped"
                 => /\ Fits(decoder'.buf \o wire', decoder'.errors, D)
                    /\ decoder'.state # "Stopped"
                    /\ decoder'.state = "Ready" => Len(decoder'.buf) < FrameLen
<1> DEFINE n == Len(cells) - k
           d == decoder
           f == Feed(decoder, SubSeq(cells, 1, n))
           w == Beyond(cells, n)
           run == DecodeAll(f)
<1>1. n \in 0 .. Len(cells)
  <2>1. Len(cells) \in Nat
    OBVIOUS
  <2> QED BY <2>1
<1>2. wire' = w /\ decoder' = run.d /\ seen' = seen \o run.events
  BY DEF Chunk, Beyond
<1> HIDE DEF n
<1>3. /\ f \in Decoder /\ w \in Seq(Cell) /\ f.buf \o w = decoder.buf \o cells
      /\ f.errors = decoder.errors /\ (decoder.state # "Stopped" => f.state = "Ready")
      /\ Len(f.buf) + Len(w) = Len(decoder.buf) + Len(cells)
  <2>1. d \in Decoder /\ Len(d.buf) + Len(cells) <= MaxBuffer
    OBVIOUS
  <2> HIDE DEF d
  <2>2. LET g == Feed(d, SubSeq(cells, 1, n))
            v == Beyond(cells, n)
        IN  /\ g \in Decoder /\ v \in Seq(Cell) /\ g.buf \o v = d.buf \o cells
            /\ g.errors = d.errors /\ (d.state # "Stopped" => g.state = "Ready")
            /\ Len(g.buf) + Len(v) = Len(d.buf) + Len(cells)
    BY <1>1, <2>1, Fed
  <2> QED BY <2>2 DEF d
<1> HIDE DEF f, w
<1>4. run \in Carrying(w, Buffered(f.buf \o w), Len(f.buf))
  BY <1>3, DecodeAllCarries
<1>5. \A D \in Nat :
         /\ D < MaxErrors /\ Fits(f.buf \o w, f.errors, D) /\ f.state = "Ready"
         => /\ Fits(run.d.buf \o w, run.d.errors, D) /\ run.d.state # "Stopped"
            /\ run.d.state = "Ready" => Len(run.d.buf) < FrameLen
  BY <1>3, DecodeAllTidy
<1> HIDE DEF run
<1>6. /\ run.d \in Decoder /\ run.events \in Seq(Content)
      /\ Aligned(run.d.buf \o w) /\ Len(run.d.buf) <= Len(f.buf)
      /\ run.events \o Buffered(run.d.buf \o w) = Buffered(f.buf \o w)
  BY <1>4 DEF Carrying, Run
<1>7. Len(f.buf) \in Nat /\ Len(run.d.buf) \in Nat /\ Len(w) \in Nat
  BY <1>3, <1>6, DecoderIs
<1>8. seen' \in Seq(Content)
  <2> DEFINE q == run.events
             p == seen
  <2>1. p \in Seq(Content) /\ q \in Seq(Content) /\ seen' = p \o q
    BY <1>2, <1>6
  <2> HIDE DEF p, q
  <2>2. p \o q \in Seq(Content)
    BY <2>1
  <2> QED BY <2>1, <2>2
<1>9. seen' \o Buffered(decoder'.buf \o wire') = seen \o Buffered(decoder.buf \o cells)
  <2> DEFINE p == seen
             q == run.events
             r == Buffered(run.d.buf \o w)
  <2>1. Content \subseteq Events
    BY DEF Events
  <2>2. p \in Seq(Events) /\ q \in Seq(Events)
    BY <1>6, <2>1
  <2>3. r \in Seq(Events)
    <3>1. run.d.buf \in Seq(Cell)
      BY <1>6, DecoderIs
    <3> DEFINE x == run.d.buf \o w
    <3>2. x \in Seq(Cell)
      BY <1>3, <3>1, Joined
    <3> HIDE DEF x
    <3>3. Buffered(x) \in Seq(Events)
      BY <3>2, BufferedJoin
    <3> QED BY <3>3 DEF x
  <2>4. seen' \o Buffered(decoder'.buf \o wire') = (p \o q) \o r
    BY <1>2
  <2>5. q \o r = Buffered(decoder.buf \o cells)
    BY <1>3, <1>6
  <2> HIDE DEF p, q, r
  <2>6. (p \o q) \o r = p \o (q \o r)
    BY <2>2, <2>3, ConcatAssociative
  <2> QED BY <2>4, <2>5, <2>6 DEF p
<1>10. Len(decoder'.buf) + Len(wire') <= Len(decoder.buf) + Len(cells)
  <2> DEFINE a == Len(run.d.buf)
             b == Len(w)
             c == Len(f.buf)
             s == Len(decoder.buf) + Len(cells)
  <2>1. a \in Nat /\ b \in Nat /\ c \in Nat /\ a <= c /\ c + b = s
    BY <1>3, <1>6, <1>7
  <2> HIDE DEF a, b, c, s
  <2>2. a + b <= s
    BY <2>1
  <2> QED BY <1>2, <2>2 DEF a, b, s
<1> QED BY <1>2, <1>3, <1>5, <1>6, <1>8, <1>9, <1>10

\* The decoder's buffer takes a whole answer.
Roomy == MaxWeight * FrameLen <= MaxBuffer

\* All intact frames are handed on, in the buffer or on the wire; there are no more
\* cells than were sent.
Kept ==
    /\ sent \in Seq(Sent) /\ seen \in Seq(Content)
    /\ Aligned(decoder.buf \o wire) /\ DecoderKeepsIntact
    /\ Len(decoder.buf) + Len(wire) <= Len(sent) * FrameLen
    /\ Len(sent) <= MaxWeight

\* If only bodies are damaged, and few enough of them, frame follows frame, and each
\* error is one of a frame that was sent.
Caught ==
    LET D == Cardinality(HarmedIn(sent))
    IN  Orderly(sent) /\ D < MaxErrors =>
           /\ Fits(decoder.buf \o wire, decoder.errors, D)
           /\ decoder.state # "Stopped"
           /\ decoder.state = "Ready" => Len(decoder.buf) < FrameLen

FramesInv == StreamInv /\ Kept /\ Caught

LEMMA NoFrames ==
    /\ Aligned(<<>> \o <<>>) /\ \A D \in Nat : Fits(<<>> \o <<>>, 0, D)
    /\ <<>> \o Buffered(<<>> \o <<>>) = IntactOf(<<>>)
    /\ <<>> \in Seq(Sent) /\ <<>> \in Seq(Content)
    /\ Cardinality(HarmedIn(<<>>)) = 0
<1>1. <<>> \o <<>> = <<>> /\ <<>> \in Seq(Cell) /\ <<>> \in Seq(Sent) /\ <<>> \in Seq(Content)
      /\ Len(<<>>) = 0 /\ DOMAIN <<>> = {}
  OBVIOUS
<1>2. Aligned(<<>>)
  BY <1>1 DEF Aligned
<1>3. ASSUME NEW D \in Nat PROVE Fits(<<>>, 0, D)
  <2>1. Whole(<<>>, 0)
    <3>1. 0 * FrameLen = 0 /\ 0 .. 0 - 1 = {}
      BY BoundsNat
    <3> QED BY <1>1, <3>1 DEF Whole
  <2>2. 0 + Harms(<<>>) <= D /\ 0 \in Nat
    BY HarmsOfNothing
  <2> QED BY <2>1, <2>2 DEF Fits
<1>4. Buffered(<<>>) = <<>>
  <2>1. \A i \in 1 .. Len(<<>>) : <<>>[i].body # "intact"
    BY <1>1
  <2> QED BY <1>1, <2>1, BufferedNone
<1>5. IntactOf(<<>>) = <<>>
  <2>1. \A k \in 1 .. Len(<<>>) : k \notin {i \in DOMAIN <<>> : Intact(<<>>[i].trouble)}
    BY <1>1
  <2> DEFINE K == {i \in DOMAIN <<>> : Intact(<<>>[i].trouble)}
  <2> HIDE DEF K
  <2>2. \A k \in 1 .. Len(<<>>) : k \notin K
    BY <1>1
  <2>3. Collect(<<>>, K) = <<>>
    BY <1>1, <2>2, SentCarrier, CollectNone
  <2> QED BY <2>3 DEF IntactOf, K
<1>6. Cardinality(HarmedIn(<<>>)) = 0
  <2>1. HarmedIn(<<>>) = {}
    BY <1>1 DEF HarmedIn
  <2> QED BY <2>1, FS_EmptySet
<1> QED BY <1>1, <1>2, <1>3, <1>4, <1>5, <1>6

LEMMA FramesStart == StreamInit => FramesInv
<1> SUFFICES ASSUME StreamInit PROVE FramesInv
  OBVIOUS
<1>1. StreamInv
  BY StreamStart
<1>2. /\ decoder.buf = <<>> /\ decoder.state = "Ready" /\ decoder.errors = 0
      /\ wire = <<>> /\ sent = <<>> /\ seen = <<>>
  BY DEF StreamInit, NewDecoder
<1>3. Len(<<>>) = 0 /\ 0 + 0 <= 0 * FrameLen /\ 0 <= MaxWeight /\ 0 < FrameLen /\ 0 \in Nat
  BY BoundsNat, ContentAssumption
<1>4. Kept
  <2>1. DecoderKeepsIntact
    BY <1>2, NoFrames DEF DecoderKeepsIntact, IntactOf
  <2> QED BY <1>2, <1>3, <2>1, NoFrames DEF Kept
<1>5. Caught
  BY <1>2, <1>3, NoFrames DEF Caught
<1> QED BY <1>1, <1>4, <1>5 DEF FramesInv

\* The client's leaving leaves nothing behind.
LEMMA LeavingKeeps == Disconnect => Kept' /\ Caught'
<1> SUFFICES ASSUME Disconnect PROVE Kept' /\ Caught'
  OBVIOUS
<1>1. /\ decoder'.buf = <<>> /\ decoder'.state = "Ready" /\ decoder'.errors = 0
      /\ wire' = <<>> /\ sent' = <<>> /\ seen' = <<>>
  BY DEF Disconnect, NewDecoder
<1>2. Len(<<>>) = 0 /\ 0 + 0 <= 0 * FrameLen /\ 0 <= MaxWeight /\ 0 < FrameLen /\ 0 \in Nat
  BY BoundsNat, ContentAssumption
<1>3. Kept'
  <2>1. DecoderKeepsIntact'
    BY <1>1, NoFrames DEF DecoderKeepsIntact, IntactOf
  <2> QED BY <1>1, <1>2, <2>1, NoFrames DEF Kept
<1>4. Caught'
  BY <1>1, <1>2, NoFrames DEF Caught
<1> QED BY <1>3, <1>4

\* There is room for one frame more.
LEMMA RoomForOne ==
    ASSUME NEW l \in Nat, NEW n \in Nat, l <= n * FrameLen, n + 1 <= MaxWeight, Roomy
    PROVE  l + FrameLen <= (n + 1) * FrameLen /\ l + FrameLen <= MaxBuffer
<1>1. FrameLen \in Nat /\ MaxBuffer \in Nat /\ MaxWeight \in Nat /\ n + 1 \in Nat
  BY BoundsNat, ContentAssumption
<1> DEFINE p == n * FrameLen
           q == (n + 1) * FrameLen
           r == MaxWeight * FrameLen
<1>2. p \in Nat /\ q = p + FrameLen
  BY <1>1, Times
<1>3. q <= r /\ r <= MaxBuffer /\ r \in Nat
  BY <1>1, TimesMore, Times DEF Roomy
<1>4. l <= p
  OBVIOUS
<1> HIDE DEF p, q, r
<1>5. l + FrameLen <= q /\ l + FrameLen <= MaxBuffer
  BY <1>1, <1>2, <1>3, <1>4
<1> QED BY <1>5 DEF q

LEMMA RestKept ==
    ASSUME StreamInv, Kept, Caught, Rest, Roomy
    PROVE  Kept' /\ Caught'
<1> DEFINE D == Cardinality(HarmedIn(sent))
<1>1. Chunk(wire, 0) /\ sent' = sent
  BY DEF Rest
<1>2. decoder \in Decoder /\ wire \in Seq(Cell) /\ Len(wire) \in Nat /\ 0 \in Nat /\ 0 <= Len(wire)
  <2>1. wire \in Seq(Cell)
    BY DEF StreamInv, StreamTypes
  <2>2. Len(wire) \in Nat
    BY <2>1
  <2> QED BY <2>1, <2>2 DEF StreamInv, StreamTypes
<1>3. /\ sent \in Seq(Sent) /\ seen \in Seq(Content) /\ Aligned(decoder.buf \o wire)
      /\ Len(decoder.buf) + Len(wire) <= Len(sent) * FrameLen /\ Len(sent) <= MaxWeight
      /\ seen \o Buffered(decoder.buf \o wire) = IntactOf(sent)
  BY DEF Kept, DecoderKeepsIntact, IntactOf
<1>4. Len(sent) \in Nat
  BY <1>3
<1>5. Len(decoder.buf) + Len(wire) <= MaxBuffer
  <2> DEFINE p == Len(sent) * FrameLen
             r == MaxWeight * FrameLen
             l == Len(decoder.buf) + Len(wire)
  <2>1. p <= r /\ r <= MaxBuffer /\ p \in Nat /\ r \in Nat /\ MaxBuffer \in Nat
    BY <1>3, <1>4, TimesMore, Times, BoundsNat, ContentAssumption DEF Roomy
  <2>2. l \in Nat /\ l <= p
    BY <1>2, <1>3, DecoderIs
  <2> HIDE DEF p, r, l
  <2>3. l <= MaxBuffer
    BY <2>1, <2>2
  <2> QED BY <2>3 DEF l
<1>6. /\ decoder' \in Decoder /\ wire' \in Seq(Cell) /\ seen' \in Seq(Content)
      /\ Aligned(decoder'.buf \o wire')
      /\ seen' \o Buffered(decoder'.buf \o wire') = seen \o Buffered(decoder.buf \o wire)
      /\ Len(decoder'.buf) + Len(wire') <= Len(decoder.buf) + Len(wire)
      /\ \A E \in Nat :
            /\ E < MaxErrors /\ Fits(decoder.buf \o wire, decoder.errors, E)
            /\ decoder.state # "Stopped"
            => /\ Fits(decoder'.buf \o wire', decoder'.errors, E)
               /\ decoder'.state # "Stopped"
               /\ decoder'.state = "Ready" => Len(decoder'.buf) < FrameLen
  BY <1>1, <1>2, <1>3, <1>5, ChunkCarries
<1>7. Len(decoder'.buf) + Len(wire') <= Len(sent) * FrameLen
  <2>1. Len(decoder'.buf) \in Nat /\ Len(wire') \in Nat /\ Len(decoder.buf) \in Nat
    BY <1>2, <1>6, DecoderIs
  <2> DEFINE p == Len(sent) * FrameLen
             l == Len(decoder.buf) + Len(wire)
             m == Len(decoder'.buf) + Len(wire')
  <2>2. p \in Nat /\ l \in Nat /\ m \in Nat /\ l <= p /\ m <= l
    BY <1>2, <1>3, <1>4, <1>6, <2>1, Times, BoundsNat
  <2> HIDE DEF p, l, m
  <2>3. m <= p
    BY <2>2
  <2> QED BY <2>3 DEF m, p
<1>8. DecoderKeepsIntact'
  BY <1>1, <1>3, <1>6 DEF DecoderKeepsIntact, IntactOf
<1>9. Kept'
  BY <1>1, <1>3, <1>6, <1>7, <1>8 DEF Kept
<1>10. D \in Nat
  <2>1. HarmedIn(sent) \in SUBSET (DOMAIN sent)
    BY DEF HarmedIn
  <2> QED BY <1>3, <2>1, SentFew
<1>11. Caught'
  <2> HIDE DEF D
  <2> SUFFICES ASSUME Orderly(sent), D < MaxErrors
               PROVE  /\ Fits(decoder'.buf \o wire', decoder'.errors, D)
                      /\ decoder'.state # "Stopped"
                      /\ decoder'.state = "Ready" => Len(decoder'.buf) < FrameLen
    BY <1>1 DEF Caught, D
  <2>1. Fits(decoder.buf \o wire, decoder.errors, D) /\ decoder.state # "Stopped"
    BY DEF Caught, D
  <2> QED BY <1>6, <1>10, <2>1
<1> QED BY <1>9, <1>11

\* The bound of an answer counts its frames.
LEMMA FrameIs ==
    ASSUME Frame, sent \in Seq(Sent)
    PROVE  \E event \in Content, trouble \in Damage \cup {"none", "split", "held"}, k \in Nat :
              /\ sent' = Append(sent, [event |-> event, trouble |-> trouble])
              /\ k <= FrameLen /\ Chunk(wire \o Cells(event, trouble), k)
              /\ Len(sent) + 1 <= MaxWeight
<1>1. PICK event \in Content, trouble \in Damage \cup {"none", "split", "held"} :
         /\ Weight(event, trouble) <= MaxWeight - Spent
         /\ sent' = Append(sent, [event |-> event, trouble |-> trouble])
         /\ Chunk(wire \o Cells(event, trouble),
                  CASE trouble = "split" -> 1
                    [] trouble = "held"  -> FrameLen
                    [] OTHER             -> 0)
  BY DEF Frame
<1> DEFINE k == CASE trouble = "split" -> 1
                  [] trouble = "held"  -> FrameLen
                  [] OTHER             -> 0
           K == {i \in DOMAIN sent : sent[i].event.kind # "text"}
           L == {i \in DOMAIN sent : sent[i].trouble # "none"}
           W == Weight(event, trouble)
<1>2. k \in Nat /\ k <= FrameLen
  BY BoundsNat
<1>3. Chunk(wire \o Cells(event, trouble), k)
  BY <1>1
<1>4. Cardinality(K) \in Nat /\ Cardinality(L) \in Nat
  BY SentFew
<1>5. Spent = Len(sent) + Cardinality(K) + 2 * Cardinality(L)
  BY DEF Spent
<1>6. W \in Nat /\ 1 <= W
  BY DEF Weight
<1>7. W <= MaxWeight - Spent /\ MaxWeight \in Nat /\ Len(sent) \in Nat
  BY <1>1, ContentAssumption
<1> HIDE DEF k, K, L, W
<1>8. Len(sent) + 1 <= MaxWeight
  <2> DEFINE n == Len(sent)
             p == Cardinality(K)
             q == Cardinality(L)
  <2>1. n \in Nat /\ p \in Nat /\ q \in Nat /\ Spent = n + p + 2 * q
        /\ W \in Nat /\ 1 <= W /\ W <= MaxWeight - Spent /\ MaxWeight \in Nat
    BY <1>4, <1>5, <1>6, <1>7
  <2> HIDE DEF n, p, q
  <2>2. n + 1 <= MaxWeight
    BY <2>1
  <2> QED BY <2>2 DEF n
<1> QED BY <1>1, <1>2, <1>3, <1>8

LEMMA FrameKept ==
    ASSUME StreamInv, Kept, Caught, Frame, Roomy
    PROVE  Kept' /\ Caught'
<1>1. /\ sent \in Seq(Sent) /\ seen \in Seq(Content) /\ Aligned(decoder.buf \o wire)
      /\ Len(decoder.buf) + Len(wire) <= Len(sent) * FrameLen
      /\ seen \o Buffered(decoder.buf \o wire) = IntactOf(sent)
  BY DEF Kept, DecoderKeepsIntact, IntactOf
<1>2. PICK event \in Content, trouble \in Damage \cup {"none", "split", "held"}, k \in Nat :
         /\ sent' = Append(sent, [event |-> event, trouble |-> trouble])
         /\ k <= FrameLen /\ Chunk(wire \o Cells(event, trouble), k)
         /\ Len(sent) + 1 <= MaxWeight
  BY <1>1, FrameIs
<1> DEFINE f == [event |-> event, trouble |-> trouble]
           c == Cells(event, trouble)
           buf == decoder.buf
           cells == wire \o c
           l == Len(buf) + Len(wire)
           D == Cardinality(HarmedIn(sent))
           E == Cardinality(HarmedIn(sent'))
<1>3. f \in Sent /\ f.trouble = trouble /\ f.event = event /\ sent' = Append(sent, f)
  BY <1>2 DEF Sent
<1>4. /\ sent' \in Seq(Sent) /\ Len(sent') = Len(sent) + 1
      /\ IntactOf(sent') = IntactOf(sent) \o (IF Intact(trouble) THEN <<event>> ELSE <<>>)
      /\ IntactOf(sent) \in Seq(Events)
      /\ E = D + (IF trouble = "data" THEN 1 ELSE 0)
      /\ Orderly(sent') => Orderly(sent) /\ trouble \notin Damage \ {"data"}
  <2> HIDE DEF f
  <2>1. LET t == Append(sent, f)
        IN  /\ t \in Seq(Sent) /\ Len(t) = Len(sent) + 1
            /\ IntactOf(t) = IntactOf(sent) \o (IF Intact(f.trouble) THEN <<f.event>> ELSE <<>>)
            /\ IntactOf(sent) \in Seq(Events)
            /\ Cardinality(HarmedIn(t))
                  = Cardinality(HarmedIn(sent)) + (IF f.trouble = "data" THEN 1 ELSE 0)
            /\ Orderly(t) => Orderly(sent) /\ f.trouble \notin Damage \ {"data"}
    BY <1>1, <1>3, SentMore
  <2> QED BY <1>3, <2>1
<1>5. /\ c \in Seq(Cell) /\ Len(c) = FrameLen /\ Aligned(c)
      /\ Buffered(c) = IF Intact(trouble) THEN <<event>> ELSE <<>>
      /\ trouble \in {"none", "split", "held", "data"} =>
            HeadAt(c, 1) /\ Harms(c) = IF trouble = "data" THEN 1 ELSE 0
  BY CellsAre, CellsAligned, CellsWhole
<1>6. /\ decoder \in Decoder /\ buf \in Seq(Cell) /\ wire \in Seq(Cell)
      /\ Len(buf) \in Nat /\ FrameLen \in Nat
  BY DecoderIs, BoundsNat DEF StreamInv, StreamTypes
<1> HIDE DEF f, c
<1>7. cells \in Seq(Cell) /\ Len(cells) = Len(wire) + FrameLen /\ Len(wire) \in Nat
  BY <1>5, <1>6, Joined
<1>8. buf \o cells = (buf \o wire) \o c /\ buf \o wire \in Seq(Cell)
  <2> HIDE DEF buf
  <2>1. (buf \o wire) \o c = buf \o (wire \o c)
    BY <1>5, <1>6, ConcatAssociative
  <2>2. buf \o wire \in Seq(Cell)
    BY <1>6, Joined
  <2> QED BY <2>1, <2>2
<1> DEFINE old == buf \o wire
<1> HIDE DEF buf
<1> HIDE DEF cells
<1> HIDE DEF old
<1>9. old \in Seq(Cell) /\ buf \o cells = old \o c /\ Aligned(old)
  BY <1>1, <1>8 DEF old, buf
<1>10. Aligned(buf \o cells)
  BY <1>5, <1>9, AlignedJoin
<1>11. seen \o Buffered(buf \o cells) = IntactOf(sent')
  <2> DEFINE p == seen
             q == Buffered(old)
             r == Buffered(c)
  <2>1. Buffered(buf \o cells) = q \o r /\ q \in Seq(Events) /\ r \in Seq(Events)
    BY <1>5, <1>9, BufferedJoin
  <2>2. Content \subseteq Events
    BY DEF Events
  <2>3. p \in Seq(Events)
    BY <1>1, <2>2
  <2>4. p \o q = IntactOf(sent)
    BY <1>1 DEF old, buf
  <2>5. r = IF Intact(trouble) THEN <<event>> ELSE <<>>
    BY <1>5
  <2> HIDE DEF p, q, r
  <2>6. p \o (q \o r) = (p \o q) \o r
    BY <2>1, <2>3, ConcatAssociative
  <2> QED BY <1>4, <2>1, <2>4, <2>5, <2>6 DEF p
<1>12. /\ l \in Nat /\ Len(sent) \in Nat /\ l <= Len(sent) * FrameLen
       /\ Len(buf) + Len(cells) = l + FrameLen
  <2>1. Len(sent) \in Nat
    BY <1>1
  <2>2. l <= Len(sent) * FrameLen
    BY <1>1 DEF buf
  <2> QED BY <1>6, <1>7, <2>1, <2>2
<1>13. l + FrameLen <= (Len(sent) + 1) * FrameLen /\ l + FrameLen <= MaxBuffer
  BY <1>2, <1>12, RoomForOne
<1>14. k \in Nat /\ k <= Len(cells) /\ Chunk(cells, k)
  BY <1>2, <1>6, <1>7 DEF cells, c
<1>15. Len(decoder.buf) + Len(cells) <= MaxBuffer /\ Aligned(decoder.buf \o cells)
  BY <1>10, <1>12, <1>13 DEF buf
<1>16. /\ decoder' \in Decoder /\ wire' \in Seq(Cell) /\ seen' \in Seq(Content)
       /\ Aligned(decoder'.buf \o wire')
       /\ seen' \o Buffered(decoder'.buf \o wire') = seen \o Buffered(decoder.buf \o cells)
       /\ Len(decoder'.buf) + Len(wire') <= Len(decoder.buf) + Len(cells)
       /\ \A F \in Nat :
             /\ F < MaxErrors /\ Fits(decoder.buf \o cells, decoder.errors, F)
             /\ decoder.state # "Stopped"
             => /\ Fits(decoder'.buf \o wire', decoder'.errors, F)
                /\ decoder'.state # "Stopped"
                /\ decoder'.state = "Ready" => Len(decoder'.buf) < FrameLen
  BY <1>1, <1>6, <1>7, <1>14, <1>15, ChunkCarries
<1>17. Kept'
  <2>1. Len(decoder'.buf) + Len(wire') <= Len(sent') * FrameLen
    <3>1. Len(decoder'.buf) \in Nat /\ Len(wire') \in Nat
      BY <1>16, DecoderIs
    <3> DEFINE m == Len(decoder'.buf) + Len(wire')
               p == (Len(sent) + 1) * FrameLen
    <3>2. m \in Nat /\ m <= l + FrameLen /\ l + FrameLen <= p /\ l \in Nat /\ p \in Nat
      BY <1>6, <1>12, <1>13, <1>16, <3>1, Times DEF buf
    <3> HIDE DEF m, p, l
    <3>3. m <= p
      BY <1>6, <3>2
    <3> QED BY <1>4, <3>3 DEF m, p
  <2>2. DecoderKeepsIntact'
    BY <1>11, <1>16 DEF DecoderKeepsIntact, IntactOf, buf
  <2>3. Len(sent') <= MaxWeight
    BY <1>2, <1>4
  <2> QED BY <1>4, <1>16, <2>1, <2>2, <2>3 DEF Kept
<1>18. D \in Nat
  <2>1. HarmedIn(sent) \in SUBSET (DOMAIN sent)
    BY DEF HarmedIn
  <2> QED BY <1>1, <2>1, SentFew
<1>19. Caught'
  <2> HIDE DEF D, E
  <2> SUFFICES ASSUME Orderly(sent'), E < MaxErrors
               PROVE  /\ Fits(decoder'.buf \o wire', decoder'.errors, E)
                      /\ decoder'.state # "Stopped"
                      /\ decoder'.state = "Ready" => Len(decoder'.buf) < FrameLen
    BY DEF Caught, E
  <2>1. Orderly(sent) /\ trouble \in {"none", "split", "held", "data"}
    BY <1>4 DEF Damage
  <2>2. D < MaxErrors /\ E \in Nat
    BY <1>4, <1>18, BoundsNat
  <2>3. /\ Fits(old, decoder.errors, D) /\ decoder.state # "Stopped"
    BY <2>1, <2>2 DEF Caught, D, old, buf
  <2>4. PICK m \in Nat : Whole(old, m)
    BY <2>3 DEF Fits
  <2>5. Whole(old \o c, m + 1) /\ m + 1 \in Nat
    BY <1>5, <1>9, <2>1, <2>4, WholeJoin
  <2>6. Harms(old \o c) = Harms(old) + Harms(c) /\ Harms(old) \in Nat /\ Harms(c) \in Nat
    BY <1>5, <1>9, HarmsJoin
  <2>7. decoder.errors + Harms(old \o c) <= E
    <3>1. decoder.errors + Harms(old) <= D /\ decoder.errors \in Nat
      BY <1>6, <2>3, DecoderIs, BoundsNat DEF Fits
    <3>2. Harms(c) = IF trouble = "data" THEN 1 ELSE 0
      BY <1>5, <2>1
    <3> QED BY <1>4, <1>18, <2>6, <3>1, <3>2
  <2>8. Fits(decoder.buf \o cells, decoder.errors, E)
    BY <1>9, <2>5, <2>7 DEF Fits, buf
  <2> QED BY <1>16, <2>2, <2>3, <2>8
<1> QED BY <1>17, <1>19

LEMMA FramesStep ==
    ASSUME Roomy
    PROVE  FramesInv /\ [StreamNext]_streamVars => FramesInv'
<1> SUFFICES ASSUME FramesInv, [StreamNext]_streamVars PROVE FramesInv'
  OBVIOUS
<1>1. StreamInv /\ Kept /\ Caught
  BY DEF FramesInv
<1>2. StreamInv'
  BY <1>1, StreamStep
<1>3. CASE UNCHANGED <<decoder, wire, sent, seen>>
  <2>1. DecoderKeepsIntact'
    BY <1>1, <1>3 DEF Kept, DecoderKeepsIntact
  <2>2. Kept' /\ Caught'
    BY <1>1, <1>3, <2>1 DEF Kept, Caught
  <2> QED BY <1>2, <2>2 DEF FramesInv
<1>4. CASE Frame
  BY <1>1, <1>2, <1>4, FrameKept DEF FramesInv
<1>5. CASE Rest
  BY <1>1, <1>2, <1>5, RestKept DEF FramesInv
<1>6. CASE Disconnect
  BY <1>2, <1>6, LeavingKeeps DEF FramesInv
<1>7. \/ UNCHANGED <<decoder, wire, sent, seen>>
      \/ Frame \/ Rest \/ Disconnect
  BY DEF StreamNext, streamVars, Deliver, EndOfBody, IoError, Finish
<1> QED BY <1>3, <1>4, <1>5, <1>6, <1>7

-----------------------------------------------------------------------------
(* Theorems about the decoder.                                             *)

\* If the decoder's buffer takes a whole answer, frames stay aligned, intact ones are
\* kept in their order, and errors are counted against the frames that were damaged.
THEOREM FramesInvariant == ASSUME Roomy PROVE StreamSpec => []FramesInv
<1>1. StreamInit => FramesInv
  BY FramesStart
<1>2. FramesInv /\ [StreamNext]_streamVars => FramesInv'
  BY FramesStep
<1> QED BY <1>1, <1>2, PTL DEF StreamSpec

\* However damaged the frames around it are, an intact frame is neither lost, repeated
\* nor reordered (decoder.rs, try_recover; frame.rs, parse_frame).
THEOREM IntactFramesAreKept == ASSUME Roomy PROVE StreamSpec => []DecoderKeepsIntact
<1>1. FramesInv => DecoderKeepsIntact
  BY DEF FramesInv, Kept
<1> QED BY <1>1, FramesInvariant, PTL

\* Fewer than five frames damaged in their bodies do not stop the decoder, and each
\* costs no more than itself (decoder.rs, decode and try_recover).
THEOREM DecoderRecovers == ASSUME Roomy PROVE StreamSpec => []DecoderCatchesUp
<1>1. FramesInv => DecoderCatchesUp
  BY DEF FramesInv, Caught, DecoderCatchesUp, Orderly, HarmedIn
<1> QED BY <1>1, FramesInvariant, PTL

-----------------------------------------------------------------------------
(* Why an answer stops: the reason that the stream tells, and the one that *)
(* the answer to the same events gives as a whole.                         *)

\* Half of the reason is the last event that cut the answer short.
Stem(events) == FoldLeft(CutShort, "end_turn", events)

Stems == {"end_turn", "max_tokens", "model_context_window_exceeded"}

StemChain(f, events) ==
    /\ f[0] = "end_turn" /\ Stem(events) = f[Len(events)]
    /\ \A k \in 1 .. Len(events) : f[k] = CutShort(f[k - 1], events[k])

LEMMA CutShortIs ==
    ASSUME NEW r \in Stems, NEW e
    PROVE  CutShort(r, e) \in Stems
BY DEF CutShort, Stems

LEMMA StemSteps ==
    ASSUME NEW E, NEW events \in Seq(E)
    PROVE  \E f \in [0 .. Len(events) -> Stems] : StemChain(f, events)
<1> DEFINE n == Len(events)
           x == "end_turn"
           G == [i \in 1 .. n |-> [y \in Stems |-> CutShort(y, events[i])]]
           Q(f) == f = [s \in SUBSET (DOMAIN events) |->
                           IF s = {} THEN x ELSE CutShort(f[s \ {Max(s)}], events[Max(s)])]
<1>1. n \in Nat /\ DOMAIN events = 1 .. n /\ x \in Stems
  BY DEF Stems
<1>2. Stem(events) = (CHOOSE f : Q(f))[DOMAIN events]
  BY DEF FoldLeft, MapThenFoldSet, Stem
<1>3. /\ G \in [1 .. n -> [Stems -> Stems]]
      /\ \A i \in 1 .. n, y \in Stems : G[i][y] = CutShort(y, events[i])
  BY <1>1, CutShortIs
<1> HIDE DEF G
<1>4. PICK it \in [SUBSET (1 .. n) -> Stems] : IsFold(it, x, n, G)
  <2> HIDE DEF n, Q, x
  <2> QED BY <1>1, <1>3, FoldExists
<1>5. ASSUME NEW s \in SUBSET (1 .. n), s # {}
      PROVE  Max(s) \in 1 .. n /\ s \ {Max(s)} \in SUBSET (1 .. n)
  BY <1>1, <1>5, MaxOf
<1> HIDE DEF x
<1>6. Q(it)
  <2>1. ASSUME NEW s \in SUBSET (1 .. n)
        PROVE  it[s] = IF s = {} THEN x ELSE CutShort(it[s \ {Max(s)}], events[Max(s)])
    BY <1>3, <1>4, <1>5, <2>1 DEF IsFold
  <2> QED BY <1>1, <1>4, <2>1
<1> DEFINE run == CHOOSE f : Q(f)
<1>7. Q(run)
  BY <1>6
<1> HIDE DEF run, n
<1>8. \A s \in SUBSET (1 .. n) :
         run[s] = IF s = {} THEN x ELSE CutShort(run[s \ {Max(s)}], events[Max(s)])
  BY <1>1, <1>7
<1>9. \A k \in 1 .. n : run[1 .. k] = CutShort(run[1 .. k - 1], events[k])
  BY <1>1, <1>8, RunSegments
<1>10. run[{}] = x
  BY <1>8
<1>11. \A k \in 1 .. n : run[1 .. k - 1] \in Stems => run[1 .. k] \in Stems
  BY <1>9, CutShortIs
<1>12. ASSUME NEW k \in 0 .. n PROVE run[1 .. k] \in Stems
  <2>1. k \in Nat /\ \A l \in 1 .. k : l \in 1 .. n
    BY <1>1
  <2>2. \A l \in 1 .. k : run[1 .. l - 1] \in Stems => run[1 .. l] \in Stems
    BY <1>11, <2>1
  <2>3. run[{}] \in Stems
    BY <1>1, <1>10
  <2> QED BY <2>1, <2>2, <2>3, RunStays
<1> DEFINE f == [k \in 0 .. n |-> run[1 .. k]]
<1>13. f \in [0 .. n -> Stems]
  BY <1>12
<1>14. \A k \in 0 .. n : f[k] = run[1 .. k]
  OBVIOUS
<1>15. f[0] = x /\ f[n] = run[1 .. n]
  <2>1. 1 .. 0 = {} /\ 0 \in 0 .. n /\ n \in 0 .. n
    BY <1>1
  <2> QED BY <1>10, <1>14, <2>1
<1> HIDE DEF f
<1>16. ASSUME NEW k \in 1 .. n PROVE f[k] = CutShort(f[k - 1], events[k])
  <2>1. k \in 0 .. n /\ k - 1 \in 0 .. n
    BY <1>1
  <2> QED BY <1>9, <1>14, <2>1
<1>17. Stem(events) = f[n]
  BY <1>1, <1>2, <1>15 DEF run
<1> QED BY <1>13, <1>15, <1>16, <1>17 DEF StemChain, n, x

\* One event more.
LEMMA StemAppend ==
    ASSUME NEW E, NEW events \in Seq(E), NEW e \in E
    PROVE  Stem(Append(events, e)) = CutShort(Stem(events), e) /\ Stem(events) \in Stems
<1> DEFINE n == Len(events)
           more == Append(events, e)
<1>1. /\ n \in Nat /\ more \in Seq(E) /\ Len(more) = n + 1 /\ more[n + 1] = e
      /\ \A k \in 1 .. n : more[k] = events[k]
  OBVIOUS
<1>2. PICK f \in [0 .. n -> Stems] : StemChain(f, events)
  BY StemSteps
<1>3. PICK g \in [0 .. Len(more) -> Stems] : StemChain(g, more)
  BY <1>1, StemSteps
<1> HIDE DEF n, more
<1>4. /\ f[0] = "end_turn" /\ Stem(events) = f[n]
      /\ \A k \in 1 .. n : f[k] = CutShort(f[k - 1], events[k])
  BY <1>2 DEF StemChain, n
<1>5. /\ g[0] = "end_turn" /\ Stem(more) = g[n + 1]
      /\ \A k \in 1 .. n + 1 : g[k] = CutShort(g[k - 1], more[k])
  BY <1>1, <1>3 DEF StemChain
<1> DEFINE T == {k \in Nat : k <= n => g[k] = f[k]}
<1>6. 0 \in T
  BY <1>4, <1>5
<1>7. ASSUME NEW k \in Nat, g[k] = f[k], k + 1 <= n PROVE g[k + 1] = f[k + 1]
  <2>1. k + 1 \in 1 .. n /\ k + 1 \in 1 .. n + 1 /\ (k + 1) - 1 = k
    BY <1>1, <1>7
  <2> QED BY <1>1, <1>4, <1>5, <1>7, <2>1
<1>8. T \in SUBSET Nat /\ \A k \in T : k + 1 \in T
  <2>1. n \in Nat
    BY <1>1
  <2>2. \A k \in T : k + 1 \in T
    BY <1>7, <2>1
  <2> QED BY <2>2
<1> HIDE DEF T
<1>9. n \in T
  BY <1>1, <1>6, <1>8, Induction
<1>10. g[n] = f[n]
  BY <1>9 DEF T
<1>11. n + 1 \in 1 .. n + 1 /\ (n + 1) - 1 = n /\ n \in 0 .. n
  BY <1>1
<1>12. f[n] \in Stems
  BY <1>2, <1>11 DEF n
<1> QED BY <1>1, <1>4, <1>5, <1>10, <1>11, <1>12 DEF more

LEMMA NoStem == Stem(<<>>) = "end_turn"
<1>1. <<>> \in Seq({}) /\ Len(<<>>) = 0
  OBVIOUS
<1>2. PICK f \in [0 .. Len(<<>>) -> Stems] : StemChain(f, <<>>)
  BY <1>1, StemSteps
<1> QED BY <1>1, <1>2 DEF StemChain
-----------------------------------------------------------------------------
(* What the translation remembers of the reason.                           *)

Fields == {"thinking", "blocks", "started", "hasTool", "reason", "produced", "tools", "buffer",
           "inside", "extracted", "strip", "thinkAt", "textAt", "reasoning", "native",
           "signature", "failure", "out"}

\* y stops for the reason that x does, and has its tools.
Alike(x, y) ==
    DOMAIN x = Fields =>
        /\ DOMAIN y = Fields
        /\ y.reason = x.reason /\ y.hasTool = x.hasTool /\ y.tools = x.tools

LEMMA ContextFields == ASSUME NEW x \in Context PROVE DOMAIN x = Fields
BY DEF Context, Fields

LEMMA AlikeTwice ==
    ASSUME NEW x, NEW y, NEW z, Alike(x, y), Alike(y, z)
    PROVE  Alike(x, z)
BY DEF Alike

LEMMA AlikeFields ==
    ASSUME NEW x, NEW u
    PROVE  /\ Alike(x, x)
           /\ Alike(x, [x EXCEPT !.out = u]) /\ Alike(x, [x EXCEPT !.blocks = u])
           /\ Alike(x, [x EXCEPT !.textAt = u]) /\ Alike(x, [x EXCEPT !.buffer = u])
           /\ Alike(x, [x EXCEPT !.failure = u]) /\ Alike(x, [x EXCEPT !.produced = u])
BY DEF Alike, Fields

LEMMA EmitAlike ==
    ASSUME NEW x, NEW ev, NEW at, NEW tag, NEW text
    PROVE  Alike(x, Emit(x, ev, at, tag, text))
BY AlikeFields DEF Emit

LEMMA StopAlike ==
    ASSUME NEW x, NEW S, NEW i
    PROVE  Alike(x, Stop(x, S)) /\ Alike(x, StopBlock(x, i))
<1>1. ASSUME NEW B PROVE Alike(x, Stop(x, B))
  <2>1. Alike(x, Stopped(x, B))
    BY AlikeFields DEF Stopped
  <2> QED BY <2>1, EmitAlike, AlikeTwice, AlikeFields DEF Stop
<1> QED BY <1>1 DEF StopBlock

LEMMA StartAlike ==
    ASSUME NEW x, NEW type
    PROVE  Alike(x, StartBlock(x, type))
<1> DEFINE y == [x EXCEPT !.blocks = Append(@, [type |-> type, stopped |-> FALSE])]
<1>1. Alike(x, y)
  BY AlikeFields
<1> HIDE DEF y
<1>2. \A at : Alike(y, Emit(y, "start", at, type, <<>>))
  BY EmitAlike
<1>3. StartBlock(x, type) = Emit(y, "start", {Len(x.blocks) + 1}, type, <<>>)
  BY DEF StartBlock, y
<1> QED BY <1>1, <1>2, <1>3, AlikeTwice

LEMMA TextDeltaAlike ==
    ASSUME NEW x, NEW text
    PROVE  Alike(x, TextDelta(x, text))
<1> DEFINE u == [x EXCEPT !.textAt = Len(x.blocks) + 1]
           y == IF x.textAt \in OpenText(x) THEN x ELSE StartBlock(u, "text")
<1>1. Alike(x, u)
  BY AlikeFields
<1> HIDE DEF u
<1>2. Alike(x, y)
  BY <1>1, StartAlike, AlikeTwice, AlikeFields
<1>3. TextDelta(x, text) = Delta(y, y.textAt, "text", text)
  BY DEF TextDelta, TextDeltaTo, u
<1> HIDE DEF y
<1>4. \A i : Alike(y, Delta(y, i, "text", text))
  BY EmitAlike, AlikeFields DEF Delta
<1> QED BY <1>2, <1>3, <1>4, AlikeTwice

LEMMA ThinkingAlike ==
    ASSUME NEW x, NEW text
    PROVE  /\ Alike(x, ThinkingDelta(x, text)) /\ Alike(x, SomeThinking(x, text))
           /\ Alike(x, CloseFakeThinking(x)) /\ Alike(x, CloseReasoning(x))
<1>1. Alike(x, ThinkingDelta(x, text)) /\ Alike(x, SomeThinking(x, text))
  BY EmitAlike, AlikeFields DEF ThinkingDelta, SomeThinking
<1>2. \A tag : Alike(x, Emit(x, "signature", {x.thinkAt}, tag, <<>>))
  BY EmitAlike
<1>3. Alike(x, CloseFakeThinking(x))
  BY <1>2, StopAlike, AlikeTwice DEF CloseFakeThinking
<1>4. Alike(x, CloseReasoning(x))
  <2> DEFINE y == Emit(x, "signature", {x.thinkAt}, IF x.signature THEN "given" ELSE "empty", <<>>)
             z == StopBlock(y, x.thinkAt)
  <2>1. Alike(x, y)
    BY <1>2
  <2> HIDE DEF y
  <2>2. Alike(x, z)
    BY <2>1, StopAlike, AlikeTwice
  <2> HIDE DEF z
  <2>3. Alike(z, [z EXCEPT !.reasoning = FALSE, !.signature = FALSE])
    BY DEF Alike, Fields
  <2>4. CloseReasoning(x) = IF ~x.reasoning THEN x
                            ELSE [z EXCEPT !.reasoning = FALSE, !.signature = FALSE]
    BY DEF CloseReasoning, z, y
  <2> QED BY <2>2, <2>3, <2>4, AlikeTwice, AlikeFields
<1> QED BY <1>1, <1>3, <1>4

LEMMA BeforeTagAlike == ASSUME NEW x PROVE Alike(x, BeforeTag(x))
<1> DEFINE p      == StartTag(x.buffer)
           before == SubSeq(x.buffer, 1, p - 1)
           safe   == Releasable(x.buffer, Len(OpenTag))
           y      == IF Blank(before) THEN x ELSE TextDelta(x, before)
           rest   == From(y.buffer, p + 2)
           at     == Len(y.blocks) + 1
           u      == [y EXCEPT !.inside = TRUE, !.strip = TRUE, !.buffer = rest, !.thinkAt = at]
           left   == From(x.buffer, Len(safe) + 1)
           w      == [x EXCEPT !.buffer = left]
<1>1. Alike(x, y)
  BY TextDeltaAlike, AlikeFields
<1>2. \/ BeforeTag(x) = x
      \/ BeforeTag(x) = StartBlock(u, "thinking")
      \/ BeforeTag(x) = TextDelta(w, safe)
  BY DEF BeforeTag
<1> HIDE DEF y
<1>3. Alike(y, u)
  <2> HIDE DEF rest, at
  <2> QED BY DEF Alike, Fields
<1>4. Alike(x, w)
  BY AlikeFields
<1>5. Alike(x, u)
  BY <1>1, <1>3, AlikeTwice
<1> HIDE DEF u, w, safe
<1>6. Alike(x, StartBlock(u, "thinking"))
  BY <1>5, StartAlike, AlikeTwice
<1>7. Alike(x, TextDelta(w, safe))
  BY <1>4, TextDeltaAlike, AlikeTwice
<1>8. Alike(x, x)
  BY AlikeFields
<1> QED BY <1>2, <1>6, <1>7, <1>8

LEMMA InsideTagAlike == ASSUME NEW x PROVE Alike(x, InsideTag(x))
<1> DEFINE kept == Len(CloseTag) + 2
           b    == IF x.strip THEN StripNewline(x.buffer) ELSE x.buffer
           y    == [x EXCEPT !.buffer = b, !.strip = @ /\ x.buffer = <<>>]
           p    == EndTag(b)
           safe == Releasable(b, kept)
           c    == CloseFakeThinking(SomeThinking(y, SubSeq(b, 1, p - 1)))
           rest == From(c.buffer, p + 4)
           u    == [c EXCEPT !.inside = FALSE, !.extracted = TRUE, !.buffer = rest]
           left == From(y.buffer, Len(safe) + 1)
           w    == [y EXCEPT !.buffer = left]
<1>1. InsideTag(x) = x \/ InsideTag(x) = u \/ InsideTag(x) = SomeThinking(w, safe)
  BY DEF InsideTag, InsideTagHolding
<1> HIDE DEF b
<1>2. Alike(x, y)
  BY DEF Alike, Fields
<1> HIDE DEF y
<1>3. Alike(y, c) /\ Alike(y, w)
  BY ThinkingAlike, AlikeTwice, AlikeFields
<1> HIDE DEF c
<1>4. Alike(c, u)
  <2> HIDE DEF rest
  <2> QED BY DEF Alike, Fields
<1>5. Alike(x, u) /\ Alike(x, w)
  BY <1>2, <1>3, <1>4, AlikeTwice
<1> HIDE DEF u, w, safe
<1>6. Alike(x, SomeThinking(w, safe))
  BY <1>5, ThinkingAlike, AlikeTwice
<1>7. Alike(x, x)
  BY AlikeFields
<1> QED BY <1>1, <1>5, <1>6, <1>7

LEMMA ScanAlike == ASSUME NEW x PROVE Alike(x, Scan(x))
<1>1. ASSUME NEW y PROVE Alike(y, AfterTag(y))
  BY TextDeltaAlike, AlikeFields, AlikeTwice DEF AfterTag
<1> QED BY <1>1, BeforeTagAlike, InsideTagAlike, AlikeTwice DEF Scan

LEMMA EndAtTagAlike == ASSUME NEW x, NEW p PROVE Alike(x, EndAtTag(x, p))
<1> DEFINE y == CloseFakeThinking(SomeThinking(x, SubSeq(x.buffer, 1, p - 1)))
           z == [y EXCEPT !.inside = FALSE, !.extracted = TRUE, !.buffer = <<>>]
           left == TrimStart(From(x.buffer, p + 2))
<1>1. EndAtTag(x, p) = z \/ EndAtTag(x, p) = TextDelta(z, left)
  BY DEF EndAtTag
<1>2. Alike(x, y)
  BY ThinkingAlike, AlikeTwice
<1> HIDE DEF y
<1>3. Alike(y, z)
  BY DEF Alike, Fields
<1> HIDE DEF z, left
<1> QED BY <1>1, <1>2, <1>3, TextDeltaAlike, AlikeTwice

LEMMA FlushesAlike ==
    ASSUME NEW x
    PROVE  Alike(x, FlushBeforeTool(x)) /\ Alike(x, FlushAtEnd(x))
<1>1. Alike(x, FlushBeforeTool(x))
  <2> DEFINE p == EndTagAtBufferEnd(x.buffer)
             y == IF x.thinking /\ x.inside /\ p # 0 THEN EndAtTag(x, p) ELSE x
             z == [y EXCEPT !.buffer = <<>>]
  <2>1. Alike(x, y)
    BY EndAtTagAlike, AlikeFields
  <2>2. FlushBeforeTool(x) = y \/ FlushBeforeTool(x) = TextDelta(z, y.buffer)
    BY DEF FlushBeforeTool
  <2> HIDE DEF y
  <2>3. Alike(y, z)
    BY AlikeFields
  <2> HIDE DEF z
  <2> QED BY <2>1, <2>2, <2>3, TextDeltaAlike, AlikeTwice
<1>2. Alike(x, FlushAtEnd(x))
  <2> DEFINE p == EndTagAtBufferEnd(x.buffer)
             c == CloseFakeThinking(ThinkingDelta(x, x.buffer))
             t == TextDelta(x, x.buffer)
  <2>1. Alike(x, c) /\ Alike(x, t)
    BY ThinkingAlike, TextDeltaAlike, AlikeTwice
  <2>2. \/ FlushAtEnd(x) = x \/ FlushAtEnd(x) = EndAtTag(x, p)
        \/ FlushAtEnd(x) = [c EXCEPT !.buffer = <<>>]
        \/ FlushAtEnd(x) = [t EXCEPT !.buffer = <<>>]
    BY DEF FlushAtEnd
  <2> HIDE DEF c, t, p
  <2>3. Alike(x, [c EXCEPT !.buffer = <<>>]) /\ Alike(x, [t EXCEPT !.buffer = <<>>])
    BY <2>1, AlikeFields, AlikeTwice
  <2>4. Alike(x, x) /\ Alike(x, EndAtTag(x, p))
    BY EndAtTagAlike, AlikeFields
  <2> QED BY <2>2, <2>3, <2>4
<1> QED BY <1>1, <1>2
-----------------------------------------------------------------------------
(* What each event does to the reason.                                     *)

Called(events) == \E i \in DOMAIN events : events[i].kind = "tool"

\* The translation knows why the answer to the events would stop.
Reported(x, events) ==
    /\ Stem(events) = IF x.reason = "none" THEN "end_turn" ELSE x.reason
    /\ x.hasTool = Called(events)
    /\ x.hasTool => \E t \in ToolId : x.tools[t] # 0

LEMMA CalledAppend ==
    ASSUME NEW E, NEW events \in Seq(E), NEW e \in E
    PROVE  Called(Append(events, e)) = (Called(events) \/ e.kind = "tool")
<1> DEFINE n == Len(events)
           more == Append(events, e)
<1>1. /\ n \in Nat /\ DOMAIN events = 1 .. n /\ DOMAIN more = 1 .. n + 1 /\ more[n + 1] = e
      /\ \A k \in 1 .. n : more[k] = events[k]
  OBVIOUS
<1> HIDE DEF n, more
<1>2. /\ n + 1 \in 1 .. n + 1 /\ \A k \in 1 .. n : k \in 1 .. n + 1
      /\ \A k \in 1 .. n + 1 : k = n + 1 \/ k \in 1 .. n
  BY <1>1
<1>3. ASSUME Called(more) PROVE Called(events) \/ e.kind = "tool"
  <2>1. PICK k \in 1 .. n + 1 : more[k].kind = "tool"
    BY <1>1, <1>3 DEF Called
  <2> QED BY <1>1, <1>2, <2>1 DEF Called
<1>4. ASSUME Called(events) PROVE Called(more)
  <2>1. PICK k \in 1 .. n : events[k].kind = "tool"
    BY <1>1, <1>4 DEF Called
  <2> QED BY <1>1, <1>2, <2>1 DEF Called
<1>5. ASSUME e.kind = "tool" PROVE Called(more)
  BY <1>1, <1>2, <1>5 DEF Called
<1>6. Called(more) \in BOOLEAN /\ Called(events) \in BOOLEAN
  BY DEF Called
<1> QED BY <1>3, <1>4, <1>5, <1>6 DEF more

\* Events that neither cut the answer short nor call a tool.
LEMMA AlikeReports ==
    ASSUME NEW E, NEW events \in Seq(E), NEW e \in E, NEW x \in Context, NEW y,
           Reported(x, events), Alike(x, y),
           e.kind # "tool", CutShort(Stem(events), e) = Stem(events)
    PROVE  Reported(y, Append(events, e))
<1>1. y.reason = x.reason /\ y.hasTool = x.hasTool /\ y.tools = x.tools
  BY ContextFields DEF Alike
<1>2. Stem(Append(events, e)) = Stem(events)
  BY StemAppend
<1>3. Called(Append(events, e)) = Called(events)
  <2>1. Called(events) \in BOOLEAN
    BY DEF Called
  <2> QED BY <2>1, CalledAppend
<1> QED BY <1>1, <1>2, <1>3 DEF Reported

LEMMA AssistantAlike ==
    ASSUME NEW x, NEW text
    PROVE  Alike(x, AssistantResponse(x, text))
<1> DEFINE p == [x EXCEPT !.produced = TRUE]
           y == CloseReasoning(p)
           z == [y EXCEPT !.buffer = @ \o text]
<1>1. \/ AssistantResponse(x, text) = x \/ AssistantResponse(x, text) = Scan(z)
      \/ AssistantResponse(x, text) = TextDelta(y, text)
  BY DEF AssistantResponse
<1>2. Alike(x, p)
  BY AlikeFields
<1> HIDE DEF p
<1>3. Alike(x, y)
  BY <1>2, ThinkingAlike, AlikeTwice
<1> HIDE DEF y
<1>4. Alike(x, z)
  BY <1>3, AlikeFields, AlikeTwice
<1> HIDE DEF z
<1>5. Alike(x, Scan(z)) /\ Alike(x, TextDelta(y, text)) /\ Alike(x, x)
  BY <1>3, <1>4, ScanAlike, TextDeltaAlike, AlikeTwice, AlikeFields
<1> QED BY <1>1, <1>5

LEMMA ReasoningAlike ==
    ASSUME NEW x, NEW text, NEW signed
    PROVE  Alike(x, ReasoningContent(x, text, signed))
<1> DEFINE y == [x EXCEPT !.signature = @ \/ signed]
           z == IF y.native THEN y
                ELSE [y EXCEPT !.native = TRUE, !.buffer = <<>>, !.inside = FALSE,
                               !.extracted = FALSE]
           at == Len(z.blocks) + 1
           u == [z EXCEPT !.thinkAt = at, !.reasoning = TRUE]
           w == IF z.reasoning THEN z ELSE StartBlock(u, "thinking")
           p == [w EXCEPT !.produced = TRUE]
<1>1. \/ ReasoningContent(x, text, signed) = y
      \/ ReasoningContent(x, text, signed) = ThinkingDelta(p, text)
  BY DEF ReasoningContent
<1>2. Alike(x, y)
  BY DEF Alike, Fields
<1> HIDE DEF y
<1>3. Alike(y, z)
  BY DEF Alike, Fields
<1> HIDE DEF z
<1>4. Alike(z, u)
  <2> HIDE DEF at
  <2> QED BY DEF Alike, Fields
<1> HIDE DEF u
<1>5. Alike(z, w)
  BY <1>4, StartAlike, AlikeTwice, AlikeFields
<1> HIDE DEF w
<1>6. Alike(x, w)
  BY <1>2, <1>3, <1>5, AlikeTwice
<1>7. Alike(x, p)
  BY <1>6, AlikeFields, AlikeTwice
<1> HIDE DEF p
<1> QED BY <1>1, <1>2, <1>7, ThinkingAlike, AlikeTwice

LEMMA FailureAlike ==
    ASSUME NEW x, NEW kind
    PROVE  Alike(x, MarkFailure(x, kind))
BY AlikeFields DEF MarkFailure

\* A tool's call is remembered, with the block it started.
LEMMA StartToolReports ==
    ASSUME NEW v \in View, NEW x \in Steady(v), NEW t \in ToolId
    PROVE  /\ DOMAIN StartTool(x, t) = Fields
           /\ StartTool(x, t).reason = x.reason /\ StartTool(x, t).hasTool = TRUE
           /\ StartTool(x, t).tools[t] # 0
<1> DEFINE h == [x EXCEPT !.hasTool = TRUE]
           y == Stop(h, OpenText(x))
           m == Len(y.blocks) + 1
           u == [y EXCEPT !.tools[t] = m]
           z == StartBlock(u, "tool_use")
<1>1. h \in Steady(v) /\ h.blocks = x.blocks /\ h.reason = x.reason /\ h.hasTool = TRUE
      /\ DOMAIN h = Fields
  <2>1. h \in Steady(v) /\ x \in Context
    BY HasToolKeeps, SteadyIs
  <2> QED BY <2>1, ContextFields, SteadyIs DEF Fields
<1>2. StartTool(x, t) = IF y.tools[t] # 0 THEN y ELSE z
  BY DEF StartTool
<1>3. OpenText(x) = OpenText(h) /\ OpenText(h) \in SUBSET OpenBlocks(h)
      /\ \A i \in OpenText(h) : h.blocks[i].type # "thinking"
  BY <1>1 DEF OpenText, OpenBlocks
<1> HIDE DEF h
<1>4. y \in Context
  <2>1. h \in Writing(v)
    BY <1>1, SteadyIs
  <2>2. y \in Writing(v)
    BY <1>3, <2>1, StopKeeps
  <2> QED BY <2>2 DEF Writing
<1>5. DOMAIN y = Fields /\ y.reason = x.reason /\ y.hasTool = TRUE
  BY <1>1, StopAlike DEF Alike
<1> HIDE DEF y
<1>6. m \in Nat \ {0}
  BY <1>4, ContextBlocks
<1> HIDE DEF m
<1>7. y.tools \in [ToolId -> Nat]
  BY <1>4 DEF Context
<1>8. DOMAIN u = Fields /\ u.reason = x.reason /\ u.hasTool = TRUE /\ u.tools[t] # 0
  BY <1>5, <1>6, <1>7 DEF Fields
<1> HIDE DEF u
<1>9. DOMAIN z = Fields /\ z.reason = x.reason /\ z.hasTool = TRUE /\ z.tools[t] # 0
  BY <1>8, StartAlike DEF Alike
<1> QED BY <1>2, <1>5, <1>9

\* y stops for the reason that x does, and has called the tool t.
HasCalled(x, y, t) == y.reason = x.reason /\ y.hasTool = TRUE /\ y.tools[t] # 0

LEMMA ToolUseReports ==
    ASSUME NEW v \in View, NEW x \in Steady(v), NEW t \in ToolId,
           NEW input \in BOOLEAN, NEW stop \in BOOLEAN
    PROVE  HasCalled(x, ToolUse(x, t, input, stop), t)
<1> DEFINE c == CloseReasoning(x)
           h == [c EXCEPT !.hasTool = TRUE]
           f == FlushBeforeTool(h)
           y == StartTool(f, t)
           p == [y EXCEPT !.produced = TRUE]
           z == IF input THEN Delta(p, y.tools[t], "json", <<>>) ELSE y
<1>1. ToolUse(x, t, input, stop) = IF stop THEN StopBlock(z, z.tools[t]) ELSE z
  BY DEF ToolUse
<1>2. c \in Steady(v) /\ ~c.reasoning /\ DOMAIN c = Fields /\ c.reason = x.reason
  <2>1. c \in Steady(v) /\ ~c.reasoning
    BY CloseReasoningKeeps
  <2>2. Alike(x, c) /\ DOMAIN x = Fields
    BY ThinkingAlike, SteadyIs, ContextFields
  <2> QED BY <2>1, <2>2 DEF Alike
<1> HIDE DEF c
<1>3. h \in Steady(v) /\ DOMAIN h = Fields /\ h.reason = x.reason
  <2>1. h \in Steady(v)
    BY <1>2, HasToolKeeps
  <2> QED BY <1>2, <2>1 DEF Fields
<1> HIDE DEF h
<1>4. f \in Steady(v) /\ f.reason = x.reason
  <2>1. f \in Steady(v)
    BY <1>3, FlushBeforeToolKeeps
  <2> QED BY <1>3, <2>1, FlushesAlike DEF Alike
<1> HIDE DEF f
<1>5. DOMAIN y = Fields /\ y.reason = x.reason /\ y.hasTool = TRUE /\ y.tools[t] # 0
  BY <1>4, StartToolReports
<1> HIDE DEF y
<1>6. Alike(y, z)
  <2>1. Alike(y, p)
    BY AlikeFields
  <2> HIDE DEF p
  <2>2. \A i : Alike(p, Delta(p, i, "json", <<>>))
    BY EmitAlike, AlikeFields DEF Delta
  <2> QED BY <2>1, <2>2, AlikeTwice, AlikeFields
<1> HIDE DEF z
<1>7. \A i : Alike(z, StopBlock(z, i))
  BY StopAlike
<1> QED BY <1>1, <1>5, <1>6, <1>7 DEF Alike, HasCalled

LEMMA OnEventReports ==
    ASSUME NEW v \in View, NEW x \in Steady(v), NEW e \in UpstreamEvent,
           NEW events \in Seq(UpstreamEvent), Reported(x, events)
    PROVE  Reported(OnEvent(x, e), Append(events, e))
<1> DEFINE y == OnEvent(x, e)
           more == Append(events, e)
<1>1. x \in Context /\ DOMAIN x = Fields
  BY SteadyIs, ContextFields
<1>2. Stem(more) = CutShort(Stem(events), e)
  BY StemAppend
<1>3. Called(more) = (Called(events) \/ e.kind = "tool") /\ Called(events) \in BOOLEAN
  BY CalledAppend DEF Called
<1>4. CASE e.kind \in {"text", "reasoning", "error"}
  <2>1. Alike(x, y)
    BY <1>4, AssistantAlike, ReasoningAlike, FailureAlike DEF OnEvent
  <2>2. e.kind # "tool" /\ CutShort(Stem(events), e) = Stem(events)
    BY <1>4 DEF CutShort
  <2> HIDE DEF y
  <2>3. Reported(y, Append(events, e))
    BY <1>1, <2>1, <2>2, AlikeReports
  <2> QED BY <2>3 DEF y
<1>5. CASE e.kind = "tool"
  <2>1. e.tool \in ToolId /\ e.input \in BOOLEAN /\ e.stop \in BOOLEAN
    BY <1>5 DEF UpstreamEvent
  <2>2. y.reason = x.reason /\ y.hasTool = TRUE /\ y.tools[e.tool] # 0
    <3>1. y = ToolUse(x, e.tool, e.input, e.stop)
      BY <1>5 DEF OnEvent
    <3>2. HasCalled(x, ToolUse(x, e.tool, e.input, e.stop), e.tool)
      BY <2>1, ToolUseReports
    <3> HIDE DEF y
    <3> QED BY <3>1, <3>2 DEF HasCalled
  <2>3. Stem(more) = Stem(events)
    BY <1>2, <1>5 DEF CutShort
  <2> HIDE DEF y, more
  <2>4. Called(more) = TRUE
    BY <1>3, <1>5
  <2>5. Stem(more) = IF y.reason = "none" THEN "end_turn" ELSE y.reason
    BY <2>2, <2>3 DEF Reported
  <2>6. y.hasTool = Called(more) /\ \E t \in ToolId : y.tools[t] # 0
    BY <2>1, <2>2, <2>4
  <2>7. Reported(y, more)
    BY <2>5, <2>6 DEF Reported
  <2> QED BY <2>7 DEF y, more
<1>6. ASSUME NEW r \in Reason \ {"none"}, y = [x EXCEPT !.reason = r], Stem(more) = r,
             e.kind # "tool"
      PROVE  Reported(y, more)
  <2>1. y.reason = r /\ y.hasTool = x.hasTool /\ y.tools = x.tools
    BY <1>1, <1>6 DEF Fields
  <2> HIDE DEF y, more
  <2> QED BY <1>3, <1>6, <2>1 DEF Reported
<1>7. CASE e.kind = "context" /\ e.full
  <2>1. y = [x EXCEPT !.reason = "model_context_window_exceeded"]
    BY <1>7 DEF OnEvent, ContextUsage
  <2>2. Stem(more) = "model_context_window_exceeded"
    BY <1>2, <1>7 DEF CutShort
  <2> QED BY <1>6, <1>7, <2>1, <2>2 DEF Reason
<1>8. CASE e.kind = "exception" /\ e.tooLong
  <2>1. y = [x EXCEPT !.reason = "max_tokens"]
    BY <1>8 DEF OnEvent, Exception
  <2>2. Stem(more) = "max_tokens"
    BY <1>2, <1>8 DEF CutShort
  <2> QED BY <1>6, <1>8, <2>1, <2>2 DEF Reason
<1>9. CASE \/ e.kind = "context" /\ ~e.full
           \/ e.kind = "exception" /\ ~e.tooLong
           \/ e.kind \notin {"text", "reasoning", "tool", "context", "error", "exception"}
  <2>1. Alike(x, y)
    BY <1>9, FailureAlike, AlikeFields DEF OnEvent, ContextUsage, Exception, Ignored
  <2>2. e.kind # "tool" /\ CutShort(Stem(events), e) = Stem(events)
    BY <1>9 DEF CutShort
  <2> HIDE DEF y
  <2>3. Reported(y, Append(events, e))
    BY <1>1, <2>1, <2>2, AlikeReports
  <2> QED BY <2>3 DEF y
<1> QED BY <1>4, <1>5, <1>7, <1>8, <1>9
\* A chunk of events, one after the other.
LEMMA EventsReport ==
    ASSUME NEW v \in View, NEW x \in Steady(v), NEW before \in Seq(UpstreamEvent),
           NEW events \in Seq(UpstreamEvent), Reported(x, before)
    PROVE  Reported(FoldLeft(OnEvent, x, events), before \o events)
<1> DEFINE n == Len(events)
           upto(k) == before \o SubSeq(events, 1, k)
<1>1. n \in Nat
  OBVIOUS
<1>2. PICK f \in [0 .. n -> Steady(v)] : EventChain(f, x, events)
  BY OnEventKeeps, EventsSteps
<1>3. ASSUME NEW k \in 0 .. n
      PROVE  /\ upto(k) \in Seq(UpstreamEvent) /\ Len(upto(k)) = Len(before) + k
             /\ \A i \in 1 .. Len(before) : upto(k)[i] = before[i]
             /\ \A i \in 1 .. k : upto(k)[Len(before) + i] = events[i]
  <2>1. SubSeq(events, 1, k) \in Seq(UpstreamEvent) /\ Len(SubSeq(events, 1, k)) = k
        /\ \A i \in 1 .. k : SubSeq(events, 1, k)[i] = events[i]
    OBVIOUS
  <2> DEFINE s == SubSeq(events, 1, k)
  <2> HIDE DEF s
  <2>2. s \in Seq(UpstreamEvent) /\ Len(s) = k /\ \A i \in 1 .. k : s[i] = events[i]
    BY <2>1 DEF s
  <2>3. before \o s \in Seq(UpstreamEvent) /\ Len(before \o s) = Len(before) + k
        /\ Len(before) \in Nat /\ k \in Nat
    BY <2>2
  <2>4. \A i \in 1 .. Len(before) : (before \o s)[i] = before[i]
    BY <2>2
  <2>5. \A i \in 1 .. k : (before \o s)[Len(before) + i] = s[i]
    BY <2>2
  <2> QED BY <2>2, <2>3, <2>4, <2>5 DEF s
<1>4. ASSUME NEW k \in Nat, k + 1 <= n
      PROVE  upto(k + 1) = Append(upto(k), events[k + 1])
  <2>1. k \in 0 .. n /\ k + 1 \in 0 .. n /\ k + 1 \in 1 .. n /\ events[k + 1] \in UpstreamEvent
    BY <1>1, <1>4
  <2> DEFINE s == upto(k)
             t == upto(k + 1)
             e == events[k + 1]
             b == Len(before)
  <2>2. /\ s \in Seq(UpstreamEvent) /\ Len(s) = b + k
        /\ \A i \in 1 .. b : s[i] = before[i]
        /\ \A i \in 1 .. k : s[b + i] = events[i]
    BY <1>3, <2>1
  <2>3. /\ t \in Seq(UpstreamEvent) /\ Len(t) = b + (k + 1)
        /\ \A i \in 1 .. b : t[i] = before[i]
        /\ \A i \in 1 .. k + 1 : t[b + i] = events[i]
    BY <1>3, <2>1
  <2>4. b \in Nat /\ e \in UpstreamEvent
    BY <2>1
  <2> HIDE DEF s, t, e, b, upto
  <2>5. /\ Append(s, e) \in Seq(UpstreamEvent) /\ Len(Append(s, e)) = b + k + 1
        /\ \A i \in 1 .. b + k : Append(s, e)[i] = s[i]
        /\ Append(s, e)[b + k + 1] = e
    BY <2>2, <2>4
  <2>6. ASSUME NEW i \in 1 .. b + k + 1 PROVE t[i] = Append(s, e)[i]
    <3>1. CASE i \in 1 .. b
      <4>1. i \in 1 .. b + k
        BY <2>4, <3>1
      <4> QED BY <2>2, <2>3, <2>5, <3>1, <4>1
    <3>2. CASE i \in b + 1 .. b + k
      <4>1. i - b \in 1 .. k /\ i - b \in 1 .. k + 1 /\ b + (i - b) = i /\ i \in 1 .. b + k
        BY <2>4, <3>2
      <4>2. s[i] = events[i - b]
        BY <2>2, <4>1
      <4>3. t[i] = events[i - b]
        BY <2>3, <4>1
      <4> QED BY <2>5, <4>1, <4>2, <4>3
    <3>3. CASE i = b + k + 1
      <4>1. k + 1 \in 1 .. k + 1 /\ b + (k + 1) = i
        BY <2>4, <3>3
      <4>2. t[i] = events[k + 1]
        BY <2>3, <4>1
      <4> QED BY <2>5, <3>3, <4>2 DEF e
    <3>4. i \in 1 .. b \/ i \in b + 1 .. b + k \/ i = b + k + 1
      BY <2>4
    <3> QED BY <3>1, <3>2, <3>3, <3>4
  <2>7. Len(t) = Len(Append(s, e))
    BY <2>3, <2>4, <2>5
  <2>8. t = Append(s, e)
    <3>1. \A i \in 1 .. Len(t) : t[i] = Append(s, e)[i]
      BY <2>5, <2>6, <2>7
    <3> QED BY <2>3, <2>5, <2>7, <3>1, SameSeq
  <2> QED BY <2>8 DEF s, t, e
<1>5. upto(0) = before /\ upto(n) = before \o events
  <2>1. SubSeq(events, 1, 0) = <<>> /\ SubSeq(events, 1, n) = events /\ before \o <<>> = before
    OBVIOUS
  <2> QED BY <2>1
<1> HIDE DEF upto, n
<1> DEFINE T == {k \in Nat : k <= n => Reported(f[k], upto(k))}
<1>6. /\ f[0] = x /\ FoldLeft(OnEvent, x, events) = f[n]
      /\ \A k \in 1 .. n : f[k] = OnEvent(f[k - 1], events[k])
  BY <1>2 DEF EventChain, n
<1>7. 0 \in T
  BY <1>5, <1>6
<1>8. ASSUME NEW k \in Nat, Reported(f[k], upto(k)), k + 1 <= n
      PROVE  Reported(f[k + 1], upto(k + 1))
  <2>1. k \in 0 .. n /\ k + 1 \in 1 .. n /\ (k + 1) - 1 = k
    BY <1>1, <1>8
  <2>2. f[k] \in Steady(v) /\ events[k + 1] \in UpstreamEvent /\ upto(k) \in Seq(UpstreamEvent)
    BY <1>2, <1>3, <2>1 DEF n
  <2>3. Reported(OnEvent(f[k], events[k + 1]), Append(upto(k), events[k + 1]))
    BY <1>8, <2>2, OnEventReports
  <2>4. f[k + 1] = OnEvent(f[k], events[k + 1])
    BY <1>6, <2>1
  <2> QED BY <1>4, <1>8, <2>3, <2>4
<1>9. T \in SUBSET Nat /\ \A k \in T : k + 1 \in T
  <2>1. \A k \in T : k + 1 \in T
    BY <1>1, <1>8
  <2> QED BY <2>1
<1> HIDE DEF T
<1>10. n \in T
  BY <1>1, <1>7, <1>9, Induction
<1>11. Reported(f[n], upto(n))
  BY <1>10 DEF T
<1> QED BY <1>5, <1>6, <1>11

-----------------------------------------------------------------------------
(* The end of an answer: the one event that tells the reason.              *)

\* No event of the queue tells a reason outside R.
TellsOnly(queue, R) ==
    \A i \in DOMAIN queue : queue[i].ev = "message_delta" => queue[i].tag \in R

\* Where a message that has told its reason stands.
AfterReason == {"delta", "stopped"}

\* A message that has not told its reason has owed no reason.
LEMMA NoReasonYet ==
    ASSUME NEW v \in View, NEW w \in View, NEW queue \in Seq(Item), Flow(v, queue, w),
           w.phase \notin AfterReason
    PROVE  v.phase \notin AfterReason /\ TellsOnly(queue, {})
<1> DEFINE n == Len(queue)
<1>1. n \in Nat /\ DOMAIN queue = 1 .. n
  OBVIOUS
<1>2. PICK f \in [0 .. n -> View] : Leads(f, v, queue, w)
  BY DEF Flow
<1>3. /\ f[0] = v /\ f[n] = w
      /\ \A k \in 1 .. n : Legal(f[k - 1], queue[k]) /\ f[k] = After(f[k - 1], queue[k])
  BY <1>2 DEF Leads
<1> HIDE DEF n
<1>4. ASSUME NEW k \in 1 .. n
      PROVE  /\ f[k - 1].phase \in AfterReason => f[k].phase \in AfterReason
             /\ queue[k].ev = "message_delta" => f[k].phase \in AfterReason
  <2>1. Legal(f[k - 1], queue[k]) /\ f[k] = After(f[k - 1], queue[k])
    BY <1>3
  <2>2. \A u, item : After(u, item).phase = PhaseAfter(u.phase, item.ev)
    BY DEF After
  <2>3. f[k].phase = PhaseAfter(f[k - 1].phase, queue[k].ev)
    BY <2>1, <2>2
  <2>4. ASSUME f[k - 1].phase \in AfterReason PROVE f[k].phase \in AfterReason
    <3>1. queue[k].ev = "message_stop"
      BY <2>1, <2>4 DEF Legal, AfterReason
    <3> QED BY <2>3, <3>1 DEF PhaseAfter, AfterReason
  <2>5. ASSUME queue[k].ev = "message_delta" PROVE f[k].phase \in AfterReason
    BY <2>3, <2>5 DEF PhaseAfter, AfterReason
  <2> QED BY <2>4, <2>5
<1>5. ASSUME NEW m \in 0 .. n, f[m].phase \in AfterReason PROVE FALSE
  <2> DEFINE T == {k \in Nat : m + k <= n => f[m + k].phase \in AfterReason}
  <2>1. 0 \in T
    BY <1>5
  <2>2. ASSUME NEW k \in Nat, f[m + k].phase \in AfterReason, m + k + 1 <= n
        PROVE  f[m + (k + 1)].phase \in AfterReason
    <3>1. m + k + 1 \in 1 .. n /\ (m + k + 1) - 1 = m + k /\ m + (k + 1) = m + k + 1
      BY <1>1, <2>2
    <3> QED BY <1>4, <2>2, <3>1
  <2>3. \A k \in T : k + 1 \in T
    <3>1. m \in Nat /\ n \in Nat
      BY <1>1
    <3>2. \A k \in Nat : m + (k + 1) <= n => m + k <= n /\ m + k + 1 <= n
      BY <3>1
    <3> QED BY <2>2, <3>2
  <2>4. T \in SUBSET Nat
    OBVIOUS
  <2> HIDE DEF T
  <2>5. n - m \in Nat /\ m + (n - m) = n /\ m + (n - m) <= n
    BY <1>1
  <2>6. n - m \in T
    BY <2>1, <2>3, <2>4, <2>5, Induction
  <2>7. f[m + (n - m)].phase \in AfterReason
    BY <2>5, <2>6 DEF T
  <2> QED BY <1>3, <2>5, <2>7
<1>6. v.phase \notin AfterReason
  <2>1. 0 \in 0 .. n
    BY <1>1
  <2> QED BY <1>3, <1>5, <2>1
<1>7. TellsOnly(queue, {})
  <2> SUFFICES ASSUME NEW k \in 1 .. n, queue[k].ev = "message_delta" PROVE FALSE
    BY <1>1 DEF TellsOnly
  <2>1. k \in 0 .. n
    BY <1>1
  <2> QED BY <1>4, <1>5, <2>1
<1> QED BY <1>6, <1>7

LEMMA EndTells ==
    ASSUME NEW v \in View, NEW x \in Writing(v)
    PROVE  /\ TellsOnly(EndMessage(x).out, {StopReason(x)})
           /\ EndMessage(x).thinkAt = x.thinkAt
<1> DEFINE y == Stop(x, OpenBlocks(x))
           r == StopReason(x)
           d == [ev |-> "message_delta", at |-> {}, tag |-> r, text |-> <<>>]
           e == [ev |-> "message_stop", at |-> {}, tag |-> "", text |-> <<>>]
           z == Emit(y, "message_delta", {}, r, <<>>)
<1>1. y \in Writing(v) /\ Apart(x, y)
  <2>1. CASE OpenBlocks(x) = {}
    BY <2>1 DEF Stop, Apart
  <2>2. CASE OpenBlocks(x) # {}
    <3>1. y = Emit(Stopped(x, OpenBlocks(x)), "stop", OpenBlocks(x), "", <<>>)
      BY <2>2 DEF Stop
    <3>2. OpenBlocks(x) \in SUBSET OpenBlocks(x)
      OBVIOUS
    <3> QED BY <2>2, <3>1, <3>2, CloseTells
  <2> QED BY <2>1, <2>2
<1>2. EndMessage(x) = Emit(z, "message_stop", {}, "", <<>>)
  BY DEF EndMessage
<1> HIDE DEF y
<1>3. y \in Context /\ y.out \in Seq(Item) /\ y.thinkAt = x.thinkAt
  BY <1>1 DEF Writing, Context, Apart
<1>4. TellsOnly(y.out, {})
  <2>1. PICK w \in View : Flow(v, y.out, w) /\ Mirrors(w, y)
    BY <1>1 DEF Writing, Told
  <2>2. w.phase \notin AfterReason
    BY <2>1 DEF Mirrors, AfterReason
  <2> QED BY <1>3, <2>1, <2>2, NoReasonYet
<1> DEFINE one == Append(y.out, d)
           two == Append(one, e)
<1>5. EndMessage(x).out = two /\ EndMessage(x).thinkAt = x.thinkAt
  <2>1. z = [y EXCEPT !.out = one]
    BY <1>3 DEF Emit
  <2> HIDE DEF one, z
  <2>2. DOMAIN y = Fields
    BY <1>3, ContextFields
  <2>3. DOMAIN z = Fields /\ z.out = one /\ z.thinkAt = y.thinkAt
    BY <2>1, <2>2 DEF Fields
  <2>4. EndMessage(x) = [z EXCEPT !.out = Append(z.out, e)]
    BY <1>2 DEF Emit
  <2> HIDE DEF e
  <2> QED BY <1>3, <2>3, <2>4 DEF Fields
<1> DEFINE m == Len(y.out)
<1>6. /\ d.ev = "message_delta" /\ d.tag = r /\ e.ev = "message_stop"
      /\ m \in Nat /\ DOMAIN y.out = 1 .. m
  BY <1>3
<1>7. /\ DOMAIN two = 1 .. m + 2
      /\ \A i \in 1 .. m : two[i] = y.out[i]
      /\ two[m + 1] = d /\ two[m + 2] = e
  <2> DEFINE q == y.out
  <2>1. q \in Seq(Item) /\ Len(q) = m /\ m \in Nat
    BY <1>3
  <2> HIDE DEF q, d, e, m
  <2>2. /\ Append(Append(q, d), e) = two
    BY DEF q
  <2>3. DOMAIN Append(Append(q, d), e) = 1 .. m + 2
    BY <2>1
  <2>4. \A i \in 1 .. m : Append(Append(q, d), e)[i] = q[i]
    BY <2>1
  <2>5. Append(Append(q, d), e)[m + 1] = d
    BY <2>1
  <2>6. Append(Append(q, d), e)[m + 2] = e
    BY <2>1
  <2> HIDE DEF two
  <2> QED BY <2>2, <2>3, <2>4, <2>5, <2>6 DEF q
<1> HIDE DEF two, d, e, m, r
<1>8. TellsOnly(two, {r})
  <2> SUFFICES ASSUME NEW i \in 1 .. m + 2, two[i].ev = "message_delta"
               PROVE  two[i].tag = r
    BY <1>7 DEF TellsOnly
  <2>1. i \in 1 .. m \/ i = m + 1 \/ i = m + 2
    BY <1>6
  <2>2. CASE i \in 1 .. m
    BY <1>4, <1>6, <1>7, <2>2 DEF TellsOnly
  <2> QED BY <1>6, <1>7, <2>1, <2>2
<1> QED BY <1>5, <1>8 DEF r
-----------------------------------------------------------------------------
(* The reasons that the property allows.                                   *)

Rightly(x, events) ==
    {r \in Reasons : \/ r = WholeStopReason(events)
                     \/ r = "max_tokens" /\ ~Called(events) /\ x.thinkAt # 0}

LEMMA AlikeKeeps ==
    ASSUME NEW events, NEW x \in Context, NEW y, Reported(x, events), Alike(x, y)
    PROVE  Reported(y, events) /\ DOMAIN y = Fields
<1>1. y.reason = x.reason /\ y.hasTool = x.hasTool /\ y.tools = x.tools /\ DOMAIN y = Fields
  BY ContextFields DEF Alike
<1> QED BY <1>1 DEF Reported

LEMMA WholeIs ==
    ASSUME NEW x \in Context, NEW events, Reported(x, events)
    PROVE  StopReason(x) = WholeStopReason(events) /\ StopReason(x) \in Reasons
<1>1. x.reason \in Reason
  BY DEF Context
<1>2. WholeStopReason(events) = IF Stem(events) = "end_turn" /\ Called(events)
                                THEN "tool_use" ELSE Stem(events)
  BY DEF WholeStopReason, Stem, Called
<1>3. StopReason(x) = IF x.reason # "none" THEN x.reason
                      ELSE IF x.hasTool THEN "tool_use" ELSE "end_turn"
  BY DEF StopReason
<1>4. StopReason(x) \in Reasons
  BY <1>1, <1>3 DEF Reason, Reasons
<1>5. CASE x.reason # "none"
  <2>1. Stem(events) = x.reason /\ x.reason # "end_turn"
    BY <1>1, <1>5 DEF Reported, Reason
  <2> QED BY <1>2, <1>3, <1>4, <1>5, <2>1
<1>6. CASE x.reason = "none"
  <2>1. Stem(events) = "end_turn" /\ x.hasTool = Called(events)
    BY <1>6 DEF Reported
  <2> QED BY <1>2, <1>3, <1>4, <1>6, <2>1
<1> QED BY <1>5, <1>6

\* A tool's call has a block, so what is thinking alone has no call.
LEMMA ThinkingAloneReports ==
    ASSUME NEW v \in View, NEW x \in Writing(v), NEW events, Reported(x, events)
    PROVE  StopReason(TextAfterThinking(x)) \in Rightly(TextAfterThinking(x), events)
<1> DEFINE y == [x EXCEPT !.reason = "max_tokens"]
           t == TextDelta(y, <<"s">>)
           alone == /\ x.thinking /\ x.thinkAt # 0
                    /\ \A i \in DOMAIN x.blocks : x.blocks[i].type = "thinking"
<1>1. x \in Context /\ PlacesOK(x) /\ "max_tokens" \in Reason
  BY DEF Writing, Reason
<1>2. TextAfterThinking(x) = IF alone THEN t ELSE x
  BY DEF TextAfterThinking
<1>3. CASE ~alone
  <2>1. StopReason(x) \in Rightly(x, events)
    BY <1>1, WholeIs DEF Rightly
  <2> QED BY <1>2, <1>3, <2>1
<1>4. CASE alone
  <2>1. ~Called(events)
    <3> SUFFICES ASSUME Called(events) PROVE FALSE
      OBVIOUS
    <3>1. x.hasTool
      BY DEF Reported
    <3>2. PICK i \in ToolId : x.tools[i] # 0
      BY <3>1 DEF Reported
    <3>3. x.tools[i] \in 0 .. Len(x.blocks) /\ x.blocks[x.tools[i]].type = "tool_use"
      BY <1>1, <3>2 DEF PlacesOK
    <3>4. x.tools[i] \in DOMAIN x.blocks
      <4>1. Len(x.blocks) \in Nat /\ DOMAIN x.blocks = 1 .. Len(x.blocks)
        BY <1>1, ContextBlocks
      <4> QED BY <3>2, <3>3, <4>1
    <3> QED BY <1>4, <3>3, <3>4
  <2>2. /\ y \in Context /\ y.out = x.out /\ y.blocks = x.blocks /\ y.reason = "max_tokens"
        /\ y.started = x.started /\ y.textAt = x.textAt /\ y.thinkAt = x.thinkAt
        /\ y.tools = x.tools
    BY <1>1 DEF Context
  <2> HIDE DEF y
  <2>3. y \in Writing(v)
    BY <2>2, Quiet
  <2>4. <<"s">> \in Seq(Char)
    BY DEF Char
  <2>5. t.thinkAt = x.thinkAt
    BY <2>2, <2>3, <2>4, TextDeltaKeeps DEF Beside
  <2>6. t.reason = "max_tokens"
    BY <2>2, TextDeltaAlike, ContextFields DEF Alike
  <2> HIDE DEF t
  <2>7. StopReason(t) = "max_tokens"
    BY <2>6 DEF StopReason
  <2>8. StopReason(t) \in Rightly(t, events)
    BY <1>4, <2>1, <2>5, <2>7 DEF Rightly, Reasons
  <2> QED BY <1>2, <1>4, <2>8
<1> QED BY <1>3, <1>4

LEMMA FinalReports ==
    ASSUME NEW v \in View, NEW x \in Steady(v), NEW events, Reported(x, events)
    PROVE  TellsOnly(Final(x).out, Rightly(Final(x), events))
<1> DEFINE y == IF ProducedAnyContent(x) THEN x ELSE MarkFailure(x, "empty_response")
           c == CloseReasoning(y)
           f == FlushAtEnd(c)
           t == TextAfterThinking(f)
<1>1. y \in Steady(v) /\ Reported(y, events)
  <2>1. "empty_response" \in Failure
    BY DEF Failure
  <2>2. y \in Steady(v)
    BY <2>1, MarkFailureKeeps
  <2>3. Alike(x, y)
    BY FailureAlike, AlikeFields
  <2> QED BY <2>2, <2>3, SteadyIs, AlikeKeeps
<1>2. Final(x) = IF y.failure # "none" THEN EndInError(y) ELSE EndMessage(t)
  BY DEF Final
<1> HIDE DEF y
<1>3. CASE y.failure # "none"
  <2> DEFINE e == EndInError(y)
  <2>1. Concluded(v, e) /\ e.failure # "none"
    BY <1>1, <1>3, EndInErrorKeeps
  <2>2. Final(x) = e
    BY <1>2, <1>3
  <2> HIDE DEF e
  <2>3. PICK w \in View : Flow(v, e.out, w) /\ w.phase = "failed"
    BY <2>1 DEF Concluded
  <2>4. e.out \in Seq(Item) /\ w.phase \notin AfterReason
    BY <2>1, <2>3 DEF Concluded, Context, AfterReason
  <2>5. TellsOnly(e.out, {})
    BY <2>3, <2>4, NoReasonYet
  <2> QED BY <2>2, <2>5 DEF TellsOnly
<1>4. CASE y.failure = "none"
  <2>1. c \in Steady(v) /\ ~c.reasoning /\ c.failure = "none"
    BY <1>1, <1>4, CloseReasoningKeeps
  <2>2. Reported(c, events)
    BY <1>1, SteadyIs, ThinkingAlike, AlikeKeeps
  <2> HIDE DEF c
  <2>3. f \in Writing(v) /\ ~f.reasoning
    BY <2>1, FlushAtEndKeeps
  <2>4. Reported(f, events)
    BY <2>1, <2>2, SteadyIs, FlushesAlike, AlikeKeeps
  <2> HIDE DEF f
  <2>5. t \in Writing(v)
    BY <2>3, TextAfterThinkingKeeps
  <2>6. StopReason(t) \in Rightly(t, events)
    BY <2>3, <2>4, ThinkingAloneReports
  <2> HIDE DEF t
  <2>7. TellsOnly(EndMessage(t).out, {StopReason(t)}) /\ EndMessage(t).thinkAt = t.thinkAt
    BY <2>5, EndTells
  <2>8. Rightly(EndMessage(t), events) = Rightly(t, events)
    BY <2>7 DEF Rightly
  <2>9. TellsOnly(EndMessage(t).out, Rightly(t, events))
    BY <2>6, <2>7 DEF TellsOnly
  <2> QED BY <1>2, <1>4, <2>8, <2>9
<1> QED BY <1>3, <1>4

-----------------------------------------------------------------------------
(* The invariant: what was translated is known, and what is told is right. *)

ReasonRight ==
    IF finished
    THEN /\ TellsOnly(pending, Rightly(ctx, seen))
         /\ client.phase \in AfterReason => client.reason \in Rightly(ctx, seen)
    ELSE Reported(ctx, seen)

ReasonsInv ==
    /\ StreamInv /\ seen \in Seq(UpstreamEvent)
    /\ client.phase # "gone" => ReasonRight

LEMMA ReceiveReason ==
    ASSUME NEW c \in Client, NEW item
    PROVE  /\ item.ev = "message_delta" => Receive(c, item).reason = item.tag
           /\ item.ev # "message_delta" => Receive(c, item).reason = c.reason
           /\ item.ev \notin {"message_delta", "message_stop"} =>
                 (Receive(c, item).phase \in AfterReason => c.phase \in AfterReason)
<1>1. DOMAIN c = {"phase", "blocks", "reason"}
  BY DEF Client
<1> DEFINE i == CHOOSE k \in item.at : TRUE
<1>2. CASE item.ev = "message_start"
  BY <1>1, <1>2 DEF Receive, AfterReason
<1>3. CASE item.ev = "start"
  BY <1>1, <1>3 DEF Receive
<1>4. CASE item.ev \in {"text", "thinking", "json"}
  <2>1. Receive(c, item) = [c EXCEPT !.blocks[i].text = @ \o item.text]
    BY <1>4 DEF Receive
  <2> HIDE DEF i
  <2> QED BY <1>1, <1>4, <2>1
<1>5. CASE item.ev = "signature"
  <2>1. Receive(c, item) = [c EXCEPT !.blocks[i].signatures = @ + 1]
    BY <1>5 DEF Receive
  <2> HIDE DEF i
  <2> QED BY <1>1, <1>5, <2>1
<1>6. CASE item.ev = "stop"
  <2>1. Receive(c, item) = [c EXCEPT !.blocks[i].open = FALSE]
    BY <1>6 DEF Receive
  <2> HIDE DEF i
  <2> QED BY <1>1, <1>6, <2>1
<1>7. CASE item.ev = "message_delta"
  BY <1>1, <1>7 DEF Receive
<1>8. CASE item.ev = "message_stop"
  BY <1>1, <1>8 DEF Receive
<1>9. CASE item.ev \notin {"message_start", "start", "text", "thinking", "json", "signature",
                           "stop", "message_delta", "message_stop"}
  BY <1>1, <1>9 DEF Receive, AfterReason
<1> QED BY <1>2, <1>3, <1>4, <1>5, <1>6, <1>7, <1>8, <1>9

LEMMA TellsCons ==
    ASSUME NEW queue \in Seq(Item), NEW item \in Item, item.ev # "message_delta", NEW R,
           TellsOnly(queue, R)
    PROVE  TellsOnly(<<item>> \o queue, R) /\ <<item>> \o queue \in Seq(Item)
<1> DEFINE more == <<item>> \o queue
<1>1. /\ more \in Seq(Item) /\ DOMAIN more = 1 .. Len(queue) + 1 /\ more[1] = item
      /\ \A k \in 2 .. Len(queue) + 1 : more[k] = queue[k - 1]
      /\ Len(queue) \in Nat /\ DOMAIN queue = 1 .. Len(queue)
  OBVIOUS
<1> HIDE DEF more
<1>2. ASSUME NEW k \in 1 .. Len(queue) + 1, more[k].ev = "message_delta" PROVE more[k].tag \in R
  <2>1. k # 1
    BY <1>1, <1>2
  <2>2. k \in 2 .. Len(queue) + 1 /\ k - 1 \in 1 .. Len(queue)
    BY <1>1, <2>1
  <2>3. more[k] = queue[k - 1]
    BY <1>1, <2>2
  <2> QED BY <1>1, <1>2, <2>2, <2>3 DEF TellsOnly
<1> QED BY <1>1, <1>2 DEF TellsOnly, more

LEMMA TellsTail ==
    ASSUME NEW queue \in Seq(Item), queue # <<>>, NEW R, TellsOnly(queue, R)
    PROVE  /\ TellsOnly(Tail(queue), R) /\ Tail(queue) \in Seq(Item) /\ Head(queue) \in Item
           /\ Head(queue).ev = "message_delta" => Head(queue).tag \in R
<1> DEFINE n == Len(queue)
           rest == Tail(queue)
<1>1. /\ n \in Nat \ {0} /\ rest \in Seq(Item) /\ Len(rest) = n - 1
      /\ Head(queue) = queue[1] /\ Head(queue) \in Item
      /\ \A k \in 1 .. n - 1 : rest[k] = queue[k + 1]
  BY HeadTailProperties, EmptySeq
<1>2. DOMAIN queue = 1 .. n /\ DOMAIN rest = 1 .. n - 1
  BY <1>1
<1> HIDE DEF n, rest
<1>3. 1 \in 1 .. n /\ \A k \in 1 .. n - 1 : k + 1 \in 1 .. n
  BY <1>1
<1> QED BY <1>1, <1>2, <1>3 DEF TellsOnly, rest
-----------------------------------------------------------------------------
(* Each step keeps the reason right.                                       *)

LEMMA NewReports ==
    ASSUME NEW thinking \in BOOLEAN
    PROVE  Reported(NewContext(thinking), <<>>)
<1>1. ~Called(<<>>)
  <2>1. DOMAIN <<>> = {}
    OBVIOUS
  <2> QED BY <2>1 DEF Called
<1>2. NewContext(thinking).reason = "none" /\ NewContext(thinking).hasTool = FALSE
  BY DEF NewContext
<1> DEFINE c == NewContext(thinking)
<1>3. c.reason = "none" /\ c.hasTool = FALSE
  BY <1>2
<1> HIDE DEF c
<1>4. Called(<<>>) = FALSE
  <2>1. Called(<<>>) \in BOOLEAN
    BY DEF Called
  <2> QED BY <1>1, <2>1
<1>5. c.hasTool = Called(<<>>)
  BY <1>3, <1>4
<1>6. Stem(<<>>) = IF c.reason = "none" THEN "end_turn" ELSE c.reason
  BY <1>3, NoStem
<1>7. c.hasTool => \E t \in ToolId : c.tools[t] # 0
  BY <1>3
<1>8. Reported(c, <<>>)
  BY <1>5, <1>6, <1>7 DEF Reported
<1> QED BY <1>8 DEF c

LEMMA InitialAlike == ASSUME NEW x PROVE Alike(x, Initial(x))
<1> DEFINE b == [x EXCEPT !.started = TRUE]
           y == Emit(b, "message_start", {}, "", <<>>)
           m == Len(y.blocks) + 1
           u == [y EXCEPT !.textAt = m]
<1>1. Initial(x) = IF x.thinking THEN y ELSE StartBlock(u, "text")
  BY DEF Initial
<1>2. Alike(x, b)
  BY DEF Alike, Fields
<1> HIDE DEF b
<1>3. Alike(x, y)
  BY <1>2, EmitAlike, AlikeTwice
<1> HIDE DEF y
<1>4. Alike(x, u)
  BY <1>3, AlikeFields, AlikeTwice
<1> HIDE DEF u
<1>5. Alike(x, StartBlock(u, "text"))
  BY <1>4, StartAlike, AlikeTwice
<1> QED BY <1>1, <1>3, <1>5

LEMMA OwedAlike == ASSUME NEW x, NEW queue PROVE Alike(x, Owed(x, queue))
BY AlikeFields DEF Owed

LEMMA ReasonsStart == StreamInit => ReasonsInv
<1> SUFFICES ASSUME StreamInit PROVE ReasonsInv
  OBVIOUS
<1>1. StreamInv /\ seen = <<>> /\ ~finished
  BY StreamStart DEF StreamInit
<1>2. seen \in Seq(UpstreamEvent)
  BY <1>1
<1>3. PICK thinking \in BOOLEAN :
         IF way = "live" THEN ctx = Owed(Initial(NewContext(thinking)), <<>>)
         ELSE ctx = NewContext(thinking)
  BY DEF StreamInit, Owed
<1> DEFINE f == NewContext(thinking)
<1>4. f \in Context /\ Reported(f, seen)
  BY <1>1, NewReports, NewIsFresh, FreshIs
<1> HIDE DEF f
<1>5. Alike(f, ctx)
  BY <1>3, InitialAlike, OwedAlike, AlikeTwice, AlikeFields DEF f
<1>6. Reported(ctx, seen)
  BY <1>4, <1>5, AlikeKeeps
<1> QED BY <1>1, <1>2, <1>6 DEF ReasonsInv, ReasonRight

LEMMA DeliverReasons ==
    ASSUME StreamInv, Deliver, NEW R, TellsOnly(pending, R),
           client.phase \in AfterReason => client.reason \in R
    PROVE  /\ TellsOnly(pending', R)
           /\ client'.phase \in AfterReason => client'.reason \in R
<1> DEFINE v == ViewOf(client)
           item == Head(pending)
           One(ev, i) == [ev |-> ev, at |-> {i}, tag |-> "", text |-> <<>>]
<1>1. /\ pending # <<>> /\ pending \in Seq(Item) /\ client \in Client /\ ctx \in Context
      /\ v \in View /\ v.phase = client.phase
  BY DeliverStays, ViewIs DEF StreamInv, StreamTypes
<1>2. PICK w \in View : Flow(v, pending, w)
  <2>1. client.phase # "gone"
    BY DEF Deliver
  <2>2. Live \/ Over
    BY <1>1, <2>1 DEF StreamInv, Gone, Linked, Unbegun, Held
  <2>3. Owed(ctx, pending).out = pending
    BY <1>1, OwedIs
  <2>4. Told(v, Owed(ctx, pending)) \/ Concluded(v, Owed(ctx, pending))
    BY <2>2, SteadyIs DEF Live, Over
  <2> QED BY <2>3, <2>4 DEF Told, Concluded
<1>3. /\ Legal(v, item) /\ item \in Item
      /\ Tail(pending) \in Seq(Item) /\ TellsOnly(Tail(pending), R)
      /\ item.ev = "message_delta" => item.tag \in R
  BY <1>1, <1>2, FlowHead, TellsTail
<1>4. CASE item.ev # "stop"
  <2>1. client' = Receive(client, item) /\ pending' = Tail(pending)
    BY <1>4 DEF Deliver
  <2> HIDE DEF item, v
  <2>2. ASSUME client'.phase \in AfterReason PROVE client'.reason \in R
    <3>1. CASE item.ev = "message_delta"
      BY <1>1, <1>3, <2>1, <3>1, ReceiveReason
    <3>2. CASE item.ev = "message_stop"
      <4>1. client.phase \in AfterReason
        BY <1>1, <1>3, <3>2 DEF Legal, AfterReason
      <4>2. client'.reason = client.reason
        BY <1>1, <2>1, <3>2, ReceiveReason
      <4> QED BY <4>1, <4>2
    <3>3. CASE item.ev \notin {"message_delta", "message_stop"}
      <4>1. client.phase \in AfterReason
        BY <1>1, <2>1, <2>2, <3>3, ReceiveReason
      <4>2. client'.reason = client.reason
        BY <1>1, <2>1, <3>3, ReceiveReason
      <4> QED BY <4>1, <4>2
    <3> QED BY <3>1, <3>2, <3>3
  <2> QED BY <1>3, <2>1, <2>2
<1>5. CASE item.ev = "stop"
  <2> DEFINE left(i) == IF item.at = {i} THEN Tail(pending)
                        ELSE <<[item EXCEPT !.at = @ \ {i}]>> \o Tail(pending)
  <2>1. PICK i \in item.at :
           \/ client' = Receive(client, One("signature", i)) /\ pending' = <<One("stop", i)>> \o left(i)
           \/ client' = Receive(client, One("stop", i)) /\ pending' = left(i)
    BY <1>5 DEF Deliver
  <2>2. i \in Nat
    BY <1>3 DEF Item
  <2>3. TellsOnly(left(i), R) /\ left(i) \in Seq(Item)
    <3> DEFINE less == [item EXCEPT !.at = @ \ {i}]
    <3>1. less \in Item /\ less.ev = "stop"
      BY <1>3, <1>5 DEF Item
    <3> HIDE DEF less
    <3>2. TellsOnly(<<less>> \o Tail(pending), R) /\ <<less>> \o Tail(pending) \in Seq(Item)
      BY <1>3, <3>1, TellsCons
    <3> QED BY <1>3, <3>2 DEF less
  <2> HIDE DEF left, item
  <2>4. One("stop", i) \in Item /\ One("stop", i).ev = "stop" /\ One("signature", i).ev = "signature"
    <3>1. "stop" \in Event /\ "" \in Tag /\ {i} \in SUBSET Nat
      BY <2>2 DEF Event, Tag
    <3> QED BY <3>1, NoText, ItemIs
  <2> HIDE DEF One
  <2>5. TellsOnly(<<One("stop", i)>> \o left(i), R)
    BY <2>3, <2>4, TellsCons
  <2>6. TellsOnly(pending', R)
    BY <2>1, <2>3, <2>5
  <2>7. ASSUME NEW one, one.ev \in {"stop", "signature"}, client' = Receive(client, one)
        PROVE  client'.phase \in AfterReason => client'.reason \in R
    BY <1>1, <2>7, ReceiveReason
  <2>8. client'.phase \in AfterReason => client'.reason \in R
    BY <2>1, <2>4, <2>7
  <2> QED BY <2>6, <2>8
<1> QED BY <1>4, <1>5

\* The events of a chunk are translated, and what they say is known.
LEMMA TranslatedReports ==
    ASSUME StreamInv, Waiting, seen \in Seq(UpstreamEvent), Reported(ctx, seen),
           NEW events \in Seq(UpstreamEvent)
    PROVE  Translated(ctx, events) \in Context /\ Reported(Translated(ctx, events), seen \o events)
<1> DEFINE v == ViewOf(client)
           x == Translated(ctx, events)
<1>1. ctx \in Context /\ v \in View
  BY WaitingIs DEF StreamTypes
<1>2. x \in Context
  BY TranslatedKeeps, SteadyIs, FreshIs
<1>3. CASE ctx \in Steady(v)
  <2>1. x = FoldLeft(OnEvent, ctx, events)
    BY <1>3, SteadyIs DEF Translated
  <2>2. Reported(FoldLeft(OnEvent, ctx, events), seen \o events)
    BY <1>1, <1>3, EventsReport
  <2> QED BY <1>2, <2>1, <2>2
<1>4. CASE ctx \in Fresh /\ way = "buffered" /\ v = Blank0 /\ events = <<>>
  <2>1. x = FoldLeft(OnEvent, ctx, <<>>)
    BY <1>4 DEF Translated
  <2>2. seen \o events = seen
    BY <1>4
  <2> QED BY <1>2, <2>1, <2>2, NoEvents
<1>5. CASE ctx \in Fresh /\ way = "buffered" /\ v = Blank0 /\ events # <<>>
  <2> DEFINE y == Initial(ctx)
  <2>1. x = FoldLeft(OnEvent, y, events)
    BY <1>5, FreshIs DEF Translated
  <2>2. y \in Steady(v)
    BY <1>5, InitialKeeps
  <2>3. Reported(y, seen)
    BY <1>1, InitialAlike, AlikeKeeps
  <2> HIDE DEF y
  <2>4. Reported(FoldLeft(OnEvent, y, events), seen \o events)
    BY <1>1, <2>2, <2>3, EventsReport
  <2> QED BY <1>2, <2>1, <2>4
<1> QED BY <1>3, <1>4, <1>5, WaitingIs

\* A chunk arrives.
LEMMA ChunkReasons ==
    ASSUME ReasonsInv, Waiting, NEW cells \in Seq(Cell), NEW k \in Nat, k <= Len(cells),
           Chunk(cells, k), StreamInv'
    PROVE  ReasonsInv'
<1> DEFINE n == Len(cells) - k
           run == DecodeAll(Feed(decoder, SubSeq(cells, 1, n)))
           x == Translated(ctx, run.events)
<1>1. /\ seen' = seen \o run.events /\ Release(x) /\ finished' = finished
      /\ client' = client
  BY DEF Chunk
<1>2. /\ StreamInv /\ ~finished /\ seen \in Seq(UpstreamEvent) /\ Reported(ctx, seen)
  BY DEF ReasonsInv, ReasonRight, Waiting
<1>3. run.events \in Seq(UpstreamEvent)
  <2>1. n \in Nat /\ n <= Len(cells)
    <3>1. Len(cells) \in Nat
      OBVIOUS
    <3> QED BY <3>1
  <2> HIDE DEF n
  <2>2. SubSeq(cells, 1, n) \in Seq(Cell)
    BY <2>1, Cuts
  <2>3. Feed(decoder, SubSeq(cells, 1, n)) \in Decoder
    BY <1>2, <2>2, FeedKeeps DEF StreamInv, StreamTypes
  <2>4. run \in Run
    BY <2>3, DecodeAllKeeps
  <2> HIDE DEF run
  <2>5. run.events \in Seq(Content)
    BY <2>4 DEF Run
  <2> QED BY <2>5, ContentAssumption
<1> DEFINE events == run.events
<1>4. events \in Seq(UpstreamEvent) /\ seen' = seen \o events /\ x = Translated(ctx, events)
  BY <1>1, <1>3
<1> HIDE DEF x, events
<1>5. x \in Context /\ Reported(x, seen \o events)
  BY <1>2, <1>4, TranslatedReports
<1>6. Alike(x, ctx')
  <2>1. ctx' = Owed(x, <<>>) \/ ctx' = x
    BY <1>1 DEF Release, Owed
  <2> QED BY <2>1, OwedAlike, AlikeFields
<1>7. Reported(ctx', seen')
  BY <1>4, <1>5, <1>6, AlikeKeeps
<1>8. seen' \in Seq(UpstreamEvent)
  BY <1>2, <1>4
<1> QED BY <1>1, <1>2, <1>7, <1>8 DEF ReasonsInv, ReasonRight

\* The last turn of the stream.
LEMMA FinishReasons ==
    ASSUME ReasonsInv, NEW x \in Context, Finish(x), Alike(ctx, x),
           \/ x \in Steady(ViewOf(client))
           \/ x \in Fresh /\ way = "buffered" /\ ViewOf(client) = Blank0,
           StreamInv'
    PROVE  ReasonsInv'
<1> DEFINE y == IF x.started THEN x ELSE Initial(x)
           v == ViewOf(client)
           z == Final(y)
<1>1. /\ Waiting /\ finished' = TRUE /\ ctx' = Owed(z, <<>>) /\ pending' = z.out
      /\ UNCHANGED <<client, seen>>
  BY DEF Finish, Owed
<1>2. /\ StreamInv /\ ~finished /\ seen \in Seq(UpstreamEvent) /\ Reported(ctx, seen)
      /\ ctx \in Context /\ client \in Client
  BY <1>1 DEF ReasonsInv, ReasonRight, Waiting, StreamInv, StreamTypes
<1>3. v \in View /\ v.phase = client.phase
  BY <1>2, ViewIs
<1>4. y \in Steady(v) /\ Reported(y, seen)
  <2>1. Alike(x, y)
    BY InitialAlike, AlikeFields
  <2>2. Reported(x, seen)
    BY <1>2, AlikeKeeps
  <2>3. Reported(y, seen)
    BY <2>1, <2>2, AlikeKeeps
  <2>4. y \in Steady(v)
    BY SteadyIs, FreshIs, InitialKeeps
  <2> QED BY <2>3, <2>4
<1> HIDE DEF y
<1>5. TellsOnly(z.out, Rightly(z, seen)) /\ z \in Context
  BY <1>3, <1>4, FinalReports, FinalConcludes DEF Concluded
<1> HIDE DEF z
<1>6. ctx'.thinkAt = z.thinkAt
  BY <1>1, <1>5, NoBlocks, OwedIs
<1>7. Rightly(ctx', seen') = Rightly(z, seen)
  BY <1>1, <1>6 DEF Rightly
<1>8. client'.phase \notin AfterReason
  <2>1. \/ ctx \in Steady(v)
        \/ v = Blank0
    BY <1>1, <1>2, WaitingIs
  <2>2. CASE ctx \in Steady(v)
    <3>1. PICK w \in View : Flow(v, ctx.out, w) /\ w.phase \notin AfterReason
      BY <2>2, SteadyIs DEF Told, Mirrors, AfterReason
    <3>2. ctx.out \in Seq(Item)
      BY <1>2 DEF Context
    <3>3. v.phase \notin AfterReason
      BY <1>3, <3>1, <3>2, NoReasonYet
    <3> QED BY <1>1, <1>3, <3>3
  <2>3. CASE v = Blank0
    BY <1>1, <1>3, <2>3, NoBlocks DEF AfterReason
  <2> QED BY <2>1, <2>2, <2>3
<1> QED BY <1>1, <1>2, <1>5, <1>7, <1>8 DEF ReasonsInv, ReasonRight

LEMMA ReasonsStep == ReasonsInv /\ [StreamNext]_streamVars => ReasonsInv'
<1> SUFFICES ASSUME ReasonsInv, [StreamNext]_streamVars PROVE ReasonsInv'
  OBVIOUS
<1>1. StreamInv /\ StreamInv' /\ seen \in Seq(UpstreamEvent)
  BY StreamStep DEF ReasonsInv
<1>2. CASE Deliver
  <2>1. client.phase # "gone" /\ UNCHANGED <<ctx, finished, seen>>
    BY <1>2 DEF Deliver
  <2>2. ReasonRight
    BY <2>1 DEF ReasonsInv
  <2>3. CASE ~finished
    BY <1>1, <2>1, <2>2, <2>3 DEF ReasonsInv, ReasonRight
  <2>4. CASE finished
    <3> DEFINE R == Rightly(ctx, seen)
    <3>1. TellsOnly(pending, R) /\ (client.phase \in AfterReason => client.reason \in R)
      BY <2>2, <2>4 DEF ReasonRight
    <3>2. Rightly(ctx', seen') = R
      BY <2>1 DEF Rightly
    <3> HIDE DEF R
    <3>3. TellsOnly(pending', R) /\ (client'.phase \in AfterReason => client'.reason \in R)
      BY <1>1, <1>2, <3>1, DeliverReasons
    <3> QED BY <1>1, <2>1, <2>4, <3>2, <3>3 DEF ReasonsInv, ReasonRight
  <2> QED BY <2>3, <2>4
<1>3. CASE Disconnect
  <2>1. client'.phase = "gone" /\ seen' = <<>>
    BY <1>1, <1>3 DEF Disconnect, StreamInv, StreamTypes, Client
  <2> QED BY <1>1, <2>1 DEF ReasonsInv
<1>4. CASE Frame
  <2>1. PICK event \in Content, trouble \in Damage \cup {"none", "split", "held"} :
           Chunk(wire \o Cells(event, trouble),
                 CASE trouble = "split" -> 1
                   [] trouble = "held"  -> FrameLen
                   [] OTHER             -> 0)
    BY <1>4 DEF Frame
  <2> DEFINE k == CASE trouble = "split" -> 1
                    [] trouble = "held"  -> FrameLen
                    [] OTHER             -> 0
             more == Cells(event, trouble)
             cells == wire \o more
  <2>2. more \in Seq(Cell) /\ Len(more) = FrameLen
    BY CellsAre
  <2>3. k \in Nat /\ k <= FrameLen
    BY BoundsNat
  <2>4. wire \in Seq(Cell) /\ Waiting
    BY <1>1, <1>4 DEF StreamInv, StreamTypes, Frame
  <2>5. Chunk(cells, k)
    BY <2>1
  <2> HIDE DEF more, k
  <2>6. cells \in Seq(Cell) /\ Len(cells) = Len(wire) + Len(more)
        /\ Len(wire) \in Nat /\ Len(more) \in Nat
    BY <2>2, <2>4
  <2>7. k <= Len(cells)
    BY <2>2, <2>3, <2>6
  <2> HIDE DEF cells
  <2> QED BY <1>1, <2>3, <2>4, <2>5, <2>6, <2>7, ChunkReasons
<1>5. CASE Rest
  <2>1. Waiting /\ Chunk(wire, 0) /\ wire \in Seq(Cell)
    BY <1>1, <1>5 DEF Rest, StreamInv, StreamTypes
  <2>2. 0 \in Nat /\ 0 <= Len(wire)
    BY <2>1
  <2> QED BY <1>1, <2>1, <2>2, ChunkReasons
<1>6. CASE EndOfBody \/ IoError
  <2>1. Waiting
    BY <1>6 DEF EndOfBody, IoError, Finish
  <2>2. /\ ViewOf(client) \in View /\ ctx \in Context
        /\ \/ ctx \in Steady(ViewOf(client))
           \/ ctx \in Fresh /\ way = "buffered" /\ ViewOf(client) = Blank0
    BY <1>1, <2>1, WaitingIs DEF StreamInv, StreamTypes
  <2>3. CASE EndOfBody
    BY <1>1, <2>2, <2>3, FinishReasons, AlikeFields DEF EndOfBody
  <2>4. CASE IoError
    <3> DEFINE x == MarkFailure(ctx, "stream_io")
    <3>1. "stream_io" \in Failure
      BY DEF Failure
    <3>2. \/ x \in Steady(ViewOf(client))
          \/ x \in Fresh /\ way = "buffered" /\ ViewOf(client) = Blank0
      BY <2>2, <3>1, MarkFailureKeeps, MarkFresh
    <3>3. Finish(x) /\ Alike(ctx, x)
      BY <2>4, FailureAlike DEF IoError
    <3> HIDE DEF x
    <3>4. x \in Context
      BY <3>2, SteadyIs, FreshIs
    <3> QED BY <1>1, <3>2, <3>3, <3>4, FinishReasons
  <2> QED BY <1>6, <2>3, <2>4
<1>7. CASE UNCHANGED streamVars
  BY <1>1, <1>7 DEF streamVars, ReasonsInv, ReasonRight, TellsOnly, Rightly, Reported
<1> QED BY <1>2, <1>3, <1>4, <1>5, <1>6, <1>7 DEF StreamNext

LEMMA ReasonsAgree == ReasonsInv => SameStopReason
<1> SUFFICES ASSUME ReasonsInv, client.phase = "stopped"
             PROVE  \/ client.reason = WholeStopReason(seen)
                    \/ client.reason = "max_tokens" /\ "tool" \notin Kinds /\ ctx.thinkAt # 0
  BY DEF SameStopReason
<1>1. StreamInv /\ ReasonRight
  BY DEF ReasonsInv
<1>2. finished
  <2> SUFFICES ASSUME ~finished PROVE FALSE
    OBVIOUS
  <2> DEFINE v == ViewOf(client)
  <2>1. /\ client \in Client /\ ctx \in Context /\ pending \in Seq(Item)
        /\ v \in View /\ v.phase = client.phase
    BY <1>1, ViewIs DEF StreamInv, StreamTypes
  <2>2. Unbegun \/ Held \/ Live
    BY <1>1 DEF StreamInv, Gone, Linked, Over
  <2>3. ~Unbegun
    BY <2>1, NoBlocks DEF Unbegun
  <2>4. ctx.out \in Seq(Item) /\ Owed(ctx, pending).out = pending
    BY <2>1, OwedIs
  <2>5. Told(v, ctx) \/ Told(v, Owed(ctx, pending))
    BY <2>2, <2>3, SteadyIs DEF Held, Live
  <2>6. PICK queue \in Seq(Item), w \in View : Flow(v, queue, w) /\ w.phase \notin AfterReason
    BY <2>1, <2>4, <2>5 DEF Told, Mirrors, AfterReason
  <2>7. v.phase \notin AfterReason
    BY <2>1, <2>6, NoReasonYet
  <2> QED BY <2>1, <2>7 DEF AfterReason
<1>3. client.reason \in Rightly(ctx, seen)
  BY <1>1, <1>2 DEF ReasonRight, AfterReason
<1>4. ~Called(seen) => "tool" \notin Kinds
  BY DEF Called, Kinds
<1> QED BY <1>3, <1>4 DEF Rightly

\* Between the first event and the last the translation knows why the answer to what it
\* has seen would stop, and what is told at the end is that, or that thinking alone is an
\* answer cut short (stream.rs, get_stop_reason and generate_final_events).
THEOREM ReasonsInvariant == StreamSpec => []ReasonsInv
<1>1. StreamInit => ReasonsInv
  BY ReasonsStart
<1>2. ReasonsInv /\ [StreamNext]_streamVars => ReasonsInv'
  BY ReasonsStep
<1> QED BY <1>1, <1>2, PTL DEF StreamSpec

\* A streamed answer stops for the reason that the same answer has as a whole, but that a
\* stream of thinking alone counts as cut short (stream.rs:1398-1411, handlers.rs:850).
THEOREM ReasonsAreTheSame == StreamSpec => []SameStopReason
BY ReasonsInvariant, ReasonsAgree, PTL

-----------------------------------------------------------------------------
(* The part of a queue before one of its events.                           *)

LEMMA FlowUnique ==
    ASSUME NEW v, NEW queue \in Seq(Item), NEW w, NEW u, Flow(v, queue, w), Flow(v, queue, u)
    PROVE  u = w
<1> DEFINE n == Len(queue)
<1>1. PICK f \in [0 .. n -> View] : Leads(f, v, queue, w)
  BY DEF Flow
<1>2. PICK g \in [0 .. n -> View] : Leads(g, v, queue, u)
  BY DEF Flow
<1>3. /\ f[0] = v /\ f[n] = w /\ g[0] = v /\ g[n] = u /\ n \in Nat
      /\ \A k \in 1 .. n : f[k] = After(f[k - 1], queue[k]) /\ g[k] = After(g[k - 1], queue[k])
  BY <1>1, <1>2 DEF Leads
<1> HIDE DEF n
<1> DEFINE T == {k \in Nat : k <= n => f[k] = g[k]}
<1>4. 0 \in T
  BY <1>3
<1>5. T \in SUBSET Nat /\ \A k \in T : k + 1 \in T
  <2> SUFFICES ASSUME NEW k \in T, k + 1 <= n PROVE f[k + 1] = g[k + 1]
    OBVIOUS
  <2>1. k + 1 \in 1 .. n /\ (k + 1) - 1 = k /\ k <= n
    BY <1>3
  <2> QED BY <1>3, <2>1
<1> HIDE DEF T
<1>6. n \in T
  BY <1>3, <1>4, <1>5, Induction
<1> QED BY <1>3, <1>6 DEF T

LEMMA FlowPart ==
    ASSUME NEW v \in View, NEW queue \in Seq(Item), NEW w \in View, Flow(v, queue, w),
           NEW m \in 0 .. Len(queue)
    PROVE  \E u \in View : Flow(v, SubSeq(queue, 1, m), u)
<1> DEFINE n == Len(queue)
           part == SubSeq(queue, 1, m)
<1>1. PICK f \in [0 .. n -> View] : Leads(f, v, queue, w)
  BY DEF Flow
<1>2. n \in Nat /\ m \in Nat /\ m <= n /\ Len(part) = m /\ \A k \in 1 .. m : part[k] = queue[k]
  OBVIOUS
<1>3. f[0] = v
      /\ \A k \in 1 .. n : Legal(f[k - 1], queue[k]) /\ f[k] = After(f[k - 1], queue[k])
  BY <1>1 DEF Leads
<1> HIDE DEF n, part
<1> DEFINE g == [k \in 0 .. m |-> f[k]]
<1>4. g \in [0 .. Len(part) -> View] /\ f[m] \in View
  <2>1. \A k \in 0 .. m : k \in 0 .. n
    BY <1>2
  <2>2. m \in 0 .. m
    BY <1>2
  <2> QED BY <1>1, <1>2, <2>1, <2>2
<1>5. \A k \in 0 .. m : g[k] = f[k]
  OBVIOUS
<1> HIDE DEF g
<1>6. ASSUME NEW k \in 1 .. m
      PROVE  Legal(g[k - 1], part[k]) /\ g[k] = After(g[k - 1], part[k])
  <2>1. k \in 1 .. n /\ k \in 0 .. m /\ k - 1 \in 0 .. m
    BY <1>2
  <2> QED BY <1>2, <1>3, <1>5, <2>1
<1>7. Leads(g, v, part, f[m])
  <2>1. 0 \in 0 .. m /\ m \in 0 .. m
    BY <1>2
  <2> QED BY <1>2, <1>3, <1>5, <1>6, <2>1 DEF Leads
<1> QED BY <1>4, <1>7 DEF Flow, part

-----------------------------------------------------------------------------
(* Where the translation goes on from: what is in the list of events stays  *)
(* there, and the blocks that further events start are new ones.            *)

Listed(x) ==
    /\ DOMAIN x = Fields
    /\ \E S : x.out \in Seq(S)
    /\ \E S : x.blocks \in Seq(S)

Onward(x, y) ==
    Listed(x) =>
        /\ Listed(y) /\ y.tools = x.tools /\ y.thinking = x.thinking
        /\ Len(x.blocks) <= Len(y.blocks) /\ Len(x.out) <= Len(y.out)
        /\ \A k \in 1 .. Len(x.out) : y.out[k] = x.out[k]
        /\ \A k \in Len(x.out) + 1 .. Len(y.out) : y.out[k].ev = "start" =>
              \E j \in Len(x.blocks) + 1 .. Len(y.blocks) : y.out[k].at = {j}

LEMMA ListedIs ==
    ASSUME NEW x, Listed(x)
    PROVE  Len(x.out) \in Nat /\ Len(x.blocks) \in Nat
           /\ DOMAIN x.out = 1 .. Len(x.out) /\ DOMAIN x.blocks = 1 .. Len(x.blocks)
<1>1. PICK S : x.out \in Seq(S)
  BY DEF Listed
<1>2. PICK B : x.blocks \in Seq(B)
  BY DEF Listed
<1> QED BY <1>1, <1>2

LEMMA Longer1 ==
    ASSUME NEW s, \E S : s \in Seq(S), NEW e
    PROVE  /\ \E S : Append(s, e) \in Seq(S)
           /\ Len(Append(s, e)) = Len(s) + 1 /\ Append(s, e)[Len(s) + 1] = e
           /\ \A k \in 1 .. Len(s) : Append(s, e)[k] = s[k]
<1>1. PICK S : s \in Seq(S)
  OBVIOUS
<1> DEFINE B == S \cup {e}
<1>2. s \in Seq(B) /\ e \in B
  BY <1>1
<1> HIDE DEF B
<1>3. Append(s, e) \in Seq(B)
  BY <1>2
<1> QED BY <1>2, <1>3

LEMMA OnwardTwice ==
    ASSUME NEW x, NEW y, NEW z, Onward(x, y), Onward(y, z)
    PROVE  Onward(x, z)
<1> SUFFICES ASSUME Listed(x) PROVE Onward(x, z)
  BY DEF Onward
<1>1. Listed(y) /\ Listed(z) /\ z.tools = x.tools /\ z.thinking = x.thinking
  BY DEF Onward
<1> DEFINE a == Len(x.out)
           b == Len(y.out)
           c == Len(z.out)
           p == Len(x.blocks)
           q == Len(y.blocks)
           r == Len(z.blocks)
<1>2. a \in Nat /\ b \in Nat /\ c \in Nat /\ p \in Nat /\ q \in Nat /\ r \in Nat
  BY <1>1, ListedIs
<1>3. /\ p <= q /\ a <= b /\ \A k \in 1 .. a : y.out[k] = x.out[k]
      /\ \A k \in a + 1 .. b : y.out[k].ev = "start" => \E j \in p + 1 .. q : y.out[k].at = {j}
  BY DEF Onward
<1>4. /\ q <= r /\ b <= c /\ \A k \in 1 .. b : z.out[k] = y.out[k]
      /\ \A k \in b + 1 .. c : z.out[k].ev = "start" => \E j \in q + 1 .. r : z.out[k].at = {j}
  BY <1>1 DEF Onward
<1> HIDE DEF a, b, c, p, q, r
<1>5. p <= r /\ a <= c
  BY <1>2, <1>3, <1>4
<1>6. \A k \in 1 .. a : z.out[k] = x.out[k]
  <2>1. \A k \in 1 .. a : k \in 1 .. b
    BY <1>2, <1>3
  <2> QED BY <1>3, <1>4, <2>1
<1>7. ASSUME NEW k \in a + 1 .. c, z.out[k].ev = "start"
      PROVE  \E j \in p + 1 .. r : z.out[k].at = {j}
  <2>1. CASE k <= b
    <3>1. k \in 1 .. b /\ k \in a + 1 .. b
      BY <1>2, <2>1
    <3>2. z.out[k] = y.out[k]
      BY <1>4, <3>1
    <3>3. PICK j \in p + 1 .. q : y.out[k].at = {j}
      BY <1>3, <1>7, <3>1, <3>2
    <3>4. j \in p + 1 .. r
      BY <1>2, <1>4, <3>3
    <3> QED BY <3>2, <3>3, <3>4
  <2>2. CASE k > b
    <3>1. k \in b + 1 .. c
      BY <1>2, <2>2
    <3>2. PICK j \in q + 1 .. r : z.out[k].at = {j}
      BY <1>4, <1>7, <3>1
    <3>3. j \in p + 1 .. r
      BY <1>2, <1>3, <3>2
    <3> QED BY <3>2, <3>3
  <2> QED BY <1>2, <2>1, <2>2
<1> QED BY <1>1, <1>5, <1>6, <1>7 DEF Onward, a, c, p, r

LEMMA SameOnward ==
    ASSUME NEW x, NEW y,
           Listed(x) => /\ DOMAIN y = Fields /\ y.out = x.out /\ y.tools = x.tools
                        /\ y.thinking = x.thinking
                        /\ Len(y.blocks) = Len(x.blocks) /\ \E S : y.blocks \in Seq(S)
    PROVE  Onward(x, y)
<1> SUFFICES ASSUME Listed(x) PROVE Onward(x, y)
  BY DEF Onward
<1>1. Len(x.out) \in Nat /\ Len(x.blocks) \in Nat
  BY ListedIs
<1>2. Listed(y)
  BY DEF Listed
<1>3. Len(x.out) + 1 .. Len(x.out) = {}
  BY <1>1
<1> QED BY <1>1, <1>2, <1>3 DEF Onward

\* Neither the list of events nor the blocks are another.
Unmoved(x, y) ==
    DOMAIN x = Fields => /\ DOMAIN y = Fields /\ y.out = x.out /\ y.tools = x.tools
                         /\ y.thinking = x.thinking /\ y.blocks = x.blocks

LEMMA KeptOnward ==
    ASSUME NEW x, NEW y, Unmoved(x, y)
    PROVE  Onward(x, y)
<1> SUFFICES ASSUME Listed(x) PROVE Onward(x, y)
  BY DEF Onward
<1>1. DOMAIN x = Fields /\ \E S : x.blocks \in Seq(S)
  BY DEF Listed
<1>2. y.blocks = x.blocks
  BY <1>1 DEF Unmoved
<1>3. Len(y.blocks) = Len(x.blocks) /\ \E S : y.blocks \in Seq(S)
  BY <1>1, <1>2
<1> QED BY <1>1, <1>3, SameOnward DEF Unmoved

LEMMA OnwardFields ==
    ASSUME NEW x, NEW u
    PROVE  /\ Onward(x, x) /\ Onward(x, [x EXCEPT !.textAt = u])
           /\ Onward(x, [x EXCEPT !.thinkAt = u]) /\ Onward(x, [x EXCEPT !.started = u])
           /\ Onward(x, [x EXCEPT !.hasTool = u]) /\ Onward(x, [x EXCEPT !.produced = u])
           /\ Onward(x, [x EXCEPT !.reason = u]) /\ Onward(x, [x EXCEPT !.failure = u])
           /\ Onward(x, [x EXCEPT !.signature = u]) /\ Onward(x, [x EXCEPT !.buffer = u])
<1>1. Listed(x) => DOMAIN x = Fields /\ \E S : x.blocks \in Seq(S)
  BY DEF Listed
<1>2. Onward(x, x)
  BY <1>1, SameOnward
<1>3. ASSUME NEW f \in Fields \ {"out", "blocks", "tools", "thinking"}, NEW y,
             y = [x EXCEPT ![f] = u]
      PROVE  Onward(x, y)
  <2>1. Listed(x) => /\ DOMAIN y = Fields /\ y.out = x.out /\ y.tools = x.tools
                     /\ y.thinking = x.thinking /\ y.blocks = x.blocks
    BY <1>1, <1>3 DEF Fields
  <2> QED BY <1>1, <2>1, SameOnward
<1> QED BY <1>2, <1>3 DEF Fields

LEMMA EmitOnward ==
    ASSUME NEW x, NEW ev, NEW at, NEW tag, NEW text, ev # "start"
    PROVE  Onward(x, Emit(x, ev, at, tag, text))
<1> DEFINE item == [ev |-> ev, at |-> at, tag |-> tag, text |-> text]
           y == Emit(x, ev, at, tag, text)
<1> SUFFICES ASSUME Listed(x) PROVE Onward(x, y)
  BY DEF Onward
<1>1. item.ev # "start"
  OBVIOUS
<1>2. y = [x EXCEPT !.out = Append(x.out, item)]
  BY DEF Emit, Listed, Fields
<1> HIDE DEF item
<1>3. DOMAIN y = Fields /\ y.out = Append(x.out, item) /\ y.blocks = x.blocks
      /\ y.tools = x.tools /\ y.thinking = x.thinking
  BY <1>2 DEF Listed, Fields
<1> HIDE DEF y
<1>4. /\ Len(x.out) \in Nat /\ Len(x.blocks) \in Nat /\ Len(y.out) = Len(x.out) + 1
      /\ y.out[Len(x.out) + 1] = item /\ \A k \in 1 .. Len(x.out) : y.out[k] = x.out[k]
  BY <1>3, ListedIs, Longer1 DEF Listed
<1>5. Listed(y)
  <2>1. (\E S : x.out \in Seq(S)) /\ \E S : x.blocks \in Seq(S)
    BY DEF Listed
  <2>2. \E S : y.out \in Seq(S)
    <3>1. PICK S : Append(x.out, item) \in Seq(S)
      BY <2>1, Longer1
    <3> QED BY <1>3, <3>1
  <2>3. DOMAIN y = Fields /\ \E S : y.blocks \in Seq(S)
    BY <1>3, <2>1
  <2> QED BY <2>2, <2>3 DEF Listed
<1>6. \A k \in Len(x.out) + 1 .. Len(y.out) : y.out[k].ev # "start"
  BY <1>1, <1>4
<1> QED BY <1>3, <1>4, <1>5, <1>6 DEF Onward

LEMMA StartOnward ==
    ASSUME NEW x, NEW type
    PROVE  /\ Onward(x, StartBlock(x, type))
           /\ Listed(x) => /\ Len(StartBlock(x, type).out) = Len(x.out) + 1
                           /\ StartBlock(x, type).out[Len(x.out) + 1].at = {Len(x.blocks) + 1}
                           /\ Len(StartBlock(x, type).blocks) = Len(x.blocks) + 1
<1> DEFINE m == Len(x.blocks) + 1
           b == [type |-> type, stopped |-> FALSE]
           item == [ev |-> "start", at |-> {m}, tag |-> type, text |-> <<>>]
           y == StartBlock(x, type)
<1> SUFFICES ASSUME Listed(x)
             PROVE  /\ Onward(x, y) /\ Len(y.out) = Len(x.out) + 1
                    /\ y.out[Len(x.out) + 1].at = {m} /\ Len(y.blocks) = m
  BY DEF Onward
<1>1. item.at = {m}
  OBVIOUS
<1>2. y = [x EXCEPT !.out = Append(x.out, item), !.blocks = Append(x.blocks, b)]
  BY DEF StartBlock, Emit, Listed, Fields
<1> HIDE DEF item, b
<1>3. DOMAIN y = Fields /\ y.out = Append(x.out, item) /\ y.blocks = Append(x.blocks, b)
      /\ y.tools = x.tools /\ y.thinking = x.thinking
  BY <1>2 DEF Listed, Fields
<1> HIDE DEF y
<1>4. /\ Len(x.out) \in Nat /\ Len(x.blocks) \in Nat /\ Len(y.out) = Len(x.out) + 1
      /\ y.out[Len(x.out) + 1] = item /\ \A k \in 1 .. Len(x.out) : y.out[k] = x.out[k]
      /\ Len(y.blocks) = m
  BY <1>3, ListedIs, Longer1 DEF Listed
<1>5. Listed(y)
  <2>1. (\E S : x.out \in Seq(S)) /\ \E S : x.blocks \in Seq(S)
    BY DEF Listed
  <2>2. (\E S : y.out \in Seq(S)) /\ \E S : y.blocks \in Seq(S)
    <3>1. PICK S : Append(x.out, item) \in Seq(S)
      BY <2>1, Longer1
    <3>2. PICK B : Append(x.blocks, b) \in Seq(B)
      BY <2>1, Longer1
    <3> QED BY <1>3, <3>1, <3>2
  <2>3. DOMAIN y = Fields
    BY <1>3
  <2> QED BY <2>2, <2>3 DEF Listed
<1>6. \A k \in Len(x.out) + 1 .. Len(y.out) :
         \E j \in Len(x.blocks) + 1 .. Len(y.blocks) : y.out[k].at = {j}
  BY <1>1, <1>4
<1> QED BY <1>1, <1>3, <1>4, <1>5, <1>6 DEF Onward

LEMMA StopOnward ==
    ASSUME NEW x, NEW B, NEW i
    PROVE  Onward(x, Stop(x, B)) /\ Onward(x, StopBlock(x, i)) /\ Onward(x, SignAndStopAll(x))
<1>1. ASSUME NEW K PROVE Onward(x, Stopped(x, K))
  <2> DEFINE part(j) == [type |-> x.blocks[j].type, stopped |-> x.blocks[j].stopped \/ j \in K]
             n == Len(x.blocks)
             u == [j \in DOMAIN x.blocks |-> part(j)]
  <2> SUFFICES ASSUME Listed(x) PROVE Onward(x, Stopped(x, K))
    BY DEF Onward
  <2>1. DOMAIN x.blocks = 1 .. n /\ n \in Nat
    BY ListedIs
  <2>2. Len(u) = n /\ \E S : u \in Seq(S)
    <3> HIDE DEF part, n
    <3>1. u = [j \in 1 .. n |-> part(j)]
      BY <2>1
    <3> HIDE DEF u
    <3>2. u \in Seq({part(j) : j \in 1 .. n}) /\ Len(u) = n
      BY <2>1, <3>1
    <3> QED BY <3>2
  <2>3. Stopped(x, K) = [x EXCEPT !.blocks = u]
    BY DEF Stopped
  <2> HIDE DEF u
  <2>4. DOMAIN x = Fields
    BY DEF Listed
  <2> QED BY <2>2, <2>3, <2>4, SameOnward DEF Fields
<1>2. ASSUME NEW K, NEW tag PROVE Onward(x, Emit(Stopped(x, K), "stop", K, tag, <<>>))
  BY <1>1, EmitOnward, OnwardTwice
<1>3. \A K : Onward(x, Stop(x, K))
  BY <1>2, OnwardFields DEF Stop
<1>4. Onward(x, SignAndStopAll(x))
  BY <1>2, OnwardFields DEF SignAndStopAll
<1> QED BY <1>3, <1>4 DEF StopBlock

LEMMA TextOnward ==
    ASSUME NEW x, NEW text
    PROVE  Onward(x, TextDelta(x, text))
<1> DEFINE u == [x EXCEPT !.textAt = Len(x.blocks) + 1]
           y == IF x.textAt \in OpenText(x) THEN x ELSE StartBlock(u, "text")
<1>1. Onward(x, u)
  BY OnwardFields
<1> HIDE DEF u
<1>2. Onward(x, y)
  BY <1>1, StartOnward, OnwardTwice, OnwardFields
<1>3. TextDelta(x, text) = Delta(y, y.textAt, "text", text)
  BY DEF TextDelta, TextDeltaTo, u
<1> HIDE DEF y
<1>4. \A i : Onward(y, Delta(y, i, "text", text))
  BY EmitOnward, OnwardFields DEF Delta
<1> QED BY <1>2, <1>3, <1>4, OnwardTwice

LEMMA ThinkingOnward ==
    ASSUME NEW x, NEW text
    PROVE  /\ Onward(x, ThinkingDelta(x, text)) /\ Onward(x, SomeThinking(x, text))
           /\ Onward(x, CloseFakeThinking(x)) /\ Onward(x, CloseReasoning(x))
<1>1. Onward(x, ThinkingDelta(x, text)) /\ Onward(x, SomeThinking(x, text))
  BY EmitOnward, OnwardFields DEF ThinkingDelta, SomeThinking
<1>2. \A tag : Onward(x, Emit(x, "signature", {x.thinkAt}, tag, <<>>))
  BY EmitOnward
<1>3. Onward(x, CloseFakeThinking(x))
  BY <1>2, StopOnward, OnwardTwice DEF CloseFakeThinking
<1>4. Onward(x, CloseReasoning(x))
  <2> DEFINE y == Emit(x, "signature", {x.thinkAt}, IF x.signature THEN "given" ELSE "empty", <<>>)
             z == StopBlock(y, x.thinkAt)
  <2>1. Onward(x, y)
    BY <1>2
  <2> HIDE DEF y
  <2>2. Onward(x, z)
    BY <2>1, StopOnward, OnwardTwice
  <2> HIDE DEF z
  <2>3. Onward(z, [z EXCEPT !.reasoning = FALSE, !.signature = FALSE])
    <3>1. Unmoved(z, [z EXCEPT !.reasoning = FALSE, !.signature = FALSE])
      BY DEF Unmoved, Fields
    <3> QED BY <3>1, KeptOnward
  <2>4. CloseReasoning(x) = IF ~x.reasoning THEN x
                            ELSE [z EXCEPT !.reasoning = FALSE, !.signature = FALSE]
    BY DEF CloseReasoning, z, y
  <2> QED BY <2>2, <2>3, <2>4, OnwardTwice, OnwardFields
<1> QED BY <1>1, <1>3, <1>4

LEMMA BeforeTagOnward == ASSUME NEW x PROVE Onward(x, BeforeTag(x))
<1> DEFINE p      == StartTag(x.buffer)
           before == SubSeq(x.buffer, 1, p - 1)
           safe   == Releasable(x.buffer, Len(OpenTag))
           y      == IF Blank(before) THEN x ELSE TextDelta(x, before)
           rest   == From(y.buffer, p + 2)
           at     == Len(y.blocks) + 1
           u      == [y EXCEPT !.inside = TRUE, !.strip = TRUE, !.buffer = rest, !.thinkAt = at]
           left   == From(x.buffer, Len(safe) + 1)
           w      == [x EXCEPT !.buffer = left]
<1>1. Onward(x, y)
  BY TextOnward, OnwardFields
<1>2. \/ BeforeTag(x) = x
      \/ BeforeTag(x) = StartBlock(u, "thinking")
      \/ BeforeTag(x) = TextDelta(w, safe)
  BY DEF BeforeTag
<1> HIDE DEF y
<1>3. Onward(y, u)
  <2> HIDE DEF rest, at
  <2>1. Unmoved(y, u)
    BY DEF Unmoved, Fields
  <2> QED BY <2>1, KeptOnward
<1>4. Onward(x, w)
  BY OnwardFields
<1>5. Onward(x, u)
  BY <1>1, <1>3, OnwardTwice
<1> HIDE DEF u, w, safe
<1>6. Onward(x, StartBlock(u, "thinking"))
  BY <1>5, StartOnward, OnwardTwice
<1>7. Onward(x, TextDelta(w, safe))
  BY <1>4, TextOnward, OnwardTwice
<1>8. Onward(x, x)
  BY OnwardFields
<1> QED BY <1>2, <1>6, <1>7, <1>8

LEMMA InsideTagOnward == ASSUME NEW x PROVE Onward(x, InsideTag(x))
<1> DEFINE kept == Len(CloseTag) + 2
           b    == IF x.strip THEN StripNewline(x.buffer) ELSE x.buffer
           y    == [x EXCEPT !.buffer = b, !.strip = @ /\ x.buffer = <<>>]
           p    == EndTag(b)
           safe == Releasable(b, kept)
           c    == CloseFakeThinking(SomeThinking(y, SubSeq(b, 1, p - 1)))
           rest == From(c.buffer, p + 4)
           u    == [c EXCEPT !.inside = FALSE, !.extracted = TRUE, !.buffer = rest]
           left == From(y.buffer, Len(safe) + 1)
           w    == [y EXCEPT !.buffer = left]
<1>1. InsideTag(x) = x \/ InsideTag(x) = u \/ InsideTag(x) = SomeThinking(w, safe)
  BY DEF InsideTag, InsideTagHolding
<1> HIDE DEF b
<1>2. Onward(x, y)
  <2>1. Unmoved(x, y)
    BY DEF Unmoved, Fields
  <2> QED BY <2>1, KeptOnward
<1> HIDE DEF y
<1>3. Onward(y, c) /\ Onward(y, w)
  BY ThinkingOnward, OnwardTwice, OnwardFields
<1> HIDE DEF c
<1>4. Onward(c, u)
  <2> HIDE DEF rest
  <2>1. Unmoved(c, u)
    BY DEF Unmoved, Fields
  <2> QED BY <2>1, KeptOnward
<1>5. Onward(x, u) /\ Onward(x, w)
  BY <1>2, <1>3, <1>4, OnwardTwice
<1> HIDE DEF u, w, safe
<1>6. Onward(x, SomeThinking(w, safe))
  BY <1>5, ThinkingOnward, OnwardTwice
<1>7. Onward(x, x)
  BY OnwardFields
<1> QED BY <1>1, <1>5, <1>6, <1>7

LEMMA ScanOnward == ASSUME NEW x PROVE Onward(x, Scan(x))
<1>1. ASSUME NEW y PROVE Onward(y, AfterTag(y))
  BY TextOnward, OnwardFields, OnwardTwice DEF AfterTag
<1> QED BY <1>1, BeforeTagOnward, InsideTagOnward, OnwardTwice DEF Scan

LEMMA EndAtTagOnward == ASSUME NEW x, NEW p PROVE Onward(x, EndAtTag(x, p))
<1> DEFINE y == CloseFakeThinking(SomeThinking(x, SubSeq(x.buffer, 1, p - 1)))
           z == [y EXCEPT !.inside = FALSE, !.extracted = TRUE, !.buffer = <<>>]
           left == TrimStart(From(x.buffer, p + 2))
<1>1. EndAtTag(x, p) = z \/ EndAtTag(x, p) = TextDelta(z, left)
  BY DEF EndAtTag
<1>2. Onward(x, y)
  BY ThinkingOnward, OnwardTwice
<1> HIDE DEF y
<1>3. Onward(y, z)
  <2>1. Unmoved(y, z)
    BY DEF Unmoved, Fields
  <2> QED BY <2>1, KeptOnward
<1> HIDE DEF z, left
<1> QED BY <1>1, <1>2, <1>3, TextOnward, OnwardTwice

LEMMA FlushesOnward ==
    ASSUME NEW x
    PROVE  Onward(x, FlushBeforeTool(x)) /\ Onward(x, FlushAtEnd(x))
<1>1. Onward(x, FlushBeforeTool(x))
  <2> DEFINE p == EndTagAtBufferEnd(x.buffer)
             y == IF x.thinking /\ x.inside /\ p # 0 THEN EndAtTag(x, p) ELSE x
             z == [y EXCEPT !.buffer = <<>>]
  <2>1. Onward(x, y)
    BY EndAtTagOnward, OnwardFields
  <2>2. FlushBeforeTool(x) = y \/ FlushBeforeTool(x) = TextDelta(z, y.buffer)
    BY DEF FlushBeforeTool
  <2> HIDE DEF y
  <2>3. Onward(y, z)
    BY OnwardFields
  <2> HIDE DEF z
  <2> QED BY <2>1, <2>2, <2>3, TextOnward, OnwardTwice
<1>2. Onward(x, FlushAtEnd(x))
  <2> DEFINE p == EndTagAtBufferEnd(x.buffer)
             c == CloseFakeThinking(ThinkingDelta(x, x.buffer))
             t == TextDelta(x, x.buffer)
  <2>1. Onward(x, c) /\ Onward(x, t)
    BY ThinkingOnward, TextOnward, OnwardTwice
  <2>2. \/ FlushAtEnd(x) = x \/ FlushAtEnd(x) = EndAtTag(x, p)
        \/ FlushAtEnd(x) = [c EXCEPT !.buffer = <<>>]
        \/ FlushAtEnd(x) = [t EXCEPT !.buffer = <<>>]
    BY DEF FlushAtEnd
  <2> HIDE DEF c, t, p
  <2>3. Onward(x, [c EXCEPT !.buffer = <<>>]) /\ Onward(x, [t EXCEPT !.buffer = <<>>])
    BY <2>1, OnwardFields, OnwardTwice
  <2>4. Onward(x, x) /\ Onward(x, EndAtTag(x, p))
    BY EndAtTagOnward, OnwardFields
  <2> QED BY <2>2, <2>3, <2>4
<1> QED BY <1>1, <1>2

\* Every event but a tool's.
LEMMA EventOnward ==
    ASSUME NEW x, NEW e, e.kind # "tool"
    PROVE  Onward(x, OnEvent(x, e))
<1>1. Onward(x, AssistantResponse(x, e.text))
  <2> DEFINE text == e.text
             p == [x EXCEPT !.produced = TRUE]
             y == CloseReasoning(p)
             z == [y EXCEPT !.buffer = @ \o text]
  <2>1. \/ AssistantResponse(x, text) = x \/ AssistantResponse(x, text) = Scan(z)
        \/ AssistantResponse(x, text) = TextDelta(y, text)
    BY DEF AssistantResponse
  <2>2. Onward(x, y)
    BY OnwardFields, ThinkingOnward, OnwardTwice
  <2> HIDE DEF y
  <2>3. Onward(y, z)
    <3>1. Unmoved(y, z)
      BY DEF Unmoved, Fields
    <3> QED BY <3>1, KeptOnward
  <2> HIDE DEF z
  <2>4. Onward(x, Scan(z))
    BY <2>2, <2>3, ScanOnward, OnwardTwice
  <2>5. Onward(x, TextDelta(y, text)) /\ Onward(x, x)
    BY <2>2, TextOnward, OnwardTwice, OnwardFields
  <2> QED BY <2>1, <2>4, <2>5
<1>2. Onward(x, ReasoningContent(x, e.text, e.signed))
  <2> DEFINE text == e.text
             y == [x EXCEPT !.signature = @ \/ e.signed]
             r == [y EXCEPT !.native = TRUE, !.buffer = <<>>, !.inside = FALSE, !.extracted = FALSE]
             z == IF y.native THEN y ELSE r
             u == [z EXCEPT !.thinkAt = Len(z.blocks) + 1, !.reasoning = TRUE]
             w == IF z.reasoning THEN z ELSE StartBlock(u, "thinking")
             q == [w EXCEPT !.produced = TRUE]
  <2>1. \/ ReasoningContent(x, text, e.signed) = y
        \/ ReasoningContent(x, text, e.signed) = ThinkingDelta(q, text)
    BY DEF ReasoningContent
  <2>2. Onward(x, y)
    <3>1. Unmoved(x, y)
      BY DEF Unmoved, Fields
    <3> QED BY <3>1, KeptOnward
  <2> HIDE DEF y
  <2>3. Onward(y, r)
    <3>1. Unmoved(y, r)
      BY DEF Unmoved, Fields
    <3> QED BY <3>1, KeptOnward
  <2> HIDE DEF r
  <2>4. Onward(x, z)
    BY <2>2, <2>3, OnwardTwice
  <2> HIDE DEF z
  <2>5. Onward(z, u)
    <3>1. Unmoved(z, u)
      BY DEF Unmoved, Fields
    <3> QED BY <3>1, KeptOnward
  <2> HIDE DEF u
  <2>6. Onward(x, w)
    BY <2>4, <2>5, StartOnward, OnwardTwice
  <2> HIDE DEF w
  <2>7. Onward(x, q)
    BY <2>6, OnwardFields, OnwardTwice
  <2> HIDE DEF q
  <2> QED BY <2>1, <2>2, <2>7, ThinkingOnward, OnwardTwice
<1>3. \A kind : Onward(x, MarkFailure(x, kind))
  BY OnwardFields DEF MarkFailure
<1> QED BY <1>1, <1>2, <1>3, OnwardFields DEF OnEvent, ContextUsage, Exception, Ignored

LEMMA InitialOnward == ASSUME NEW x PROVE Onward(x, Initial(x))
<1> DEFINE a == [x EXCEPT !.started = TRUE]
           y == Emit(a, "message_start", {}, "", <<>>)
           u == [y EXCEPT !.textAt = Len(y.blocks) + 1]
<1>1. Initial(x) = IF x.thinking THEN y ELSE StartBlock(u, "text")
  BY DEF Initial
<1>2. Onward(x, a)
  BY OnwardFields
<1> HIDE DEF a
<1>3. Onward(x, y)
  BY <1>2, EmitOnward, OnwardTwice
<1> HIDE DEF y
<1>4. Onward(x, u)
  BY <1>3, OnwardFields, OnwardTwice
<1> HIDE DEF u
<1> QED BY <1>1, <1>3, <1>4, StartOnward, OnwardTwice

LEMMA FinalOnward == ASSUME NEW x PROVE Onward(x, Final(x))
<1> DEFINE y == IF ProducedAnyContent(x) THEN x ELSE MarkFailure(x, "empty_response")
<1>1. Onward(x, y)
  BY OnwardFields DEF MarkFailure
<1>2. Final(x) = IF y.failure # "none" THEN EndInError(y)
                 ELSE EndMessage(TextAfterThinking(FlushAtEnd(CloseReasoning(y))))
  BY DEF Final
<1> HIDE DEF y
<1>3. ASSUME NEW z PROVE Onward(z, EndInError(z))
  BY ThinkingOnward, StopOnward, EmitOnward, OnwardTwice DEF EndInError
<1>4. ASSUME NEW z PROVE Onward(z, EndMessage(z))
  BY StopOnward, EmitOnward, OnwardTwice DEF EndMessage
<1>5. ASSUME NEW z PROVE Onward(z, TextAfterThinking(z))
  <2> DEFINE r == [z EXCEPT !.reason = "max_tokens"]
  <2>1. Onward(z, r)
    BY OnwardFields
  <2>2. TextAfterThinking(z) = z \/ TextAfterThinking(z) = TextDelta(r, <<"s">>)
    BY DEF TextAfterThinking
  <2> HIDE DEF r
  <2>3. Onward(z, TextDelta(r, <<"s">>)) /\ Onward(z, z)
    BY <2>1, TextOnward, OnwardTwice, OnwardFields
  <2> QED BY <2>2, <2>3
<1>6. Onward(y, EndInError(y))
  BY <1>3
<1>7. Onward(y, EndMessage(TextAfterThinking(FlushAtEnd(CloseReasoning(y)))))
  BY <1>4, <1>5, ThinkingOnward, FlushesOnward, OnwardTwice
<1> QED BY <1>1, <1>2, <1>6, <1>7, OnwardTwice
=============================================================================
