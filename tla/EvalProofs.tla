----------------------------- MODULE EvalProofs -----------------------------
(***************************************************************************)
(* Proofs about EvalRun for any stream, any arguments the agent may pass,  *)
(* any answers and any number of tool calls: the inductive invariant       *)
(* EvalInv, and from it what a verdict says of citations, reasons and      *)
(* figures.                                                                *)
(***************************************************************************)
EXTENDS EvalRun, DataInduction, SequenceTheorems

Ids == Rows \cup Invented

LEMMA CountIsNat == ASSUME NEW S \in SUBSET Rows PROVE Cardinality(S) \in Nat
<1>1. IsFiniteSet(S)
  BY ToolsAssumption, FS_Subset DEF ToolsAssumption
<1>. QED  BY <1>1, FS_CardinalityType

LEMMA CountedIsNat ==
  ASSUME NEW S \in SUBSET Rows, NEW g
  PROVE  Counted(S, g) \in Nat /\ FailedOf(S, g) \in Nat
<1>1. {r \in S : GatewayOf[r] = g} \in SUBSET Rows
  OBVIOUS
<1>2. {r \in S \cap Failed : GatewayOf[r] = g} \in SUBSET Rows
  OBVIOUS
<1>. QED  BY <1>1, <1>2, CountIsNat DEF Counted, FailedOf

(* What the groups of a result are does not depend on the state.            *)
LEMMA CountsGrowIsRigid == ASSUME NEW s PROVE CountsGrow(s)' <=> CountsGrow(s)
BY DEF CountsGrow, GroupsReturned, TopGroups, Rate, FailedOf, Counted

LEMMA ClampIsNat ==
  ASSUME NEW v \in Int \cup {None}, Accepted(v), NEW d \in Nat, NEW m \in Nat
  PROVE  Clamp(v, d, m) \in Nat
BY DEF Accepted, Clamp

LEMMA InWindowIsRows ==
  ASSUME stored \subseteq Rows, NEW w, NEW t
  PROVE  InWindow(w, t) \subseteq stored
BY DEF InWindow

(* A window of a table that has grown holds what it held.                   *)
LEMMA WindowGrows ==
  ASSUME stored \subseteq Rows, NEW S \in SUBSET Rows, stored' = stored \cup S,
         UNCHANGED call
  PROVE  Cardinality(Counting(call.at)) \leq Cardinality(Counting(call.at)')
<1>1. Counting(call.at) \subseteq Counting(call.at)' /\ Counting(call.at)' \in SUBSET Rows
  BY DEF Counting, InWindow
<1>. QED  BY <1>1, ToolsAssumption, FS_Subset DEF ToolsAssumption

-----------------------------------------------------------------------------
(* What the tools keep.                                                     *)
ToolsInv == ToolsTypeOK /\ IdsKnown /\ StatsInv

(* A result whose ids are rows, or were asked for, and whose figures grow.  *)
LEMMA ReturnKeeps ==
  ASSUME ToolsInv, Len(results) < MaxCalls,
         NEW r \in Results, r.ids \subseteq stored \cup r.asked,
         r.stats # None => CountsGrow(r.stats),
         Returns(r), call' = None, UNCHANGED <<now, stored>>
  PROVE  ToolsInv'
<1>. USE DEF ToolsInv, ToolsTypeOK, Returns
<1>1. /\ results' \in Seq(Results) /\ Len(results') = Len(results) + 1
      /\ \A k \in 1 .. Len(results) : results'[k] = results[k]
      /\ results'[Len(results) + 1] = r
  BY AppendProperties
<1>2. Len(results) \in Nat /\ MaxCalls \in Nat
  BY ToolsAssumption DEF ToolsAssumption
<1>3. IdsKnown'
  <2>. SUFFICES ASSUME NEW k \in 1 .. Len(results')
                PROVE  results'[k].ids \subseteq stored \cup results'[k].asked
    BY DEF IdsKnown
  <2>1. k \in 1 .. Len(results) \/ k = Len(results) + 1
    BY <1>1, <1>2
  <2>. QED  BY <1>1, <2>1 DEF IdsKnown
<1>4. Len(results') \leq MaxCalls
  BY <1>1, <1>2
<1>5. StatsInv'
  <2>. SUFFICES ASSUME NEW k \in 1 .. Len(results'), results'[k].stats # None
                PROVE  CountsGrow(results'[k].stats)
    BY CountsGrowIsRigid DEF StatsInv
  <2>1. k \in 1 .. Len(results) \/ k = Len(results) + 1
    BY <1>1, <1>2
  <2>. QED  BY <1>1, <2>1 DEF StatsInv
<1>. QED  BY <1>1, <1>3, <1>4, <1>5

(* A call between its statements.                                           *)
LEMMA BeginKeeps ==
  ASSUME ToolsInv, Len(results) < MaxCalls, call' \in Calls,
         call'.count \leq Cardinality(InWindow(call'.window, call'.at) \cap call'.among)
           \/ call'.tool # "query_stats",
         UNCHANGED <<now, stored, results>>
  PROVE  ToolsInv'
<1>1. StatsInv'
  BY CountsGrowIsRigid DEF ToolsInv, StatsInv, Counting, InWindow
<1>. QED  BY <1>1 DEF ToolsInv, ToolsTypeOK, IdsKnown

LEMMA TextIsResult ==
  ASSUME NEW tool \in ToolNames, NEW ids \in SUBSET Ids, NEW asked \in SUBSET Ids
  PROVE  /\ Text(tool, ids, asked) \in Results
         /\ Text(tool, ids, asked).ids = ids \cup asked
         /\ Text(tool, ids, asked).asked = asked
         /\ Text(tool, ids, asked).stats = None
BY DEF Text, Results, Ids

(* A text of rows and of what the agent passed keeps the invariant.         *)
LEMMA TextKeeps ==
  ASSUME ToolsInv, Len(results) < MaxCalls,
         NEW tool \in ToolNames, NEW ids \in SUBSET Ids, NEW asked \in SUBSET Ids,
         ids \subseteq stored \cup asked,
         Returns(Text(tool, ids, asked)), call' = None, UNCHANGED <<now, stored>>
  PROVE  ToolsInv'
<1>. DEFINE r == Text(tool, ids, asked)
<1>1. r \in Results /\ r.ids \subseteq stored \cup r.asked /\ r.stats = None
  BY TextIsResult
<1>. HIDE DEF r
<1>. QED  BY <1>1, ReturnKeeps DEF r

LEMMA FilterFacts ==
  ASSUME NEW filter PROVE Passing(filter) \in SUBSET Rows /\ Repeated(filter) \in SUBSET Ids
BY DEF Passing, Repeated, Ids

LEMMA ToolStep ==
  ASSUME ToolsInv, Tool
  PROVE  ToolsInv' /\ UNCHANGED <<now, stored>>
<1>0. /\ now \in Nat /\ stored \subseteq Rows /\ MaxCalls \in Nat
      /\ \A w \in WindowArgs : w \in Int \cup {None}
      /\ \A n \in LimitArgs : n \in Int \cup {None}
      /\ {DefaultWindow, MaxWindow, DefaultLimit, MaxLimit} \subseteq Nat
  BY ToolsAssumption DEF ToolsAssumption, ToolsInv, ToolsTypeOK
<1>1. ASSUME NEW tool \in ToolNames, NEW ids \in Asks \cup {{}}, CallFails(tool, ids)
      PROVE  ToolsInv' /\ UNCHANGED <<now, stored>>
  <2>1. ids \in SUBSET Ids /\ {} \in SUBSET Ids
    BY ToolsAssumption DEF ToolsAssumption, Ids
  <2>2. /\ Returns(Text(tool, {}, ids)) /\ call' = None
        /\ Len(results) < MaxCalls /\ UNCHANGED <<now, stored>>
    BY <1>1 DEF CallFails, MayCall
  <2>. QED  BY <2>1, <2>2, TextKeeps
<1>2. ASSUME NEW ids \in Asks, GetByIds(ids)
      PROVE  ToolsInv' /\ UNCHANGED <<now, stored>>
  <2>1. /\ ids \in SUBSET Ids /\ ids \cap stored \in SUBSET Ids
        /\ ids \cap stored \subseteq stored \cup ids
        /\ "get_transactions" \in ToolNames
    BY ToolsAssumption DEF ToolsAssumption, Ids, ToolNames
  <2>2. /\ Returns(Text("get_transactions", ids \cap stored, ids)) /\ call' = None
        /\ Len(results) < MaxCalls /\ UNCHANGED <<now, stored>>
    BY <1>2 DEF GetByIds, MayCall
  <2>. QED  BY <2>1, <2>2, TextKeeps
<1>3. ASSUME NEW w \in WindowArgs, NEW n \in LimitArgs, NEW filter \in Filters, NEW S,
             GetByFilter(w, n, filter, S)
      PROVE  ToolsInv' /\ UNCHANGED <<now, stored>>
  <2>. DEFINE ids == Newest(InWindow(Clamp(w, DefaultWindow, MaxWindow), now)
                              \cap S \cap Passing(filter),
                            Clamp(n, DefaultLimit, MaxLimit))
  <2>1. ids \subseteq stored /\ ids \in SUBSET Ids /\ "get_transactions" \in ToolNames
    BY <1>0 DEF Newest, InWindow, Ids, ToolNames
  <2>2. /\ Returns(Text("get_transactions", ids, Repeated(filter))) /\ call' = None
        /\ Len(results) < MaxCalls /\ UNCHANGED <<now, stored>>
    BY <1>3 DEF GetByFilter, MayCall
  <2>. HIDE DEF ids
  <2>3. ids \subseteq stored \cup Repeated(filter)
    BY <2>1
  <2>. QED  BY <2>1, <2>2, <2>3, FilterFacts, TextKeeps
<1>4. ASSUME NEW w \in WindowArgs, Freshness(w)
      PROVE  ToolsInv' /\ UNCHANGED <<now, stored>>
  <2>1. {} \in SUBSET Ids /\ {} \subseteq stored \cup {} /\ "system_freshness" \in ToolNames
    BY DEF ToolNames
  <2>2. /\ Returns(Text("system_freshness", {}, {})) /\ call' = None
        /\ Len(results) < MaxCalls /\ UNCHANGED <<now, stored>>
    BY <1>4 DEF Freshness, MayCall
  <2>. QED  BY <2>1, <2>2, TextKeeps
<1>5. ASSUME NEW w \in WindowArgs, NEW n \in LimitArgs, NEW filter \in Filters,
             NEW metric \in Metrics, NEW grouped \in BOOLEAN,
             StatsTotal(w, n, filter, metric, grouped)
      PROVE  ToolsInv' /\ UNCHANGED <<now, stored>>
  <2>1. /\ Clamp(w, DefaultWindow, MaxWindow) \in Nat
        /\ Clamp(n, DefaultLimit, MaxLimit) \in Nat
    BY <1>0, <1>5, ClampIsNat DEF StatsTotal
  <2>2. Cardinality(InWindow(Clamp(w, DefaultWindow, MaxWindow), now) \cap Passing(filter))
          \in Nat
    BY <1>0, CountIsNat DEF InWindow
  <2>3. /\ call' \in Calls
        /\ call'.count = Cardinality(InWindow(call'.window, call'.at) \cap call'.among)
    BY <1>0, <1>5, <2>1, <2>2, FilterFacts DEF StatsTotal, Calls, Ids
  <2>4. call'.count \leq Cardinality(InWindow(call'.window, call'.at) \cap call'.among)
    BY <2>3 DEF Calls
  <2>. QED  BY <1>5, <2>3, <2>4, BeginKeeps DEF StatsTotal, MayCall
<1>6. ASSUME NEW w \in WindowArgs, NEW n \in LimitArgs, NEW filter \in Filters,
             NEW query \in Asks \cup {{}}, SearchCount(w, n, filter, query)
      PROVE  ToolsInv' /\ UNCHANGED <<now, stored>>
  <2>1. /\ Clamp(w, DefaultWindow, MaxWindow) \in Nat
        /\ Clamp(n, DefaultLimit, MaxLimit) \in Nat
    BY <1>0, <1>6, ClampIsNat DEF SearchCount
  <2>2. Cardinality(InWindow(Clamp(w, DefaultWindow, MaxWindow), now)
                      \cap Passing(filter) \cap Failed) \in Nat
    BY <1>0, CountIsNat DEF InWindow
  <2>3. query \cup Repeated(filter) \in SUBSET Ids
    BY FilterFacts, ToolsAssumption DEF ToolsAssumption, Ids
  <2>4. Passing(filter) \cap Failed \in SUBSET Rows
    BY FilterFacts
  <2>5. call' \in Calls /\ call'.tool = "semantic_search"
    BY <1>0, <1>6, <2>1, <2>2, <2>3, <2>4 DEF SearchCount, Calls, Ids
  <2>. QED  BY <1>6, <2>5, BeginKeeps DEF SearchCount, MayCall
<1>7. ASSUME StatsGroups PROVE ToolsInv' /\ UNCHANGED <<now, stored>>
  <2>. DEFINE rows == Counting(call.at)
              figures(G) == [window |-> call.window, total |-> call.count, groups |-> G,
                             limit |-> call.limit, rows |-> rows,
                             metric |-> call.metric, grouped |-> call.grouped]
              text(G) == [Text("query_stats", {}, call.asked) EXCEPT !.stats = figures(G)]
  <2>1. call \in Calls /\ Len(results) < MaxCalls
    BY <1>7 DEF StatsGroups, ToolsInv, ToolsTypeOK
  <2>2. rows \in SUBSET Rows
    BY <1>0 DEF Counting, InWindow
  <2>3. PICK G \in GroupsReturned(rows, call.limit, call.metric, call.grouped) :
          Returns(text(G))
    BY <1>7 DEF StatsGroups, GroupsOf
  <2>4. G \subseteq Gateways
    <3>1. G \subseteq {GatewayOf[r] : r \in rows}
      BY <2>3 DEF GroupsReturned, TopGroups
    <3>. QED  BY <2>2, <3>1, ToolsAssumption DEF ToolsAssumption
  <2>5. figures(G) \in Statistics
    <3>. HIDE DEF rows
    <3>. QED  BY <2>1, <2>2, <2>4 DEF Statistics, Calls
  <2>6. CountsGrow(figures(G))
    <3>1. call.count \leq Cardinality(rows)
      BY <1>7 DEF StatsGroups, ToolsInv, StatsInv
    <3>. HIDE DEF rows
    <3>. QED  BY <2>3, <3>1 DEF CountsGrow
  <2>. HIDE DEF rows, figures
  <2>7. /\ text(G) \in Results /\ text(G).ids = call.asked /\ text(G).asked = call.asked
        /\ text(G).stats = figures(G)
    BY <2>1, <2>5 DEF Text, Results, ToolNames, Calls
  <2>. HIDE DEF text
  <2>. QED  BY <1>7, <2>1, <2>3, <2>6, <2>7, ReturnKeeps DEF StatsGroups
<1>8. ASSUME SearchRows PROVE ToolsInv' /\ UNCHANGED <<now, stored>>
  <2>1. Len(results) < MaxCalls /\ call.asked \in SUBSET Ids
    BY <1>8 DEF SearchRows, ToolsInv, ToolsTypeOK, Calls, Ids
  <2>2. PICK S \in SUBSET Counting(call.at) :
          Returns(Text("semantic_search", S, call.asked))
    BY <1>8 DEF SearchRows
  <2>3. S \subseteq stored \cup call.asked /\ S \in SUBSET Ids
    BY <1>0 DEF Counting, InWindow, Ids
  <2>4. "semantic_search" \in ToolNames
    BY DEF ToolNames
  <2>5. call' = None /\ UNCHANGED <<now, stored>>
    BY <1>8 DEF SearchRows
  <2>. QED  BY <2>1, <2>2, <2>3, <2>4, <2>5, TextKeeps
<1>. QED  BY <1>1, <1>2, <1>3, <1>4, <1>5, <1>6, <1>7, <1>8 DEF Tool

LEMMA StreamStep ==
  ASSUME ToolsInv, Stream
  PROVE  ToolsInv' /\ stored \subseteq stored' /\ UNCHANGED <<call, results>>
<1>1. ASSUME Tick PROVE ToolsInv' /\ stored \subseteq stored' /\ UNCHANGED <<call, results>>
  <2>1. UNCHANGED <<stored, call, results>>
    BY <1>1 DEF Tick
  <2>2. StatsInv'
    BY <2>1, CountsGrowIsRigid DEF ToolsInv, StatsInv, Counting, InWindow
  <2>. QED  BY <1>1, <2>1, <2>2, ToolsAssumption
            DEF ToolsAssumption, Tick, ToolsInv, ToolsTypeOK, IdsKnown
<1>2. ASSUME NEW S \in SUBSET Rows, Land(S)
      PROVE  ToolsInv' /\ stored \subseteq stored' /\ UNCHANGED <<call, results>>
  <2>1. stored' = stored \cup S /\ UNCHANGED <<now, call, results>>
    BY <1>2 DEF Land
  <2>2. ToolsTypeOK' /\ IdsKnown'
    BY <2>1 DEF ToolsInv, ToolsTypeOK, IdsKnown
  <2>3. StatsInv'
    <3>1. Cardinality(Counting(call.at)) \leq Cardinality(Counting(call.at)')
      BY <2>1, WindowGrows DEF ToolsInv, ToolsTypeOK
    <3>2. ASSUME call # None
          PROVE  /\ call.count \in Nat
                 /\ Cardinality(Counting(call.at)) \in Nat
                 /\ Cardinality(Counting(call.at)') \in Nat
      BY <2>1, <3>2, CountIsNat DEF ToolsInv, ToolsTypeOK, Counting, InWindow, Calls
    <3>3. call # None /\ call.tool = "query_stats" =>
            call.count \leq Cardinality(Counting(call.at)')
      BY <3>1, <3>2 DEF ToolsInv, StatsInv
    <3>. QED  BY <2>1, <3>3, CountsGrowIsRigid DEF ToolsInv, StatsInv
  <2>. QED  BY <2>1, <2>2, <2>3 DEF ToolsInv
<1>. QED  BY <1>1, <1>2 DEF Stream
-----------------------------------------------------------------------------
(* Two sets of rows differ in the count of a group by no more than the rows *)
(* of the group that are in one of them only, and in the number of failures *)
(* times the other's count by no more than those times the own count.       *)
LEMMA CountsDiffer ==
  ASSUME NEW S \in SUBSET Rows, NEW T \in SUBSET Rows, NEW g
  PROVE  LET n1 == Counted(S, g)
             n2 == Counted(T, g)
             D  == Counted((S \ T) \cup (T \ S), g)
         IN  /\ n1 \leq n2 + D /\ n2 \leq n1 + D
             /\ FailedOf(S, g) * n2 \leq FailedOf(T, g) * n1 + D * n1
             /\ FailedOf(T, g) * n1 \leq FailedOf(S, g) * n2 + D * n1
<1>. DEFINE In(X)  == {r \in X : GatewayOf[r] = g}
            c  == Cardinality(In(S \cap T))
            b  == Cardinality(In(S \ T))
            a  == Cardinality(In(T \ S))
            fc == Cardinality(In(S \cap T \cap Failed))
            fb == Cardinality(In((S \ T) \cap Failed))
            fa == Cardinality(In((T \ S) \cap Failed))
<1>1. \A X \in SUBSET Rows : IsFiniteSet(In(X)) /\ Cardinality(In(X)) \in Nat
  <2>1. \A X \in SUBSET Rows : In(X) \in SUBSET Rows
    OBVIOUS
  <2>. QED  BY <2>1, ToolsAssumption, FS_Subset, FS_CardinalityType DEF ToolsAssumption
<1>2. \A X, Y \in SUBSET Rows : X \cap Y = {} =>
        Cardinality(In(X \cup Y)) = Cardinality(In(X)) + Cardinality(In(Y))
  <2>. SUFFICES ASSUME NEW X \in SUBSET Rows, NEW Y \in SUBSET Rows, X \cap Y = {}
                PROVE  Cardinality(In(X \cup Y)) = Cardinality(In(X)) + Cardinality(In(Y))
    OBVIOUS
  <2>1. In(X \cup Y) = In(X) \cup In(Y) /\ In(X) \cap In(Y) = {}
    OBVIOUS
  <2>2. IsFiniteSet(In(X)) /\ IsFiniteSet(In(Y))
        /\ Cardinality(In(X)) \in Nat /\ Cardinality(In(Y)) \in Nat
    BY <1>1
  <2>. HIDE DEF In
  <2>3. Cardinality(In(X) \cup In(Y))
          = Cardinality(In(X)) + Cardinality(In(Y)) - Cardinality(In(X) \cap In(Y))
    BY <2>2, FS_Union
  <2>4. Cardinality(In(X) \cap In(Y)) = 0
    BY <2>1, FS_EmptySet
  <2>5. Cardinality(In(X \cup Y)) = Cardinality(In(X) \cup In(Y))
    BY <2>1
  <2>. QED  BY <2>2, <2>3, <2>4, <2>5
<1>3. \A X, Y \in SUBSET Rows : X \subseteq Y => Cardinality(In(X)) \leq Cardinality(In(Y))
  <2>1. \A X, Y : X \subseteq Y => In(X) \subseteq In(Y)
    OBVIOUS
  <2>. HIDE DEF In
  <2>. QED  BY <1>1, <2>1, FS_Subset
<1>4. /\ Counted(S, g) = c + b /\ Counted(T, g) = c + a
      /\ Counted((S \ T) \cup (T \ S), g) = b + a
  <2>1. /\ S = (S \cap T) \cup (S \ T) /\ T = (S \cap T) \cup (T \ S)
        /\ (S \cap T) \cap (S \ T) = {} /\ (S \cap T) \cap (T \ S) = {}
        /\ (S \ T) \cap (T \ S) = {}
    OBVIOUS
  <2>2. \A X : Counted(X, g) = Cardinality(In(X))
    BY DEF Counted
  <2>3. S \cap T \in SUBSET Rows /\ S \ T \in SUBSET Rows /\ T \ S \in SUBSET Rows
    OBVIOUS
  <2>. HIDE DEF In
  <2>. QED  BY <1>2, <2>1, <2>2, <2>3
<1>5. FailedOf(S, g) = fc + fb /\ FailedOf(T, g) = fc + fa
  <2>1. /\ S \cap Failed = (S \cap T \cap Failed) \cup ((S \ T) \cap Failed)
        /\ T \cap Failed = (S \cap T \cap Failed) \cup ((T \ S) \cap Failed)
        /\ (S \cap T \cap Failed) \cap ((S \ T) \cap Failed) = {}
        /\ (S \cap T \cap Failed) \cap ((T \ S) \cap Failed) = {}
    OBVIOUS
  <2>2. \A X : FailedOf(X, g) = Cardinality(In(X \cap Failed))
    BY DEF FailedOf, Counted
  <2>3. /\ S \cap T \cap Failed \in SUBSET Rows /\ (S \ T) \cap Failed \in SUBSET Rows
        /\ (T \ S) \cap Failed \in SUBSET Rows
    OBVIOUS
  <2>. HIDE DEF In
  <2>4. Cardinality(In(S \cap Failed)) = fc + fb
    BY <1>2, <2>1, <2>3
  <2>5. Cardinality(In(T \cap Failed)) = fc + fa
    BY <1>2, <2>1, <2>3
  <2>. QED  BY <2>2, <2>4, <2>5
<1>6. /\ {a, b, c, fa, fb, fc} \subseteq Nat
      /\ fa \leq a /\ fb \leq b /\ fc \leq c
  <2>1. /\ S \cap T \in SUBSET Rows /\ S \ T \in SUBSET Rows /\ T \ S \in SUBSET Rows
        /\ S \cap T \cap Failed \in SUBSET Rows /\ (S \ T) \cap Failed \in SUBSET Rows
        /\ (T \ S) \cap Failed \in SUBSET Rows
        /\ S \cap T \cap Failed \subseteq S \cap T
        /\ (S \ T) \cap Failed \subseteq S \ T /\ (T \ S) \cap Failed \subseteq T \ S
    OBVIOUS
  <2>. HIDE DEF In
  <2>. QED  BY <1>1, <1>3, <2>1
<1>. HIDE DEF a, b, c, fa, fb, fc
<1>7. ASSUME NEW x \in Nat, NEW fx \in Nat, fx \leq x, NEW y \in Nat
      PROVE  fx * y \leq x * y
  BY <1>7
<1>8. /\ (fc + fb) * (c + a) \leq (fc + fa) * (c + b) + (b + a) * (c + b)
      /\ (fc + fa) * (c + b) \leq (fc + fb) * (c + a) + (b + a) * (c + b)
  <2>1. /\ fc * a \leq c * a /\ fb * c \leq b * c /\ fb * a \leq b * a
        /\ fc * b \leq c * b /\ fa * c \leq a * c /\ fa * b \leq a * b
    BY <1>6, <1>7
  <2>2. {fc * a, fb * c, fb * a, fc * b, fa * c, fa * b, b * b, fc * c} \subseteq Nat
    BY <1>6
  <2>. QED  BY <1>6, <2>1, <2>2
<1>. QED  BY <1>4, <1>5, <1>6, <1>8

(* Two fractions that differ by at most P ten-thousandths are rounded to    *)
(* ten-thousandths that differ by at most P.                                *)
LEMMA RoundedWithin ==
  ASSUME NEW f1 \in Nat, NEW n1 \in Nat \ {0}, NEW f2 \in Nat, NEW n2 \in Nat \ {0},
         NEW P \in Nat, 10000 * (f1 * n2) \leq 10000 * (f2 * n1) + P * (n1 * n2)
  PROVE  (20000 * f1 + n1) \div (2 * n1) \leq ((20000 * f2 + n2) \div (2 * n2)) + P
<1>. DEFINE R1 == (20000 * f1 + n1) \div (2 * n1)
            R2 == (20000 * f2 + n2) \div (2 * n2)
<1>1. /\ R1 \in Int /\ (2 * n1) * R1 \leq 20000 * f1 + n1
      /\ R2 \in Int /\ 20000 * f2 + n2 < (2 * n2) * (R2 + 1)
  OBVIOUS
<1>. HIDE DEF R1, R2
<1>. SUFFICES ASSUME R1 \geq R2 + P + 1 PROVE FALSE
  BY <1>1 DEF R1, R2
<1>2. (2 * n1) * (R2 + P + 1) \leq 20000 * f1 + n1
  <2>1. (2 * n1) * (R2 + P + 1) \leq (2 * n1) * R1
    BY <1>1
  <2>. QED  BY <1>1, <2>1
<1>3. ((2 * n1) * (R2 + P + 1)) * n2 \leq (20000 * f1 + n1) * n2
  BY <1>1, <1>2
<1>4. (20000 * f2 + n2) * n1 < ((2 * n2) * (R2 + 1)) * n1
  BY <1>1
<1>5. ((2 * n1) * (R2 + P + 1)) * n2 = ((2 * n2) * (R2 + 1)) * n1 + 2 * (P * (n1 * n2))
  BY <1>1
<1>6. /\ (20000 * f1 + n1) * n2 = 20000 * (f1 * n2) + n1 * n2
      /\ (20000 * f2 + n2) * n1 = 20000 * (f2 * n1) + n1 * n2
  OBVIOUS
<1>7. {f1 * n2, f2 * n1, n1 * n2, P * (n1 * n2), ((2 * n2) * (R2 + 1)) * n1} \subseteq Int
  BY <1>1
<1>. QED  BY <1>3, <1>4, <1>5, <1>6, <1>7

(* A rate over rows of which few came or went has moved by less than the    *)
(* tolerance.                                                               *)
LEMMA RatesWithin ==
  ASSUME NEW S \in SUBSET Rows, NEW T \in SUBSET Rows, NEW g,
         Counted(S, g) # 0, Counted(T, g) # 0, NEW P \in Nat,
         10000 * Counted((S \ T) \cup (T \ S), g) \leq P * Counted(T, g)
  PROVE  Rate(S, g) \leq Rate(T, g) + P /\ Rate(T, g) \leq Rate(S, g) + P
<1>. DEFINE n1 == Counted(S, g)
            n2 == Counted(T, g)
            f1 == FailedOf(S, g)
            f2 == FailedOf(T, g)
            D  == Counted((S \ T) \cup (T \ S), g)
<1>1. /\ n1 \in Nat \ {0} /\ n2 \in Nat \ {0} /\ f1 \in Nat /\ f2 \in Nat /\ D \in Nat
  BY CountedIsNat
<1>2. f1 * n2 \leq f2 * n1 + D * n1 /\ f2 * n1 \leq f1 * n2 + D * n1
  BY CountsDiffer
<1>3. 10000 * D \leq P * n2
  OBVIOUS
<1>4. /\ Rate(S, g) = (20000 * f1 + n1) \div (2 * n1)
      /\ Rate(T, g) = (20000 * f2 + n2) \div (2 * n2)
  BY DEF Rate
<1>. HIDE DEF n1, n2, f1, f2, D
<1>5. 10000 * (D * n1) \leq P * (n1 * n2)
  <2>1. (10000 * D) * n1 \leq (P * n2) * n1
    BY <1>1, <1>3
  <2>2. (10000 * D) * n1 = 10000 * (D * n1) /\ (P * n2) * n1 = P * (n1 * n2)
    BY <1>1
  <2>. QED  BY <2>1, <2>2
<1>6. {f1 * n2, f2 * n1, D * n1, P * (n1 * n2)} \subseteq Nat /\ n1 * n2 = n2 * n1
  BY <1>1
<1>7. /\ 10000 * (f1 * n2) \leq 10000 * (f2 * n1) + P * (n1 * n2)
      /\ 10000 * (f2 * n1) \leq 10000 * (f1 * n2) + P * (n2 * n1)
  BY <1>2, <1>5, <1>6
<1>. QED  BY <1>1, <1>4, <1>7, RoundedWithin

(* A group that the tool returned has a row.                                *)
LEMMA GroupHasRow ==
  ASSUME NEW s, CountsGrow(s), s.grouped, s.rows \in SUBSET Rows, NEW g \in s.groups
  PROVE  Counted(s.rows, g) \in Nat \ {0}
<1>1. g \in {GatewayOf[r] : r \in s.rows}
  BY DEF CountsGrow, GroupsReturned, TopGroups
<1>2. {r \in s.rows : GatewayOf[r] = g} # {} /\ {r \in s.rows : GatewayOf[r] = g} \in SUBSET Rows
  BY <1>1
<1>3. IsFiniteSet({r \in s.rows : GatewayOf[r] = g})
  BY <1>2, ToolsAssumption, FS_Subset DEF ToolsAssumption
<1>. QED  BY <1>2, <1>3, FS_EmptySet, CountedIsNat DEF Counted

(* A quotation of rows that hardly differ from the ground truth's passes.   *)
LEMMA QuotedIsAccurate ==
  ASSUME NEW s, CountsGrow(s), s.rows \in SUBSET Rows, truth.rows \in SUBSET Rows,
         Quotes(s), NEW numeric \in NumericVerdicts
  PROVE  numeric
<1>1. CASE question = "aggregation"
  <2>. SUFFICES ASSUME NEW g \in Gateways, answer.numbers[g] # None
                PROVE  WithinTolerance(answer.numbers[g], Counted(truth.rows, g))
    BY <1>1 DEF NumericVerdicts
  <2>. DEFINE x == Counted(s.rows, g)
              y == Counted(truth.rows, g)
              D == Counted((s.rows \ truth.rows) \cup (truth.rows \ s.rows), g)
  <2>1. answer.numbers[g] = x /\ 100 * D \leq CountTolerance * y
    BY <1>1 DEF Quotes, ComeOrGone
  <2>2. x \in Nat /\ y \in Nat /\ D \in Nat
    BY CountedIsNat
  <2>3. x \leq y + D /\ y \leq x + D
    BY CountsDiffer
  <2>. HIDE DEF x, y, D
  <2>4. CountTolerance * y \in Nat
    BY <2>2, EvalAssumption DEF EvalAssumption
  <2>5. 100 * (IF x > y THEN x - y ELSE y - x) \leq CountTolerance * y
    BY <2>1, <2>2, <2>3, <2>4
  <2>. QED  BY <2>1, <2>5 DEF WithinTolerance, y
<1>2. CASE question = "gateway_rate"
  <2>. SUFFICES ASSUME answer.rate # None, Counted(truth.rows, Focus) # 0
                PROVE  RateVerdicts(answer.rate, Rate(truth.rows, Focus)) = {TRUE}
    BY <1>2 DEF NumericVerdicts
  <2>. DEFINE x == Rate(s.rows, Focus)
              y == Rate(truth.rows, Focus)
              P == RateTolerance - 1
  <2>1. /\ Focus \in s.groups /\ s.grouped /\ answer.rate = x
        /\ 10000 * Counted((s.rows \ truth.rows) \cup (truth.rows \ s.rows), Focus)
             \leq P * Counted(truth.rows, Focus)
    BY <1>2 DEF Quotes, ComeOrGone
  <2>2. P \in Nat
    BY EvalAssumption DEF EvalAssumption
  <2>3. Counted(s.rows, Focus) \in Nat \ {0} /\ Counted(truth.rows, Focus) \in Nat \ {0}
    BY <2>1, GroupHasRow, CountedIsNat
  <2>4. x \in Int /\ y \in Int
    BY <2>3, CountedIsNat DEF Rate
  <2>. HIDE DEF P
  <2>5. x \leq y + P /\ y \leq x + P
    BY <2>1, <2>2, <2>3, RatesWithin
  <2>. HIDE DEF x, y
  <2>6. (IF x > y THEN x - y ELSE y - x) < RateTolerance
    BY <2>4, <2>5, EvalAssumption DEF EvalAssumption, P
  <2>7. RateVerdicts(x, y) = {TRUE}
    BY <2>6 DEF RateVerdicts
  <2>. QED  BY <2>1, <2>7 DEF y
<1>3. CASE question \notin {"aggregation", "gateway_rate"}
  BY <1>3 DEF NumericVerdicts
<1>. QED  BY <1>1, <1>2, <1>3

(* The pass flag is set exactly when the list of reasons is empty.          *)
LEMMA ReasonsDecide ==
  ASSUME NEW citation, NEW numeric \in BOOLEAN
  PROVE  OverallPass(citation, numeric) <=> FailureReasons(citation, numeric) = {}
<1>1. FailureReasons(citation, numeric) = {} <=>
        /\ citation.passed /\ numeric /\ RoutingPassed
        /\ {j \in Mechanical : Attempted(j) /\ ~Holds(j, citation)} = {}
  BY DEF FailureReasons
<1>. QED  BY <1>1 DEF OverallPass

(* A valid citation occurs in a result.                                     *)
LEMMA CitationFacts ==
  ASSUME NEW cited, NEW existing, NEW checked
  PROVE  CheckCitations(cited, existing, checked).valid \subseteq Blob
BY DEF CheckCitations

(* The sum of the counts of some groups is the number of their rows.        *)
LEMMA GroupsAddUp ==
  ASSUME NEW S \in SUBSET Rows, NEW G, IsFiniteSet(G)
  PROVE  MapThenSumSet(LAMBDA g : Counted(S, g), G)
           = Cardinality({r \in S : GatewayOf[r] \in G})
<1>. DEFINE pick(s) == CHOOSE x \in s : TRUE
            In(s)   == {r \in S : GatewayOf[r] \in s}
            size    == [s \in SUBSET G |-> Cardinality(In(s))]
            sums(h) == h = [s \in SUBSET G |->
                              IF s = {} THEN 0
                              ELSE Counted(S, pick(s)) + h[s \ {pick(s)}]]
            sum     == CHOOSE h : sums(h)
<1>1. MapThenSumSet(LAMBDA g : Counted(S, g), G) = sum[G]
  BY DEF MapThenSumSet, MapThenFoldSet
<1>2. \A s : s # {} => pick(s) \in s
  OBVIOUS
<1>3. \A s : IsFiniteSet(In(s)) /\ Cardinality(In(s)) \in Nat
  <2>1. \A s : In(s) \subseteq Rows
    OBVIOUS
  <2>. QED  BY <2>1, ToolsAssumption, FS_Subset, FS_CardinalityType DEF ToolsAssumption
<1>4. \A s, x : x \in s =>
        Cardinality(In(s)) = Counted(S, x) + Cardinality(In(s \ {x}))
  <2>. TAKE s, x
  <2>. HAVE x \in s
  <2>1. In(s) = In({x}) \cup In(s \ {x}) /\ In({x}) \cap In(s \ {x}) = {}
    OBVIOUS
  <2>2. Counted(S, x) = Cardinality(In({x}))
    BY DEF Counted
  <2>. HIDE DEF In
  <2>3. Cardinality(In(s)) = Cardinality(In({x})) + Cardinality(In(s \ {x})) - Cardinality({})
    BY <1>3, <2>1, FS_Union
  <2>. QED  BY <1>3, <2>2, <2>3, FS_EmptySet
<1>5. sums(size)
  <2>. SUFFICES ASSUME NEW s \in SUBSET G
                PROVE  size[s] = IF s = {} THEN 0
                                 ELSE Counted(S, pick(s)) + size[s \ {pick(s)}]
    OBVIOUS
  <2>1. CASE s = {}
    BY <2>1, FS_EmptySet
  <2>2. CASE s # {}
    <3>. HIDE DEF pick, In
    <3>. QED  BY <1>2, <1>4, <2>2
  <2>. QED  BY <2>1, <2>2
<1>6. sums(sum)
  BY <1>5
<1>. HIDE DEF sum
<1>7. SUBSET G \subseteq {s \in SUBSET G : sum[s] = size[s]}
  <2>. DEFINE P == {s \in SUBSET G : sum[s] = size[s]}
  <2>1. ASSUME NEW T \in SUBSET G, \A x \in T : T \ {x} \in P
        PROVE  T \in P
    <3>1. \A s \in SUBSET G :
            /\ sum[s] = IF s = {} THEN 0 ELSE Counted(S, pick(s)) + sum[s \ {pick(s)}]
            /\ size[s] = IF s = {} THEN 0 ELSE Counted(S, pick(s)) + size[s \ {pick(s)}]
      BY <1>5, <1>6
    <3>. HIDE DEF pick, size
    <3>. QED  BY <1>2, <2>1, <3>1
  <2>2. SUBSET G \subseteq P
    <3>. HIDE DEF P
    <3>. QED  BY <2>1, FiniteSetInduction
  <2>. QED  BY <2>2
<1>. QED  BY <1>1, <1>7

(* With fewer groups than the limit allows, none is left out.               *)
LEMMA NoGroupLeftOut ==
  ASSUME NEW S \in SUBSET Rows, NEW limit \in Nat, NEW metric,
         NEW G \in TopGroups(S, limit, metric),
         Cardinality(G) < limit
  PROVE  IsFiniteSet(G) /\ {r \in S : GatewayOf[r] \in G} = S
<1>. DEFINE groups == {GatewayOf[r] : r \in S}
<1>1. IsFiniteSet(groups) /\ Cardinality(groups) \in Nat
  <2>1. IsFiniteSet(S)
    BY ToolsAssumption, FS_Subset DEF ToolsAssumption
  <2>. DEFINE f == [r \in S |-> GatewayOf[r]]
  <2>2. f \in Surjection(S, groups)
    BY DEF Surjection
  <2>3. IsFiniteSet(groups)
    BY <2>1, <2>2, FS_Surjection
  <2>. QED  BY <2>3, FS_CardinalityType
<1>2. /\ G \subseteq groups
      /\ Cardinality(G) = Min({limit, Cardinality(groups)})
  BY DEF TopGroups
<1>. HIDE DEF groups
<1>3. Min({limit, Cardinality(groups)}) \in {limit, Cardinality(groups)}
  <2>1. \E x \in {limit, Cardinality(groups)} :
          \A y \in {limit, Cardinality(groups)} : x \leq y
    BY <1>1
  <2>. QED  BY <2>1 DEF Min
<1>4. G = groups
  BY <1>1, <1>2, <1>3, FS_Subset
<1>. QED  BY <1>1, <1>4 DEF groups

-----------------------------------------------------------------------------
LEMMA InitInv == Init => EvalInv
<1>. SUFFICES ASSUME Init PROVE EvalInv
  OBVIOUS
<1>. USE DEF Init
<1>1. ToolsTypeOK /\ IdsKnown /\ StatsInv
  <2>1. MaxNow \in Nat /\ MaxCalls \in Nat
    BY ToolsAssumption DEF ToolsAssumption
  <2>2. <<>> \in Seq(Results) /\ Len(<<>>) = 0
    OBVIOUS
  <2>. QED  BY <2>1, <2>2 DEF ToolsTypeOK, IdsKnown, StatsInv
<1>2. TypeOK
  BY <1>1 DEF TypeOK
<1>. QED  BY <1>1, <1>2 DEF EvalInv, ValidIsRowOrAsked, FabricatedWasAbsent,
                            PassIffNoReasons, QuotesAreAccurate

(* Before the grading nothing is said of a verdict.                         *)
LEMMA UngradedIsSafe ==
  ASSUME TypeOK', IdsKnown', StatsInv', verdict' = None
  PROVE  EvalInv'
BY DEF EvalInv, ValidIsRowOrAsked, FabricatedWasAbsent, PassIffNoReasons,
       QuotesAreAccurate

(* A step of the harness or the grader leaves the tools alone.              *)
LEMMA ToolsKept ==
  ASSUME ToolsTypeOK, IdsKnown, StatsInv, UNCHANGED toolVars
  PROVE  ToolsTypeOK' /\ IdsKnown' /\ StatsInv'
<1>1. ToolsTypeOK' /\ IdsKnown'
  BY DEF toolVars, ToolsTypeOK, IdsKnown
<1>2. StatsInv'
  BY CountsGrowIsRigid DEF toolVars, StatsInv, Counting, InWindow
<1>. QED  BY <1>1, <1>2

LEMMA AgentStep == ASSUME EvalInv, Agent PROVE EvalInv'
<1>1. ToolsInv' /\ UNCHANGED <<now, stored>>
  BY ToolStep DEF Agent, EvalInv, TypeOK, ToolsInv
<1>2. TypeOK' /\ verdict' = None
  BY <1>1 DEF EvalInv, TypeOK, ToolsInv, Agent, evalVars
<1>. QED  BY <1>1, <1>2, UngradedIsSafe DEF ToolsInv

LEMMA AnswerStep == ASSUME EvalInv, NEW a, Answer(a) PROVE EvalInv'
<1>1. ToolsTypeOK' /\ IdsKnown' /\ StatsInv'
  BY ToolsKept DEF EvalInv, TypeOK, Answer
<1>2. TypeOK' /\ verdict' = None
  BY <1>1 DEF EvalInv, TypeOK, Answer, toolVars
<1>. QED  BY <1>1, <1>2, UngradedIsSafe

LEMMA CaptureStep == ASSUME EvalInv, Capture PROVE EvalInv'
<1>1. ToolsTypeOK' /\ IdsKnown' /\ StatsInv'
  BY ToolsKept DEF EvalInv, TypeOK, Capture
<1>2. truth'.rows \subseteq Rows
  BY InWindowIsRows DEF EvalInv, TypeOK, ToolsTypeOK, Capture
<1>3. TypeOK' /\ verdict' = None
  BY <1>1, <1>2 DEF EvalInv, TypeOK, Capture, toolVars
<1>. QED  BY <1>1, <1>3, UngradedIsSafe

LEMMA GradeStep == ASSUME EvalInv, NEW checked \in BOOLEAN, Grade(checked) PROVE EvalInv'
<1>. DEFINE existing == IF checked THEN answer.cited \cap stored ELSE {}
            citation == CheckCitations(answer.cited, existing, checked)
<1>0. /\ phase = "captured" /\ phase' = "graded"
      /\ UNCHANGED <<toolVars, question, answer, truth, answeredOn>>
      /\ verdict'.citation = citation /\ verdict'.checked = checked
      /\ verdict'.numeric \in NumericVerdicts
      /\ verdict'.pass = OverallPass(citation, verdict'.numeric)
      /\ verdict'.reasons = FailureReasons(citation, verdict'.numeric)
  BY DEF Grade
<1>. HIDE DEF citation
<1>1. ToolsTypeOK' /\ IdsKnown' /\ StatsInv'
  BY <1>0, ToolsKept DEF EvalInv, TypeOK
<1>2. TypeOK'
  BY <1>0, <1>1 DEF EvalInv, TypeOK, toolVars
<1>3. ValidIsRowOrAsked'
  <2>1. citation.valid \subseteq Blob
    BY CitationFacts DEF citation
  <2>2. Blob \subseteq stored \cup UNION {results[k].asked : k \in 1 .. Len(results)}
    BY DEF EvalInv, IdsKnown, Blob
  <2>. QED  BY <1>0, <2>1, <2>2 DEF ValidIsRowOrAsked, toolVars
<1>4. FabricatedWasAbsent'
  <2>. SUFFICES ASSUME checked PROVE citation.fabricated \cap answeredOn = {}
    BY <1>0 DEF FabricatedWasAbsent
  <2>1. citation.fabricated \subseteq answer.cited \ existing
    <3>. HIDE DEF existing
    <3>1. citation = CheckCitations(answer.cited, existing, TRUE)
      BY Zenon DEF citation
    <3>. QED  BY <3>1 DEF CheckCitations
  <2>2. answeredOn \subseteq stored
    BY DEF EvalInv, TypeOK
  <2>. QED  BY <2>1, <2>2
<1>5. PassIffNoReasons'
  <2>1. verdict'.numeric \in BOOLEAN
    BY <1>0 DEF NumericVerdicts, RateVerdicts
  <2>. QED  BY <1>0, <2>1, ReasonsDecide DEF PassIffNoReasons
<1>6. QuotesAreAccurate'
  <2>1. truth.rows \in SUBSET Rows
    BY <1>0 DEF EvalInv, TypeOK
  <2>2. ASSUME NEW k \in 1 .. Len(results), results[k].stats # None, Quotes(results[k].stats)
        PROVE  verdict'.numeric
    <3>1. results[k] \in Results /\ CountsGrow(results[k].stats)
      BY <2>2 DEF EvalInv, TypeOK, ToolsTypeOK, StatsInv
    <3>2. results[k].stats.rows \in SUBSET Rows
      BY <2>2, <3>1 DEF Results, Statistics
    <3>. QED  BY <1>0, <2>1, <2>2, <3>1, <3>2, QuotedIsAccurate
  <2>3. \A s : Quotes(s)' = Quotes(s)
    BY <1>0 DEF Quotes, ComeOrGone, Rate, Counted, FailedOf
  <2>. QED  BY <1>0, <2>2, <2>3 DEF QuotesAreAccurate, toolVars
<1>. QED  BY <1>1, <1>2, <1>3, <1>4, <1>5, <1>6 DEF EvalInv

LEMMA GradeRaisesStep == ASSUME EvalInv, GradeRaises PROVE EvalInv'
<1>1. ToolsTypeOK' /\ IdsKnown' /\ StatsInv'
  BY ToolsKept DEF EvalInv, TypeOK, GradeRaises
<1>2. TypeOK' /\ verdict' = None
  BY <1>1 DEF EvalInv, TypeOK, GradeRaises, toolVars
<1>. QED  BY <1>1, <1>2, UngradedIsSafe

LEMMA QuotesKept ==
  ASSUME QuotesAreAccurate, UNCHANGED <<results, question, answer, truth, verdict>>
  PROVE  QuotesAreAccurate'
<1>1. \A s : Quotes(s)' = Quotes(s)
  BY DEF Quotes, ComeOrGone, Rate, Counted, FailedOf
<1>. QED  BY <1>1 DEF QuotesAreAccurate

LEMMA StreamKeeps == ASSUME EvalInv, Stream, UNCHANGED evalVars PROVE EvalInv'
<1>1. ToolsInv' /\ stored \subseteq stored' /\ UNCHANGED <<call, results>>
  BY StreamStep DEF EvalInv, TypeOK, ToolsInv
<1>2. TypeOK' /\ IdsKnown' /\ StatsInv'
  BY <1>1 DEF EvalInv, TypeOK, ToolsInv, evalVars
<1>3. ValidIsRowOrAsked'
  BY <1>1 DEF EvalInv, ValidIsRowOrAsked, evalVars
<1>4. FabricatedWasAbsent' /\ PassIffNoReasons'
  BY DEF EvalInv, FabricatedWasAbsent, PassIffNoReasons, evalVars
<1>5. QuotesAreAccurate'
  BY <1>1, QuotesKept DEF EvalInv, evalVars
<1>. QED  BY <1>2, <1>3, <1>4, <1>5 DEF EvalInv

LEMMA Unchanged == ASSUME EvalInv, UNCHANGED vars PROVE EvalInv'
<1>1. ToolsTypeOK' /\ IdsKnown' /\ StatsInv'
  BY ToolsKept DEF EvalInv, TypeOK, vars
<1>2. TypeOK'
  BY <1>1 DEF EvalInv, TypeOK, vars, toolVars, evalVars
<1>3. QuotesAreAccurate'
  BY QuotesKept DEF EvalInv, vars, toolVars, evalVars
<1>4. ValidIsRowOrAsked' /\ FabricatedWasAbsent' /\ PassIffNoReasons'
  BY DEF EvalInv, vars, toolVars, evalVars, ValidIsRowOrAsked, FabricatedWasAbsent,
         PassIffNoReasons
<1>. QED  BY <1>1, <1>2, <1>3, <1>4 DEF EvalInv

(* The record of a question, and the verdict on it, are what EvalInv says   *)
(* in every reachable state (server.py, run_eval.py, grade.py).             *)
THEOREM EvalInvariance == Spec => []EvalInv
<1>1. EvalInv /\ [Next]_vars => EvalInv'
  BY AgentStep, AnswerStep, CaptureStep, GradeStep, GradeRaisesStep, StreamKeeps,
     Unchanged DEF Next
<1>. QED  BY <1>1, InitInv, PTL DEF Spec

(* The groups of query_stats never add up to less than its total, although  *)
(* rows land between the two statements (stats.py:93-119).                  *)
THEOREM TotalsAreCovered == Spec => []PartsCoverTheWhole
<1>1. EvalInv => PartsCoverTheWhole
  <2>. SUFFICES ASSUME EvalInv, NEW k \in 1 .. Len(results), results[k].stats # None,
                       results[k].stats.grouped =>
                         Cardinality(results[k].stats.groups) < results[k].stats.limit
                PROVE  Parts(results[k].stats) \geq results[k].stats.total
    BY DEF PartsCoverTheWhole
  <2>. DEFINE s == results[k].stats
  <2>1. s \in Statistics /\ CountsGrow(s)
    <3>1. results \in Seq(Results) /\ CountsGrow(s)
      BY DEF EvalInv, TypeOK, ToolsTypeOK, StatsInv
    <3>2. results[k] \in Results
      BY <3>1
    <3>. QED  BY <3>1, <3>2 DEF Results
  <2>2. s.rows \in SUBSET Rows /\ s.limit \in Nat /\ s.total \in Nat /\ s.grouped \in BOOLEAN
    BY <2>1 DEF Statistics
  <2>. HIDE DEF s
  <2>3. s.total \leq Cardinality(s.rows) /\ Cardinality(s.rows) \in Nat
    BY <2>1, <2>2, CountIsNat DEF CountsGrow
  <2>4. CASE ~s.grouped
    <3>1. Parts(s) = Cardinality(s.rows)
      BY <2>4 DEF Parts
    <3>2. Parts(s) \geq s.total
      BY <2>2, <2>3, <3>1
    <3>. QED  BY <3>2 DEF s
  <2>5. CASE s.grouped
    <3>1. s.groups \in TopGroups(s.rows, s.limit, s.metric)
      BY <2>1, <2>5 DEF CountsGrow, GroupsReturned
    <3>2. Cardinality(s.groups) < s.limit
      BY <2>5 DEF s
    <3>3. IsFiniteSet(s.groups) /\ {r \in s.rows : GatewayOf[r] \in s.groups} = s.rows
      BY <2>2, <3>1, <3>2, NoGroupLeftOut, SMTT(30)
    <3>4. MapThenSumSet(LAMBDA g : Counted(s.rows, g), s.groups) = Cardinality(s.rows)
      BY <2>2, <3>3, GroupsAddUp
    <3>5. Parts(s) = Cardinality(s.rows)
      BY <2>5, <3>4 DEF Parts
    <3>6. Parts(s) \geq s.total
      BY <2>2, <2>3, <3>5
    <3>. QED  BY <3>6 DEF s
  <2>. QED  BY <2>2, <2>4, <2>5
<1>. QED  BY <1>1, EvalInvariance, PTL

(* A citation that passes is a transaction or an id the agent itself passed *)
(* to a tool (mechanical_checks.py:66-69, semantic.py:88, stats.py:122,     *)
(* transactions.py:139, 146, 181).                                          *)
THEOREM ValidCitations == Spec => []ValidIsRowOrAsked
<1>1. EvalInv => ValidIsRowOrAsked
  BY DEF EvalInv
<1>. QED  BY <1>1, EvalInvariance, PTL

(* No row of the answer's time is called fabricated by a late grading with  *)
(* the database (grade.py:99-121).                                          *)
THEOREM RowsAreNotFabricated == Spec => []FabricatedWasAbsent
<1>1. EvalInv => FabricatedWasAbsent
  BY DEF EvalInv
<1>. QED  BY <1>1, EvalInvariance, PTL

(* The pass flag and the reasons of failure agree (grade.py:162-206).       *)
THEOREM FailuresHaveReasons == Spec => []PassIffNoReasons
<1>1. EvalInv => PassIffNoReasons
  BY DEF EvalInv
<1>. QED  BY <1>1, EvalInvariance, PTL

(* An answer that quotes a tool's figures passes the numeric checks as long *)
(* as no more rows came or went before the ground truth than the tolerances *)
(* allow (mechanical_checks.py:104-161).                                    *)
THEOREM QuotationsPass == Spec => []QuotesAreAccurate
<1>1. EvalInv => QuotesAreAccurate
  BY DEF EvalInv
<1>. QED  BY <1>1, EvalInvariance, PTL
=============================================================================
