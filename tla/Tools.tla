-------------------------------- MODULE Tools --------------------------------
(***************************************************************************)
(* The MCP tools (mcp_server/), called by the agent one at a time while    *)
(* the consumer fills the table (Pipeline, BatchWriter).  A tool opens a   *)
(* connection, checks its arguments and sends one or two statements, each  *)
(* of which sees what is committed when it starts (READ COMMITTED); now()  *)
(* stands still from the first to the last.                                *)
(*                                                                         *)
(* A row is named by its event_timestamp, and its id by the same value.    *)
(* query_stats groups and filters by gateway, which stands for the other   *)
(* columns too.  Of a result the model keeps what the evaluation reads:    *)
(* the tool's name, the transaction ids that occur anywhere in the text,   *)
(* which of them are there because the agent passed them, and the figures. *)
(***************************************************************************)
EXTENDS Integers, Sequences, FiniteSetsExt

CONSTANTS Rows,          \* events of the stream, by event_timestamp
          Failed,        \* those with status 'failure'
          Gateways, GatewayOf,
          Invented,      \* ids no event has
          None,
          WindowArgs,    \* values the agent may pass for window_minutes, ...
          LimitArgs,     \* ... for limit and k
          Filters,       \* ... for the gateway, a text which may be an id
          Asks,          \* ... and for transaction_ids
          DefaultWindow, MaxWindow, DefaultLimit, MaxLimit,
          MaxIds,              \* _MAX_IDS
          ExactScanThreshold,  \* EXACT_SCAN_THRESHOLD
          MaxNow, MaxCalls     \* bounds: the clock, tool calls of a turn

ASSUME ToolsAssumption ==
  /\ Rows \subseteq Nat /\ IsFiniteSet(Rows) /\ Failed \subseteq Rows
  /\ GatewayOf \in [Rows -> Gateways]
  /\ Invented \cap Rows = {} /\ None \notin Int
  /\ WindowArgs \cup LimitArgs \subseteq Int \cup {None}
  /\ Filters \subseteq {None} \cup Gateways \cup Rows \cup Invented
  /\ Asks \subseteq SUBSET (Rows \cup Invented)
  /\ {DefaultWindow, MaxWindow, DefaultLimit, MaxLimit, MaxIds} \subseteq Nat \ {0}
  /\ {ExactScanThreshold, MaxNow, MaxCalls} \subseteq Nat

VARIABLES now,
          stored,    \* rows of transactions; the failures have an embedding
          call,      \* the tool call between its statements, or None
          results    \* of the calls of this turn

toolVars == <<now, stored, call, results>>

-----------------------------------------------------------------------------
(* validation.py: not an int, zero or negative is rejected, too much is cut. *)
Accepted(value) == value # None => value > 0
Clamp(value, default, most) ==
  IF value = None THEN default ELSE IF value > most THEN most ELSE value

InWindow(window, at) == {r \in stored : r \geq at - window}
Newest(S, n) == {r \in S : Cardinality({q \in S : q > r}) < n}

(* The rows a gateway filter lets through, and the id its echo repeats.     *)
Passing(filter) == IF filter = None THEN Rows ELSE {r \in Rows : GatewayOf[r] = filter}
Repeated(filter) == {filter} \cap (Rows \cup Invented)

(* The text of a result has the ids of rows and of the arguments it echoes. *)
Text(tool, ids, asked) ==
  [tool |-> tool, ids |-> ids \cup asked, asked |-> asked, stats |-> None]

Counted(S, g) == Cardinality({r \in S : GatewayOf[r] = g})
FailedOf(S, g) == Counted(S \cap Failed, g)

(* round(avg(failed), 4), in ten-thousandths; a group has a row.            *)
Rate(S, g) == (20000 * FailedOf(S, g) + Counted(S, g)) \div (2 * Counted(S, g))

(* The groups a GROUP BY ... ORDER BY metric DESC LIMIT may return: ties    *)
(* are open.  Without group_by there is one row for them all.               *)
TopGroups(S, limit, metric) ==
  LET groups == {GatewayOf[r] : r \in S}
      Figure(g) == IF metric = "count" THEN Counted(S, g) ELSE Rate(S, g)
  IN  {G \in SUBSET groups :
         /\ Cardinality(G) = Min({limit, Cardinality(groups)})
         /\ \A g \in G, h \in groups \ G : Figure(g) \geq Figure(h)}
GroupsReturned(S, limit, metric, grouped) ==
  IF grouped THEN TopGroups(S, limit, metric) ELSE {{}}

Returns(result) == results' = Append(results, result)

(* The agent waits for each result.                                         *)
MayCall == call = None /\ Len(results) < MaxCalls

(* The arguments are refused, or the database is down: an error comes back  *)
(* as text, and may repeat what was passed.                                 *)
CallFails(tool, ids) ==
  /\ MayCall
  /\ Returns(Text(tool, {}, ids))
  /\ UNCHANGED <<now, stored, call>>

(* get_transactions by id.  The ids asked for are echoed, and those without *)
(* a row are listed as missing.                                             *)
GetByIds(ids) ==
  /\ MayCall
  /\ ids # {} /\ Cardinality(ids) \leq MaxIds
  /\ Returns(Text("get_transactions", ids \cap stored, ids))
  /\ UNCHANGED <<now, stored, call>>

(* get_transactions by filter, status for all the others.  The gateway is   *)
(* not checked, and is echoed.                                              *)
GetByFilter(window, limit, filter, S) ==
  /\ MayCall
  /\ Accepted(window) /\ Accepted(limit)
  /\ Returns(Text("get_transactions",
                  Newest(InWindow(Clamp(window, DefaultWindow, MaxWindow), now)
                           \cap S \cap Passing(filter),
                         Clamp(limit, DefaultLimit, MaxLimit)),
                  Repeated(filter)))
  /\ UNCHANGED <<now, stored, call>>

Freshness(window) ==
  /\ MayCall
  /\ Accepted(window)
  /\ Returns(Text("system_freshness", {}, {}))
  /\ UNCHANGED <<now, stored, call>>

(* query_stats: the total, and in a second statement the groups.            *)
StatsTotal(window, limit, filter, metric, grouped) ==
  /\ MayCall
  /\ Accepted(window) /\ Accepted(limit)
  /\ call' = LET w == Clamp(window, DefaultWindow, MaxWindow)
             IN  [tool |-> "query_stats", at |-> now, window |-> w,
                  limit |-> Clamp(limit, DefaultLimit, MaxLimit),
                  among |-> Passing(filter), asked |-> Repeated(filter),
                  metric |-> metric, grouped |-> grouped,
                  count |-> Cardinality(InWindow(w, now) \cap Passing(filter))]
  /\ UNCHANGED <<now, stored, results>>

Counting(at) == InWindow(call.window, at) \cap call.among

GroupsOf(rows) ==
  \E G \in GroupsReturned(rows, call.limit, call.metric, call.grouped) :
    Returns([Text("query_stats", {}, call.asked) EXCEPT !.stats =
               [window |-> call.window, total |-> call.count, groups |-> G,
                limit |-> call.limit, rows |-> rows,
                metric |-> call.metric, grouped |-> call.grouped]])

(* Mutant of StatsGroups: each statement takes the time for itself.         *)
GroupsOfTheirOwnTime ==
  /\ call # None /\ call.tool = "query_stats"
  /\ GroupsOf(Counting(now))
  /\ call' = None
  /\ UNCHANGED <<now, stored>>

StatsGroups ==
  /\ call # None /\ call.tool = "query_stats"
  /\ GroupsOf(Counting(call.at))
  /\ call' = None
  /\ UNCHANGED <<now, stored>>

(* semantic_search for a query text, in which ids may occur: the candidates *)
(* are counted, which decides how they are searched; the distances of texts *)
(* are open, so any k may be the nearest.                                   *)
SearchCount(window, k, filter, query) ==
  /\ MayCall
  /\ Accepted(window) /\ Accepted(k)
  /\ call' = LET w == Clamp(window, DefaultWindow, MaxWindow)
             IN  [tool |-> "semantic_search", at |-> now, window |-> w,
                  limit |-> Clamp(k, DefaultLimit, MaxLimit),
                  among |-> Passing(filter) \cap Failed,
                  asked |-> query \cup Repeated(filter),
                  metric |-> None, grouped |-> FALSE,
                  count |-> Cardinality(InWindow(w, now) \cap Passing(filter) \cap Failed)]
  /\ UNCHANGED <<now, stored, results>>

(* A scan returns the k nearest, the index may miss some.  Query and filter *)
(* are echoed.                                                              *)
SearchRows ==
  /\ call # None /\ call.tool = "semantic_search"
  /\ LET most == Min({call.limit, Cardinality(Counting(call.at))})
     IN  \E S \in SUBSET Counting(call.at) :
           /\ Cardinality(S) \leq most
           /\ call.count \leq ExactScanThreshold => Cardinality(S) = most
           /\ Returns(Text("semantic_search", S, call.asked))
  /\ call' = None
  /\ UNCHANGED <<now, stored>>

ToolNames == {"get_transactions", "query_stats", "semantic_search",
              "system_freshness"}
Metrics == {"count", "failure_rate"}

Tool ==
  \/ \E tool \in ToolNames, ids \in Asks \cup {{}} : CallFails(tool, ids)
  \/ \E ids \in Asks : GetByIds(ids)
  \/ \E w \in WindowArgs, n \in LimitArgs, filter \in Filters :
       \/ \E S \in {Rows, Failed, Rows \ Failed} : GetByFilter(w, n, filter, S)
       \/ \E metric \in Metrics, grouped \in BOOLEAN :
            StatsTotal(w, n, filter, metric, grouped)
       \/ \E query \in Asks \cup {{}} : SearchCount(w, n, filter, query)
  \/ \E w \in WindowArgs : Freshness(w)
  \/ StatsGroups
  \/ SearchRows

(* The consumer commits a batch; time passes.  Events may come late.        *)
Land(S) ==
  /\ S # {} /\ S \cap stored = {}
  /\ stored' = stored \cup S
  /\ UNCHANGED <<now, call, results>>

Tick ==
  /\ now < MaxNow
  /\ now' = now + 1
  /\ UNCHANGED <<stored, call, results>>

Stream == Tick \/ \E S \in SUBSET {r \in Rows : r \leq now} : Land(S)
-----------------------------------------------------------------------------
Calls == [tool : {"query_stats", "semantic_search"}, at : Nat, window : Nat, limit : Nat,
          among : SUBSET Rows, asked : SUBSET (Rows \cup Invented),
          metric : Metrics \cup {None}, grouped : BOOLEAN, count : Nat]
Statistics == [window : Nat, total : Nat, groups : SUBSET Gateways, limit : Nat,
               rows : SUBSET Rows, metric : Metrics \cup {None}, grouped : BOOLEAN]
Results == [tool : ToolNames, ids : SUBSET (Rows \cup Invented),
            asked : SUBSET (Rows \cup Invented), stats : {None} \cup Statistics]

ToolsTypeOK ==
  /\ now \in 0 .. MaxNow
  /\ stored \subseteq Rows
  /\ call # None => call \in Calls /\ Len(results) < MaxCalls
  /\ results \in Seq(Results) /\ Len(results) \leq MaxCalls

(* The ids in a result are of rows, or were passed by the agent.            *)
IdsKnown ==
  \A k \in 1 .. Len(results) : results[k].ids \subseteq stored \cup results[k].asked

(* The total was counted before the groups, over the same window of a table *)
(* that only grows, and the groups are the first by the metric.             *)
CountsGrow(s) ==
  /\ s.total \leq Cardinality(s.rows)
  /\ s.groups \in GroupsReturned(s.rows, s.limit, s.metric, s.grouped)
StatsInv ==
  /\ call # None /\ call.tool = "query_stats" =>
       call.count \leq Cardinality(Counting(call.at))
  /\ \A k \in 1 .. Len(results) :
       results[k].stats # None => CountsGrow(results[k].stats)

(* The rows of query_stats never add up to less than its total, however     *)
(* the stream moves between the two statements (stats.py:93-119), whatever  *)
(* orders the groups, unless the limit leaves groups out.                   *)
Parts(s) == IF s.grouped THEN MapThenSumSet(LAMBDA g : Counted(s.rows, g), s.groups)
                         ELSE Cardinality(s.rows)
PartsCoverTheWhole ==
  \A k \in 1 .. Len(results) :
    LET s == results[k].stats
    IN  s # None /\ (s.grouped => Cardinality(s.groups) < s.limit) => Parts(s) \geq s.total
=============================================================================
