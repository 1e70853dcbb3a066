------------------------------ MODULE AgentLoop ------------------------------
(***************************************************************************)
(* A conversation with the agent: run_turn() (agent/loop.py) and the REPL  *)
(* that keeps one message list over many turns (agent/chat.py).  The       *)
(* evaluation runs one turn on a list of its own (eval/run_eval.py) and    *)
(* reads the tool calls back from it.                                      *)
(*                                                                         *)
(* The model behind the API is external: it may ask for up to MaxCalls     *)
(* tool calls at once, or end its turn.  The API gives each call a new id. *)
(* The text of a result is the number of the execution it came from, so    *)
(* that a result handed to the wrong call shows.                           *)
(***************************************************************************)
EXTENDS Naturals, Sequences

CONSTANTS MaxIterations,   \* MAX_ITERATIONS
          MaxBlocks,       \* bound: tool_use blocks of one response
          MaxTurns         \* bound: questions of one conversation

ASSUME LoopAssumption ==
  /\ MaxIterations \in Nat \ {0}
  /\ MaxBlocks \in Nat \ {0} /\ MaxTurns \in Nat

VARIABLES
  place,       \* where the process is
  messages,    \* the caller's list
  iteration,   \* requests made in this turn
  calls,       \* ids of the tool_use blocks of the last response
  block,       \* index of the next of them to execute
  collected,   \* tool_result blocks collected so far
  context,     \* chat's context_tokens, a token per message
  \* history, read by no action but to number things
  turn,        \* questions asked
  issued,      \* ids given out
  executed,    \* ids in the order in which bridge.call_tool ran them
  answered,    \* turns that printed an answer
  cleared      \* the last turn before the last /clear

loopVars == <<iteration, calls, block, collected>>
chatVars == <<place, messages, loopVars, context, turn, issued, executed,
              answered, cleared>>

Phases == {"prompt", "model", "tools", "ended"}

(* A user message with a question, an assistant message with tool_use      *)
(* blocks, a user message with the tool_result blocks that answer them.    *)
Question(t) ==
  [kind |-> "question", turn |-> t, asked |-> <<>>, answers |-> <<>>]
ToolUse(t, ids) ==
  [kind |-> "calls", turn |-> t, asked |-> ids, answers |-> <<>>]
ToolResults(t, rs) ==
  [kind |-> "results", turn |-> t, asked |-> <<>>, answers |-> rs]

ChatInit ==
  /\ place = "prompt"
  /\ messages = <<>>
  /\ iteration = 0 /\ calls = <<>> /\ block = 1 /\ collected = <<>>
  /\ context = 0
  /\ turn = 0 /\ issued = 0 /\ executed = <<>>
  /\ answered = {} /\ cleared = 0

-----------------------------------------------------------------------------
(* The REPL.  /help and an empty line change nothing.                      *)
Ask ==
  /\ place = "prompt"
  /\ turn < MaxTurns
  /\ turn' = turn + 1
  /\ messages' = Append(messages, Question(turn'))
  /\ iteration' = 0
  /\ place' = "model"
  /\ UNCHANGED <<calls, block, collected, context, issued, executed, answered,
                 cleared>>

(* Mutant of ClearHistory: only the counter is reset.                      *)
ClearCounter ==
  /\ place = "prompt"
  /\ context' = 0
  /\ cleared' = turn
  /\ UNCHANGED <<place, messages, loopVars, turn, issued, executed, answered>>

ClearHistory ==
  /\ place = "prompt"
  /\ messages' = <<>>
  /\ context' = 0
  /\ cleared' = turn
  /\ UNCHANGED <<place, loopVars, turn, issued, executed, answered>>

(* /quit, end of input, Ctrl-C; during a turn also an API call that raises.*)
Leave ==
  /\ place # "ended"
  /\ place' = "ended"
  /\ UNCHANGED <<messages, loopVars, context, turn, issued, executed, answered,
                 cleared>>

-----------------------------------------------------------------------------
(* run_turn().  The response ends the turn: its text is the answer.        *)
EndTurn ==
  /\ place = "model"
  /\ iteration' = iteration + 1
  /\ place' = "prompt"
  /\ answered' = answered \cup {turn}
  /\ context' = context + Len(messages)
  /\ UNCHANGED <<messages, calls, block, collected, turn, issued, executed,
                 cleared>>

(* The response asks for n tool calls: it is appended at once.             *)
AskForTools(n) ==
  /\ place = "model"
  /\ iteration' = iteration + 1
  /\ calls' = [k \in 1 .. n |-> issued + k]
  /\ issued' = issued + n
  /\ messages' = Append(messages, ToolUse(turn, calls'))
  /\ block' = 1
  /\ collected' = <<>>
  /\ place' = "tools"
  /\ UNCHANGED <<context, turn, executed, answered, cleared>>

(* Mutants of CallTool: a failed call leaves no result; a result is        *)
(* attached to the first block.                                            *)
CallMayDrop ==
  /\ place = "tools"
  /\ block \leq Len(calls)
  /\ executed' = Append(executed, calls[block])
  /\ collected' \in {collected,
                   Append(collected, [id |-> calls[block], text |-> Len(executed')])}
  /\ block' = block + 1
  /\ UNCHANGED <<place, messages, iteration, calls, context, turn, issued,
                 answered, cleared>>

CallForFirst ==
  /\ place = "tools"
  /\ block \leq Len(calls)
  /\ executed' = Append(executed, calls[block])
  /\ collected' = Append(collected, [id |-> calls[1], text |-> Len(executed')])
  /\ block' = block + 1
  /\ UNCHANGED <<place, messages, iteration, calls, context, turn, issued,
                 answered, cleared>>

(* call_tool() returns text whether the tool works or not (mcp_bridge.py), *)
(* so that every block gets a result.                                      *)
CallTool ==
  /\ place = "tools"
  /\ block \leq Len(calls)
  /\ executed' = Append(executed, calls[block])
  /\ collected' = Append(collected, [id |-> calls[block], text |-> Len(executed')])
  /\ block' = block + 1
  /\ UNCHANGED <<place, messages, iteration, calls, context, turn, issued,
                 answered, cleared>>

(* Mutants of ToolsDone: a request too many; the cap ends the turn before  *)
(* the results are kept.                                                   *)
OneRequestMore ==
  /\ place = "tools"
  /\ block > Len(calls)
  /\ messages' = Append(messages, ToolResults(turn, collected))
  /\ IF iteration \leq MaxIterations
     THEN place' = "model" /\ UNCHANGED <<answered, context>>
     ELSE /\ place' = "prompt"
          /\ answered' = answered \cup {turn}
          /\ context' = context + Len(messages) - 1
  /\ UNCHANGED <<loopVars, turn, issued, executed, cleared>>

CapBeforeResults ==
  /\ place = "tools"
  /\ block > Len(calls)
  /\ IF iteration < MaxIterations
     THEN /\ place' = "model"
          /\ messages' = Append(messages, ToolResults(turn, collected))
          /\ UNCHANGED <<answered, context>>
     ELSE /\ place' = "prompt"
          /\ answered' = answered \cup {turn}
          /\ context' = context + Len(messages) - 1
          /\ UNCHANGED messages
  /\ UNCHANGED <<loopVars, turn, issued, executed, cleared>>

(* The results go back as one message; at the cap the turn is over.  The   *)
(* last request was one message shorter than the list is now.              *)
ToolsDone ==
  /\ place = "tools"
  /\ block > Len(calls)
  /\ messages' = Append(messages, ToolResults(turn, collected))
  /\ IF iteration < MaxIterations
     THEN place' = "model" /\ UNCHANGED <<answered, context>>
     ELSE /\ place' = "prompt"
          /\ answered' = answered \cup {turn}
          /\ context' = context + Len(messages) - 1
  /\ UNCHANGED <<loopVars, turn, issued, executed, cleared>>

Turn == EndTurn \/ (\E n \in 1 .. MaxBlocks : AskForTools(n)) \/ CallTool \/ ToolsDone

Ended == place = "ended" /\ UNCHANGED chatVars

ChatNext == Ask \/ ClearHistory \/ Leave \/ Turn \/ Ended

ChatSpec == ChatInit /\ [][ChatNext]_chatVars
-----------------------------------------------------------------------------
ResultBlocks == [id : Nat, text : Nat]
Messages == [kind : {"question", "calls", "results"}, turn : Nat,
             asked : Seq(Nat), answers : Seq(ResultBlocks)]

ChatTypeOK ==
  /\ place \in Phases
  /\ messages \in Seq(Messages)
  /\ iteration \in 0 .. MaxIterations
  /\ calls \in Seq(Nat)
  /\ block \in 1 .. Len(calls) + 1
  /\ collected \in Seq(ResultBlocks)
  /\ context \in Nat
  /\ turn \in Nat /\ issued \in Nat /\ cleared \in 0 .. turn
  /\ executed \in Seq(Nat)
  /\ answered \subseteq 1 .. turn

(* The message m hands back, in order, a result for every call of c.       *)
Matches(m, c) ==
  /\ m.kind = "results"
  /\ Len(m.answers) = Len(c.asked)
  /\ \A k \in 1 .. Len(c.asked) : m.answers[k].id = c.asked[k]

(* What the API demands of every request, over turns that end with an      *)
(* answer or at the cap, and over /clear: a message with tool calls is     *)
(* followed by the message with their results (loop.py:126-134, 63-66), no *)
(* results stand anywhere else, and the user has the last word.            *)
Paired ==
  place \in {"prompt", "model"} =>
    \A i \in 1 .. Len(messages) :
      /\ messages[i].kind = "calls" =>
           i < Len(messages) /\ Matches(messages[i + 1], messages[i])
      /\ messages[i].kind = "results" => i > 1 /\ messages[i - 1].kind = "calls"

(* A turn makes at most MAX_ITERATIONS requests, so that its part of the   *)
(* list is bounded (loop.py:113, 136-138).                                 *)
TurnIsBounded ==
  \A i, j \in 1 .. Len(messages) :
    messages[i].turn = messages[j].turn => j - i \leq 2 * MaxIterations

(* /clear forgets (chat.py:79-83): no message of an earlier turn is sent   *)
(* again, and the counter starts anew with the list (chat.py:31-32).       *)
ClearForgets ==
  /\ \A i \in 1 .. Len(messages) : messages[i].turn > cleared
  /\ place = "prompt" => (context = 0 <=> messages = <<>>)

(* Why.  While tools run, the last message holds their calls, and a result *)
(* has been kept for each call made so far, ...                            *)
ToolsInv ==
  place = "tools" =>
    /\ Len(messages) \geq 2
    /\ messages[Len(messages)] = ToolUse(turn, calls)
    /\ Len(collected) = block - 1
    /\ \A k \in 1 .. block - 1 : collected[k].id = calls[k]

(* ... so that calls without results can only be the last message; ...     *)
PairInv ==
  \A i \in 1 .. Len(messages) :
    /\ messages[i].kind = "calls" =>
         \/ i < Len(messages) /\ Matches(messages[i + 1], messages[i])
         \/ i = Len(messages) /\ place \in {"tools", "ended"}
    /\ messages[i].kind = "results" => i > 1 /\ messages[i - 1].kind = "calls"

(* ... the turn under way has added two messages per request; ...          *)
TurnInv ==
  /\ \A i \in 1 .. Len(messages) : messages[i].turn \leq turn
  /\ place = "model" =>
       /\ iteration < MaxIterations
       /\ \A i \in 1 .. Len(messages) :
            messages[i].turn = turn => Len(messages) - i \leq 2 * iteration
  /\ place = "tools" =>
       /\ iteration > 0
       /\ \A i \in 1 .. Len(messages) :
            messages[i].turn = turn => Len(messages) - i < 2 * iteration

(* ... and only a turn makes the list non-empty.                           *)
ClearInv ==
  place \in {"model", "tools"} => cleared < turn /\ messages # <<>>

IInv == /\ ChatTypeOK /\ ToolsInv /\ PairInv /\ TurnInv /\ TurnIsBounded
        /\ ClearInv /\ ClearForgets
=============================================================================
