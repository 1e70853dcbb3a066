------------------------------ MODULE AgentProofs ------------------------------
(***************************************************************************)
(* Proofs about AgentLoop, for any cap, number of calls per response and   *)
(* number of questions: see README.md, section 7.                          *)
(***************************************************************************)
EXTENDS Transcript, DataInduction, SequenceTheorems

(* What appending a message does to the list.                              *)
LEMMA Appended ==
  ASSUME NEW ms \in Seq(Messages), NEW m \in Messages
  PROVE  /\ Append(ms, m) \in Seq(Messages)
         /\ Len(Append(ms, m)) = Len(ms) + 1
         /\ Append(ms, m)[Len(ms) + 1] = m
         /\ \A i \in 1 .. Len(ms) : Append(ms, m)[i] = ms[i]
  OBVIOUS

(* The fields of the three kinds of message.                               *)
LEMMA QuestionFields ==
  ASSUME NEW t \in Nat
  PROVE  /\ Question(t) \in Messages
         /\ Question(t).kind = "question" /\ Question(t).turn = t
  <1>1. <<>> \in Seq(Nat)
    OBVIOUS
  <1> QED
    BY <1>1 DEF Question, Messages

LEMMA ToolUseFields ==
  ASSUME NEW t \in Nat, NEW ids \in Seq(Nat)
  PROVE  /\ ToolUse(t, ids) \in Messages
         /\ ToolUse(t, ids).kind = "calls" /\ ToolUse(t, ids).turn = t
         /\ ToolUse(t, ids).asked = ids
  BY DEF ToolUse, Messages

LEMMA ToolResultsFields ==
  ASSUME NEW t \in Nat, NEW rs \in Seq(ResultBlocks)
  PROVE  /\ ToolResults(t, rs) \in Messages
         /\ ToolResults(t, rs).kind = "results" /\ ToolResults(t, rs).turn = t
         /\ ToolResults(t, rs).answers = rs
  BY DEF ToolResults, Messages

(* A message of the list.                                                  *)
LEMMA Elements ==
  ASSUME NEW ms \in Seq(Messages), NEW i \in 1 .. Len(ms)
  PROVE  ms[i] \in Messages /\ ms[i].turn \in Nat
  <1>1. ms[i] \in Messages
    OBVIOUS
  <1> QED
    BY <1>1 DEF Messages

-------------------------------------------------------------------------------
LEMMA Initially == ChatInit => IInv
  BY LoopAssumption
     DEF ChatInit, IInv, ChatTypeOK, Phases, ToolsInv, PairInv, TurnInv, TurnIsBounded,
         ClearInv, ClearForgets

LEMMA AskStep == IInv /\ Ask => IInv'
  <1> SUFFICES ASSUME IInv, Ask PROVE IInv'
    OBVIOUS
  <1> USE DEF IInv, loopVars
  <1> DEFINE n == Len(messages)
  <1>1. n \in Nat /\ turn' \in Nat
    BY DEF ChatTypeOK, Ask
  <1>2. /\ messages' \in Seq(Messages) /\ Len(messages') = n + 1
        /\ messages'[n + 1] = Question(turn')
        /\ \A i \in 1 .. n : messages'[i] = messages[i]
    BY <1>1, Appended, QuestionFields DEF ChatTypeOK, Ask
  <1>3. Question(turn').kind = "question" /\ Question(turn').turn = turn + 1
    BY <1>1, QuestionFields DEF Ask
  <1>4. \A i \in 1 .. n : messages[i].turn \in Nat /\ messages[i].turn \leq turn
    BY Elements DEF ChatTypeOK, TurnInv
  <1>5. turn \in Nat /\ cleared \in 0 .. turn
    BY DEF ChatTypeOK
  <1>6. ChatTypeOK'
    BY <1>2, <1>1, LoopAssumption DEF ChatTypeOK, Ask, Phases
  <1>7. ToolsInv'
    BY DEF Ask, ToolsInv
  <1>8. PairInv'
    <2> SUFFICES ASSUME NEW i \in 1 .. n + 1
                 PROVE  PairInv!(i)'
      BY <1>2 DEF PairInv
    <2> QED
      BY <1>1, <1>2, <1>3 DEF PairInv, Ask, Matches
  <1>9. TurnInv'
    <2>1. ASSUME NEW i \in 1 .. n + 1
          PROVE  /\ messages'[i].turn \leq turn'
                 /\ messages'[i].turn = turn' => i = n + 1
      BY <1>1, <1>2, <1>3, <1>4, <1>5 DEF Ask
    <2>2. place' = "model" /\ iteration' = 0 /\ iteration' < MaxIterations
      BY LoopAssumption DEF Ask
    <2>3. \A i \in 1 .. Len(messages') : messages'[i].turn \leq turn'
      BY <1>2, <2>1
    <2>4. \A i \in 1 .. Len(messages') :
            messages'[i].turn = turn' => Len(messages') - i \leq 2 * iteration'
      BY <1>1, <1>2, <2>1, <2>2
    <2> HIDE DEF IInv
    <2> QED
      BY <2>2, <2>3, <2>4 DEF TurnInv
  <1>10. TurnIsBounded'
    BY <1>1, <1>2, <1>3, <1>4, <1>5, LoopAssumption, SMTT(20) DEF TurnIsBounded, Ask
  <1>11. ClearInv'
    BY <1>1, <1>2, <1>5 DEF ClearInv, Ask
  <1>12. ClearForgets'
    BY <1>1, <1>2, <1>3, <1>5 DEF ClearForgets, Ask
  <1> QED
    BY <1>6, <1>7, <1>8, <1>9, <1>10, <1>11, <1>12

(* /clear, leaving and an answer leave the messages as they are or none.   *)
LEMMA ClearStep == IInv /\ ClearHistory => IInv'
  <1> SUFFICES ASSUME IInv, ClearHistory PROVE IInv'
    OBVIOUS
  <1>1. messages' = <<>> /\ Len(messages') = 0 /\ place' = "prompt"
    BY DEF ClearHistory
  <1>2. ChatTypeOK'
    <2>1. <<>> \in Seq(Messages)
      OBVIOUS
    <2> QED
      BY <2>1 DEF IInv, ChatTypeOK, ClearHistory, loopVars
  <1> QED
    BY <1>1, <1>2 DEF IInv, ClearHistory, ToolsInv, PairInv, TurnInv,
                      TurnIsBounded, ClearInv, ClearForgets

LEMMA LeaveStep == IInv /\ Leave => IInv'
  <1> SUFFICES ASSUME IInv, Leave PROVE IInv'
    OBVIOUS
  <1> USE DEF IInv, Leave, loopVars
  <1>1. ChatTypeOK'
    BY DEF ChatTypeOK, Phases
  <1>2. PairInv'
    BY DEF PairInv, Matches
  <1>3. ToolsInv' /\ TurnInv' /\ ClearInv'
    BY DEF ToolsInv, TurnInv, ClearInv
  <1>4. TurnIsBounded' /\ ClearForgets'
    BY DEF TurnIsBounded, ClearForgets
  <1> QED
    BY <1>1, <1>2, <1>3, <1>4

LEMMA AnswerStep == IInv /\ EndTurn => IInv'
  <1> SUFFICES ASSUME IInv, EndTurn PROVE IInv'
    OBVIOUS
  <1> USE DEF IInv, EndTurn
  <1>1. Len(messages) \in Nat \ {0} /\ cleared < turn
    BY DEF ChatTypeOK, ClearInv
  <1>2. ChatTypeOK'
    BY <1>1, LoopAssumption DEF ChatTypeOK, Phases, TurnInv
  <1>3. PairInv'
    BY DEF PairInv, Matches
  <1>4. ToolsInv' /\ TurnInv' /\ ClearInv'
    BY DEF ToolsInv, TurnInv, ClearInv
  <1>5. TurnIsBounded'
    BY DEF TurnIsBounded
  <1>6. ClearForgets'
    BY <1>1 DEF ClearForgets, ChatTypeOK, ClearInv
  <1> QED
    BY <1>2, <1>3, <1>4, <1>5, <1>6

(* The message that asks for tools is the last one.                        *)
LEMMA AskForToolsStep ==
  ASSUME IInv, NEW k \in 1 .. MaxBlocks, AskForTools(k)
  PROVE  IInv'
  <1> USE DEF IInv, loopVars
  <1> DEFINE n == Len(messages)
  <1>1. /\ n \in Nat \ {0} /\ turn \in Nat /\ cleared \in Nat /\ cleared < turn
        /\ iteration \in Nat /\ iteration < MaxIterations /\ MaxIterations \in Nat
    BY LoopAssumption DEF ChatTypeOK, AskForTools, ClearInv, TurnInv
  <1>2. calls' \in Seq(Nat)
    <2>1. k \in Nat /\ calls' \in [1 .. k -> Nat]
      <3>1. k \in Nat /\ issued \in Nat
        BY LoopAssumption DEF ChatTypeOK
      <3>2. calls' = [m \in 1 .. k |-> issued + m]
        BY DEF AskForTools
      <3> QED
        BY <3>1, <3>2
    <2> QED
      BY <2>1, SeqDef
  <1>3. /\ messages' \in Seq(Messages) /\ Len(messages') = n + 1
        /\ messages'[n + 1] = ToolUse(turn, calls')
        /\ \A i \in 1 .. n : messages'[i] = messages[i]
    <2>1. ToolUse(turn, calls') \in Messages /\ messages \in Seq(Messages)
      BY <1>1, <1>2, ToolUseFields DEF ChatTypeOK
    <2>2. messages' = Append(messages, ToolUse(turn, calls'))
      BY DEF AskForTools
    <2> QED
      BY <2>1, <2>2, Appended
  <1>4. ToolUse(turn, calls').kind = "calls" /\ ToolUse(turn, calls').turn = turn
    BY <1>1, <1>2, ToolUseFields
  <1>5. \A i \in 1 .. n : messages[i].turn \in Nat /\ messages[i].turn \leq turn
    BY Elements DEF ChatTypeOK, TurnInv
  <1>6. /\ place = "model" /\ place' = "tools" /\ iteration' = iteration + 1
        /\ turn' = turn /\ block' = 1 /\ collected' = <<>> /\ cleared' = cleared
    BY DEF AskForTools
  <1>7. ChatTypeOK'
    <2>1. block' \in 1 .. Len(calls') + 1
      BY <1>2, <1>6
    <2>2. collected' \in Seq(ResultBlocks)
      BY <1>6
    <2>3. issued' \in Nat /\ executed' = executed /\ answered' = answered
          /\ context' = context
      BY LoopAssumption DEF ChatTypeOK, AskForTools
    <2> QED
      BY <1>1, <1>2, <1>3, <1>6, <2>1, <2>2, <2>3 DEF ChatTypeOK, Phases
  <1>8. ToolsInv'
    BY <1>1, <1>3, <1>6 DEF ToolsInv
  <1>9. PairInv'
    <2> SUFFICES ASSUME NEW i \in 1 .. n + 1 PROVE PairInv!(i)'
      BY <1>3 DEF PairInv
    <2>1. CASE i \in 1 .. n
      <3>1. /\ messages'[i] = messages[i]
            /\ i < n => messages'[i + 1] = messages[i + 1]
            /\ i > 1 => messages'[i - 1] = messages[i - 1]
        BY <2>1, <1>1, <1>3
      <3>2. messages[i].kind = "calls" =>
              i < n /\ Matches(messages[i + 1], messages[i])
        BY <2>1, <1>6 DEF PairInv
      <3>3. messages[i].kind = "results" => i > 1 /\ messages[i - 1].kind = "calls"
        BY <2>1 DEF PairInv
      <3> QED
        BY <2>1, <3>1, <3>2, <3>3, <1>1, <1>3, SMTT(20) DEF Matches
    <2>2. CASE i = n + 1
      BY <2>2, <1>1, <1>3, <1>4, <1>6 DEF PairInv
    <2> QED
      BY <1>1, <2>1, <2>2
  <1>10. ASSUME NEW i \in 1 .. n + 1, messages'[i].turn = turn
         PROVE  n + 1 - i < 2 * (iteration + 1)
    <2>1. CASE i \in 1 .. n
      BY <2>1, <1>10, <1>1, <1>3, <1>6 DEF TurnInv
    <2>2. CASE i = n + 1
      BY <2>2, <1>1
    <2> QED
      BY <1>1, <2>1, <2>2
  <1>11. TurnInv'
    BY <1>1, <1>3, <1>4, <1>5, <1>6, <1>10 DEF TurnInv
  <1>12. TurnIsBounded'
    <2> SUFFICES ASSUME NEW i \in 1 .. n + 1, NEW j \in 1 .. n + 1,
                        messages'[i].turn = messages'[j].turn
                 PROVE  j - i \leq 2 * MaxIterations
      BY <1>3 DEF TurnIsBounded
    <2>1. CASE j = n + 1
      BY <2>1, <1>1, <1>3, <1>4, <1>10
    <2>2. CASE j \in 1 .. n /\ i \in 1 .. n
      BY <2>2, <1>1, <1>3 DEF TurnIsBounded
    <2>3. CASE j \in 1 .. n /\ i = n + 1
      BY <2>3, <1>1
    <2> QED
      BY <1>1, <2>1, <2>2, <2>3
  <1>13. ClearInv' /\ ClearForgets'
    BY <1>1, <1>3, <1>4, <1>6 DEF ClearInv, ClearForgets
  <1> QED
    BY <1>7, <1>8, <1>9, <1>11, <1>12, <1>13

LEMMA CallToolStep == IInv /\ CallTool => IInv'
  <1> SUFFICES ASSUME IInv, CallTool PROVE IInv'
    OBVIOUS
  <1> USE DEF IInv
  <1> DEFINE r == [id |-> calls[block], text |-> Len(executed')]
  <1>1. /\ place = "tools" /\ place' = "tools" /\ block' = block + 1
        /\ executed' = Append(executed, calls[block])
        /\ collected' = Append(collected, r)
        /\ UNCHANGED <<messages, iteration, calls, context, turn, issued,
                       answered, cleared>>
    BY DEF CallTool
  <1>2. block \in 1 .. Len(calls) /\ calls[block] \in Nat /\ Len(calls) \in Nat
    BY DEF ChatTypeOK, CallTool
  <1>3. executed' \in Seq(Nat) /\ r \in ResultBlocks
    BY <1>1, <1>2 DEF ChatTypeOK, ResultBlocks
  <1>4. /\ collected' \in Seq(ResultBlocks) /\ Len(collected') = Len(collected) + 1
        /\ collected'[Len(collected) + 1] = r
        /\ \A k \in 1 .. Len(collected) : collected'[k] = collected[k]
    BY <1>1, <1>3 DEF ChatTypeOK
  <1>5. ChatTypeOK'
    BY <1>1, <1>2, <1>3, <1>4 DEF ChatTypeOK
  <1>6. ToolsInv'
    <2>1. Len(collected) = block - 1 /\ \A k \in 1 .. block - 1 : collected[k].id = calls[k]
      BY <1>1 DEF ToolsInv
    <2>2. Len(collected') = block' - 1
      BY <2>1, <1>1, <1>2, <1>4
    <2>3. \A k \in 1 .. block' - 1 : collected'[k].id = calls'[k]
      BY <2>1, <1>1, <1>2, <1>4
    <2> QED
      BY <2>2, <2>3, <1>1 DEF ToolsInv
  <1>7. PairInv'
    BY <1>1 DEF PairInv, Matches
  <1>8. TurnInv' /\ ClearInv' /\ TurnIsBounded' /\ ClearForgets'
    BY <1>1 DEF TurnInv, ClearInv, TurnIsBounded, ClearForgets
  <1> QED
    BY <1>5, <1>6, <1>7, <1>8

(* The results follow their calls, also when the turn is over with them.   *)
LEMMA ToolsDoneStep == IInv /\ ToolsDone => IInv'
  <1> SUFFICES ASSUME IInv, ToolsDone PROVE IInv'
    OBVIOUS
  <1> USE DEF IInv, loopVars
  <1> DEFINE n == Len(messages)
             m == ToolResults(turn, collected)
  <1>1. /\ n \in Nat /\ n \geq 2 /\ turn \in Nat /\ cleared \in Nat /\ cleared < turn
        /\ iteration \in 1 .. MaxIterations /\ MaxIterations \in Nat
        /\ messages[n] = ToolUse(turn, calls)
        /\ Len(collected) = Len(calls)
        /\ \A k \in 1 .. Len(calls) : collected[k].id = calls[k]
    BY LoopAssumption, SMTT(20) DEF ChatTypeOK, ToolsDone, ToolsInv, ClearInv, TurnInv
  <1>2. collected \in Seq(ResultBlocks) /\ calls \in Seq(Nat)
    BY DEF ChatTypeOK
  <1>3. /\ messages' \in Seq(Messages) /\ Len(messages') = n + 1
        /\ messages'[n + 1] = m
        /\ \A i \in 1 .. n : messages'[i] = messages[i]
    <2>1. m \in Messages /\ messages \in Seq(Messages)
      BY <1>1, <1>2, ToolResultsFields DEF ChatTypeOK
    <2>2. messages' = Append(messages, m)
      BY DEF ToolsDone
    <2> QED
      BY <2>1, <2>2, Appended
  <1>4. /\ m.kind = "results" /\ m.turn = turn /\ m.answers = collected
        /\ messages[n].kind = "calls" /\ messages[n].asked = calls
    <2>1. m.kind = "results" /\ m.turn = turn /\ m.answers = collected
      BY <1>1, <1>2, ToolResultsFields
    <2>2. messages[n].kind = "calls" /\ messages[n].asked = calls
      BY <1>1, <1>2, ToolUseFields
    <2> QED
      BY <2>1, <2>2
  <1>5. \A i \in 1 .. n : messages[i].turn \in Nat /\ messages[i].turn \leq turn
    BY Elements DEF ChatTypeOK, TurnInv
  <1>6. /\ place = "tools"
        /\ UNCHANGED <<iteration, calls, block, collected, turn, issued, executed,
                       cleared>>
        /\ \/ /\ place' = "model" /\ iteration < MaxIterations
              /\ answered' = answered /\ context' = context
           \/ /\ place' = "prompt" /\ answered' = answered \cup {turn}
              /\ context' = context + n - 1
    BY DEF ToolsDone
  <1>7. ChatTypeOK'
    <2>1. turn \in 1 .. turn /\ context' \in Nat
      BY <1>1, <1>6, SMTT(20) DEF ChatTypeOK
    <2>2. answered' \subseteq 1 .. turn
      <3>1. answered \subseteq 1 .. turn
        BY DEF ChatTypeOK
      <3>2. answered' \subseteq answered \cup {turn}
        BY <1>6
      <3> HIDE DEF IInv
      <3> QED
        BY <2>1, <3>1, <3>2
    <2> QED
      BY <2>1, <2>2, <1>3, <1>6 DEF ChatTypeOK, Phases
  <1>8. ToolsInv'
    BY <1>6 DEF ToolsInv
  <1>9. PairInv'
    <2> SUFFICES ASSUME NEW i \in 1 .. n + 1 PROVE PairInv!(i)'
      BY <1>3 DEF PairInv
    <2>1. CASE i \in 1 .. n - 1
      <3>1. /\ messages'[i] = messages[i] /\ messages'[i + 1] = messages[i + 1]
            /\ i > 1 => messages'[i - 1] = messages[i - 1]
        <4>1. i \in 1 .. n /\ i + 1 \in 1 .. n /\ (i > 1 => i - 1 \in 1 .. n)
          BY <2>1, <1>1
        <4> QED
          BY <4>1, <1>3
      <3>2. messages[i].kind = "calls" => Matches(messages[i + 1], messages[i])
        BY <2>1, <1>1 DEF PairInv
      <3>3. messages[i].kind = "results" => i > 1 /\ messages[i - 1].kind = "calls"
        BY <2>1, <1>1 DEF PairInv
      <3> QED
        BY <2>1, <3>1, <3>2, <3>3, <1>1, <1>3 DEF Matches
    <2>2. CASE i = n
      <3>1. messages'[i] = messages[n] /\ messages'[i + 1] = m
        BY <2>2, <1>1, <1>3
      <3>2. Matches(m, messages[n])
        BY <1>1, <1>4 DEF Matches
      <3> QED
        BY <2>2, <3>1, <3>2, <1>1, <1>3, <1>4 DEF Matches
    <2>3. CASE i = n + 1
      BY <2>3, <1>1, <1>3, <1>4
    <2> QED
      BY <1>1, <2>1, <2>2, <2>3
  <1>10. ASSUME NEW i \in 1 .. n + 1, messages'[i].turn = turn
         PROVE  n + 1 - i \leq 2 * iteration
    <2>1. CASE i \in 1 .. n
      BY <2>1, <1>10, <1>1, <1>3, <1>6, SMTT(20) DEF TurnInv
    <2>2. CASE i = n + 1
      BY <2>2, <1>1
    <2> QED
      BY <1>1, <2>1, <2>2
  <1>11. TurnInv'
    <2>1. \A i \in 1 .. n + 1 : messages'[i].turn \leq turn
      BY <1>1, <1>3, <1>4, <1>5
    <2> QED
      BY <2>1, <1>1, <1>3, <1>6, <1>10 DEF TurnInv
  <1>12. TurnIsBounded'
    <2> SUFFICES ASSUME NEW i \in 1 .. n + 1, NEW j \in 1 .. n + 1,
                        messages'[i].turn = messages'[j].turn
                 PROVE  j - i \leq 2 * MaxIterations
      BY <1>3 DEF TurnIsBounded
    <2>1. CASE j = n + 1
      BY <2>1, <1>1, <1>3, <1>4, <1>10
    <2>2. CASE j \in 1 .. n /\ i \in 1 .. n
      BY <2>2, <1>1, <1>3 DEF TurnIsBounded
    <2>3. CASE j \in 1 .. n /\ i = n + 1
      BY <2>3, <1>1
    <2> QED
      BY <1>1, <2>1, <2>2, <2>3
  <1>13. ClearInv'
    BY <1>1, <1>3, <1>6 DEF ClearInv
  <1>14. ClearForgets'
    <2>1. \A i \in 1 .. n + 1 : messages'[i].turn > cleared
      BY <1>1, <1>3, <1>4 DEF ClearForgets
    <2>2. place' = "prompt" => context' # 0 /\ messages' # <<>>
      BY <1>1, <1>3, <1>6 DEF ChatTypeOK
    <2> QED
      BY <2>1, <2>2, <1>3, <1>6 DEF ClearForgets
  <1> QED
    BY <1>7, <1>8, <1>9, <1>11, <1>12, <1>13, <1>14

-------------------------------------------------------------------------------
LEMMA Inductive == IInv /\ [ChatNext]_chatVars => IInv'
  <1> SUFFICES ASSUME IInv, [ChatNext]_chatVars PROVE IInv'
    OBVIOUS
  <1>1. CASE UNCHANGED chatVars
    BY <1>1 DEF chatVars, loopVars, IInv, ChatTypeOK, ToolsInv, PairInv, TurnInv,
                TurnIsBounded, ClearInv, ClearForgets, Matches
  <1>2. CASE ChatNext
    BY <1>1, <1>2, AskStep, ClearStep, LeaveStep, AnswerStep, AskForToolsStep,
       CallToolStep, ToolsDoneStep DEF ChatNext, Turn, Ended
  <1> QED
    BY <1>1, <1>2

(* The invariant of the conversation, for any caps and any length.         *)
THEOREM Invariance == ChatSpec => []IInv
  BY Initially, Inductive, PTL DEF ChatSpec

(* Every list that is sent, or kept for the next question, pairs tool      *)
(* calls with their results (loop.py:126-134).                             *)
THEOREM RequestsArePaired == ChatSpec => []Paired
  <1>1. IInv => Paired
    BY DEF IInv, PairInv, Paired
  <1> QED
    BY <1>1, Invariance, PTL

(* No turn adds more than two messages per permitted request to its        *)
(* question (loop.py:113).                                                 *)
THEOREM TurnsAreBounded == ChatSpec => []TurnIsBounded
  <1>1. IInv => TurnIsBounded
    BY DEF IInv
  <1> QED
    BY <1>1, Invariance, PTL

(* /clear forgets everything before it (chat.py:79-83).                    *)
THEOREM ClearIsComplete == ChatSpec => []ClearForgets
  <1>1. IInv => ClearForgets
    BY DEF IInv
  <1> QED
    BY <1>1, Invariance, PTL

-------------------------------------------------------------------------------
(* The function that FlattenSeq defines by recursion exists.               *)
LEMMA PrefixesExist ==
  ASSUME NEW ss, NEW n \in Nat
  PROVE  \E h : h = [i \in 1 .. n |-> IF i = 1 THEN ss[i] ELSE h[i - 1] \o ss[i]]
<1> DEFINE good == {m \in Nat : \E h : h = [i \in 1 .. m |->
                                     IF i = 1 THEN ss[i] ELSE h[i - 1] \o ss[i]]}
<1>1. 0 \in good
  <2> DEFINE h == [i \in 1 .. 0 |-> {}]
  <2>1. h = [i \in 1 .. 0 |-> IF i = 1 THEN ss[i] ELSE h[i - 1] \o ss[i]]
    OBVIOUS
  <2> QED  BY <2>1
<1>2. ASSUME NEW m \in Nat, m \in good PROVE m + 1 \in good
  <2>1. PICK h : h = [i \in 1 .. m |-> IF i = 1 THEN ss[i] ELSE h[i - 1] \o ss[i]]
    BY <1>2
  <2> DEFINE last == IF m = 0 THEN ss[1] ELSE h[m] \o ss[m + 1]
              g    == [i \in 1 .. m + 1 |-> IF i \leq m THEN h[i] ELSE last]
  <2>2. ASSUME NEW i \in 1 .. m + 1
        PROVE  g[i] = IF i = 1 THEN ss[i] ELSE g[i - 1] \o ss[i]
    <3>1. CASE i \leq m
      <4>0. i \in 1 .. m
        BY <3>1
      <4>1. h[i] = IF i = 1 THEN ss[i] ELSE h[i - 1] \o ss[i]
        BY <2>1, <4>0, Zenon
      <4>2. g[i] = h[i]
        BY <3>1
      <4>3. i # 1 => g[i - 1] = h[i - 1]
        BY <3>1
      <4> HIDE DEF g
      <4> QED  BY <4>0, <4>1, <4>2, <4>3, Zenon
    <3>2. CASE i = m + 1
      <4>1. g[i] = last
        BY <3>2
      <4>2. m # 0 => m \in 1 .. m + 1 /\ g[m] = h[m]
        OBVIOUS
      <4>3. i = 1 <=> m = 0
        BY <3>2
      <4>4. i - 1 = m
        BY <3>2
      <4> HIDE DEF g
      <4> QED  BY <3>2, <4>1, <4>2, <4>3, <4>4, Zenon
    <3> QED  BY <3>1, <3>2
  <2>3. g = [i \in 1 .. m + 1 |-> IF i = 1 THEN ss[i] ELSE g[i - 1] \o ss[i]]
    BY <2>2
  <2>4. m + 1 \in Nat
    OBVIOUS
  <2> HIDE DEF g
  <2> QED  BY <2>3, <2>4, Zenon
<1>3. Nat \subseteq good
  <2> HIDE DEF good
  <2> QED  BY <1>1, <1>2, SetInduction
<1> QED  BY <1>3

(* Its values: the first parts of the list, joined.                        *)
Joined(ss) == CHOOSE h : h = [i \in 1 .. Len(ss) |->
                                IF i = 1 THEN ss[i] ELSE h[i - 1] \o ss[i]]

(* A list is flattened part by part.                                       *)
LEMMA FlattenPrefixes ==
  ASSUME NEW T, NEW ss \in Seq(Seq(T))
  PROVE  /\ FlattenSeq(ss) = IF Len(ss) = 0 THEN ss ELSE Joined(ss)[Len(ss)]
         /\ \A i \in 1 .. Len(ss) :
              Joined(ss)[i] = IF i = 1 THEN ss[i] ELSE Joined(ss)[i - 1] \o ss[i]
<1>1. FlattenSeq(ss) = IF Len(ss) = 0 THEN ss ELSE Joined(ss)[Len(ss)]
  BY DEF FlattenSeq, Joined
<1>2. Joined(ss) = [i \in 1 .. Len(ss) |->
                      IF i = 1 THEN ss[i] ELSE Joined(ss)[i - 1] \o ss[i]]
  <2>1. Len(ss) \in Nat
    OBVIOUS
  <2> QED  BY <2>1, PrefixesExist DEF Joined
<1> HIDE DEF Joined
<1> QED  BY <1>1, <1>2

(* A list is flattened from its first part on.                             *)
LEMMA FlattenAppend ==
  ASSUME NEW T, NEW ss \in Seq(Seq(T)), NEW s \in Seq(T)
  PROVE  FlattenSeq(Append(ss, s)) = FlattenSeq(ss) \o s
<1> DEFINE n == Len(ss)
            tt == Append(ss, s)
            p == Joined(ss)
            q == Joined(tt)
<1>1. /\ tt \in Seq(Seq(T)) /\ Len(tt) = n + 1 /\ n \in Nat /\ tt[n + 1] = s
      /\ \A i \in 1 .. n : tt[i] = ss[i]
  OBVIOUS
<1>2. /\ \A i \in 1 .. n : p[i] = IF i = 1 THEN ss[i] ELSE p[i - 1] \o ss[i]
      /\ \A i \in 1 .. n + 1 : q[i] = IF i = 1 THEN tt[i] ELSE q[i - 1] \o tt[i]
  BY <1>1, FlattenPrefixes
<1>3. /\ FlattenSeq(ss) = IF n = 0 THEN ss ELSE p[n]
      /\ FlattenSeq(tt) = q[n + 1]
  <2>1. Len(tt) # 0
    BY <1>1
  <2> QED  BY <1>1, <2>1, FlattenPrefixes
<1> HIDE DEF p, q
<1>4. \A i \in 1 .. n : q[i] = p[i]
  <2> DEFINE same == {i \in Nat : i \in 1 .. n => q[i] = p[i]}
  <2>1. 0 \in same
    OBVIOUS
  <2>2. ASSUME NEW i \in Nat, i \in same PROVE i + 1 \in same
    <3>1. CASE i = 0
      BY <1>1, <1>2, <3>1
    <3>2. CASE i # 0 /\ i + 1 \in 1 .. n
      <4>1. /\ i \in 1 .. n /\ i + 1 \in 1 .. n + 1 /\ i + 1 # 1 /\ (i + 1) - 1 = i
            /\ i + 1 \in Nat
        BY <1>1, <3>2
      <4>2. q[i] = p[i]
        BY <2>2, <4>1
      <4>3. q[i + 1] = q[i] \o tt[i + 1] /\ p[i + 1] = p[i] \o ss[i + 1]
        BY <1>2, <3>2, <4>1, Zenon
      <4>4. tt[i + 1] = ss[i + 1]
        BY <1>1, <3>2
      <4> QED  BY <4>1, <4>2, <4>3, <4>4, Zenon
    <3> QED  BY <3>1, <3>2
  <2>3. Nat \subseteq same
    <3> HIDE DEF same
    <3> QED  BY <2>1, <2>2, SetInduction
  <2> QED  BY <2>3
<1>5. CASE n = 0
  <2>1. ss = <<>>
    BY <1>5
  <2>2. q[1] = s
    BY <1>1, <1>2, <1>5
  <2> QED  BY <1>3, <1>5, <2>1, <2>2
<1>6. CASE n # 0
  <2>1. n \in 1 .. n /\ n + 1 \in 1 .. n + 1 /\ n + 1 # 1 /\ (n + 1) - 1 = n
    BY <1>1, <1>6
  <2>2. q[n + 1] = q[n] \o tt[n + 1]
    BY <1>2, <2>1, Zenon
  <2> QED  BY <1>1, <1>3, <1>4, <1>6, <2>1, <2>2
<1> QED  BY <1>5, <1>6

(* Its elements are those of its parts.                                    *)
LEMMA FlattenElements ==
  ASSUME NEW T, NEW ss \in Seq(Seq(T))
  PROVE  /\ FlattenSeq(ss) \in Seq(T)
         /\ \A k \in 1 .. Len(FlattenSeq(ss)) : \E i \in 1 .. Len(ss) :
              \E j \in 1 .. Len(ss[i]) : FlattenSeq(ss)[k] = ss[i][j]
<1> DEFINE n == Len(ss)
            p == Joined(ss)
            Drawn(m) == /\ p[m] \in Seq(T)
                        /\ \A k \in 1 .. Len(p[m]) : \E i \in 1 .. n :
                             \E j \in 1 .. Len(ss[i]) : p[m][k] = ss[i][j]
            good == {m \in Nat : m \in 1 .. n => Drawn(m)}
<1>1. \A i \in 1 .. n : p[i] = IF i = 1 THEN ss[i] ELSE p[i - 1] \o ss[i]
  BY FlattenPrefixes
<1>2. n \in Nat /\ \A i \in 1 .. n : ss[i] \in Seq(T)
  OBVIOUS
<1>3. FlattenSeq(ss) = IF n = 0 THEN ss ELSE p[n]
  BY FlattenPrefixes
<1> HIDE DEF p, n
<1>4. 0 \in good
  OBVIOUS
<1>5. ASSUME NEW m \in Nat, m \in good PROVE m + 1 \in good
  <2> SUFFICES ASSUME m + 1 \in 1 .. n PROVE Drawn(m + 1)
    OBVIOUS
  <2>1. ss[m + 1] \in Seq(T)
    BY <1>2
  <2>2. CASE m = 0
    <3>1. p[m + 1] = ss[m + 1]
      BY <1>1, <2>2
    <3> QED  BY <2>1, <3>1
  <2>3. CASE m # 0
    <3>1. m \in 1 .. n /\ m + 1 # 1 /\ (m + 1) - 1 = m
      BY <1>2, <2>3
    <3>2. p[m + 1] = p[m] \o ss[m + 1]
      BY <1>1, <3>1, Zenon
    <3>3. Drawn(m)
      BY <1>5, <3>1
    <3> DEFINE a == p[m]
                b == ss[m + 1]
    <3>4. ASSUME NEW k \in 1 .. Len(a \o b)
          PROVE  \E i \in 1 .. n : \E j \in 1 .. Len(ss[i]) : (a \o b)[k] = ss[i][j]
      <4>0. a \in Seq(T) /\ b \in Seq(T)
        BY <2>1, <3>3
      <4>1. CASE k \in 1 .. Len(a)
        <5>1. (a \o b)[k] = a[k]
          BY <4>0, <4>1
        <5> QED  BY <3>3, <4>1, <5>1
      <4>2. CASE k \notin 1 .. Len(a)
        <5> HIDE DEF a
        <5>1. (a \o b)[k] = b[k - Len(a)] /\ k - Len(a) \in 1 .. Len(b)
          BY <4>0, <4>2
        <5> QED  BY <5>1
      <4> QED  BY <4>1, <4>2
    <3>5. a \o b \in Seq(T)
      BY <2>1, <3>3
    <3> QED  BY <3>2, <3>4, <3>5
  <2> QED  BY <2>2, <2>3
<1>6. Nat \subseteq good
  <2> HIDE DEF good
  <2> QED  BY <1>4, <1>5, SetInduction
<1>7. CASE n = 0
  <2>1. FlattenSeq(ss) = <<>>
    BY <1>3, <1>7 DEF n
  <2> QED  BY <2>1
<1>8. CASE n # 0
  <2>1. Drawn(n)
    <3>1. n \in Nat /\ n \in 1 .. n
      BY <1>2, <1>8
    <3> HIDE DEF Drawn
    <3> QED  BY <1>6, <3>1
  <2> QED  BY <1>3, <1>8, <2>1 DEF n
<1> QED  BY <1>7, <1>8

-------------------------------------------------------------------------------
(* The ids a list asks for, when a message is added to it.                 *)
LEMMA ToolUsesAppend ==
  ASSUME NEW ms \in Seq(Messages), NEW m \in Messages
  PROVE  ToolUses(Append(ms, m)) = ToolUses(ms) \o m.asked
  <1> DEFINE n == Len(ms)
             ss == [i \in 1 .. n |-> ms[i].asked]
             tt == [i \in 1 .. n + 1 |-> Append(ms, m)[i].asked]
  <1>1. n \in Nat /\ Len(Append(ms, m)) = n + 1
    OBVIOUS
  <1>2. m.asked \in Seq(Nat) /\ \A i \in 1 .. n : ms[i].asked \in Seq(Nat)
    <2>1. \A i \in 1 .. n : ms[i] \in Messages
      BY Elements
    <2> QED
      BY <2>1 DEF Messages
  <1>3. ss \in Seq(Seq(Nat)) /\ Len(ss) = n
    BY <1>1, <1>2
  <1>4. tt = Append(ss, m.asked)
    <2>1. /\ Append(ms, m)[n + 1] = m
          /\ \A i \in 1 .. n : Append(ms, m)[i] = ms[i]
      OBVIOUS
    <2>2. /\ Append(ss, m.asked) \in Seq(Seq(Nat)) /\ Len(Append(ss, m.asked)) = n + 1
          /\ Append(ss, m.asked)[n + 1] = m.asked
          /\ \A i \in 1 .. n : Append(ss, m.asked)[i] = ss[i]
      BY <1>2, <1>3, AppendProperties
    <2>3. tt \in Seq(Seq(Nat)) /\ Len(tt) = n + 1
      <3>1. \A i \in 1 .. n + 1 : Append(ms, m)[i].asked \in Seq(Nat)
        BY <1>1, <1>2, <2>1
      <3> QED
        BY <1>1, <3>1
    <2>4. \A i \in 1 .. n + 1 : tt[i] = Append(ss, m.asked)[i]
      <3> TAKE i \in 1 .. n + 1
      <3>1. CASE i \in 1 .. n
        BY <2>1, <2>2, <3>1
      <3>2. CASE i = n + 1
        BY <2>1, <2>2, <3>2
      <3> QED
        BY <1>1, <3>1, <3>2
    <2> HIDE DEF ss, tt
    <2> QED
      BY <2>2, <2>3, <2>4, SeqEqual
  <1>5. FlattenSeq(tt) = FlattenSeq(ss) \o m.asked
    <2> HIDE DEF ss, tt
    <2> QED
      BY <1>2, <1>3, <1>4, FlattenAppend
  <1> QED
    BY <1>1, <1>5 DEF ToolUses

(* An id a list asks for is asked for by one of its messages.              *)
LEMMA ToolUsesElements ==
  ASSUME NEW ms \in Seq(Messages)
  PROVE  /\ ToolUses(ms) \in Seq(Nat)
         /\ ms = <<>> => ToolUses(ms) = <<>>
         /\ \A k \in 1 .. Len(ToolUses(ms)) : \E i \in 1 .. Len(ms) :
              \E j \in 1 .. Len(ms[i].asked) : ToolUses(ms)[k] = ms[i].asked[j]
  <1> DEFINE n == Len(ms)
             ss == [i \in 1 .. n |-> ms[i].asked]
  <1>1. \A i \in 1 .. n : ms[i].asked \in Seq(Nat)
    <2>1. \A i \in 1 .. n : ms[i] \in Messages
      BY Elements
    <2> QED
      BY <2>1 DEF Messages
  <1>2. ss \in Seq(Seq(Nat)) /\ Len(ss) = n /\ \A i \in 1 .. n : ss[i] = ms[i].asked
    BY <1>1
  <1>3. ToolUses(ms) = FlattenSeq(ss)
    BY DEF ToolUses
  <1> HIDE DEF ss
  <1>4. ms = <<>> => FlattenSeq(ss) = <<>>
    BY <1>2 DEF FlattenSeq
  <1>5. /\ FlattenSeq(ss) \in Seq(Nat)
        /\ \A k \in 1 .. Len(FlattenSeq(ss)) : \E i \in 1 .. Len(ss) :
             \E j \in 1 .. Len(ss[i]) : FlattenSeq(ss)[k] = ss[i][j]
    BY <1>2, FlattenElements
  <1>6. ASSUME NEW k \in 1 .. Len(FlattenSeq(ss))
        PROVE  \E i \in 1 .. Len(ms) :
                 \E j \in 1 .. Len(ms[i].asked) : FlattenSeq(ss)[k] = ms[i].asked[j]
    <2>1. PICK i \in 1 .. Len(ss) : \E j \in 1 .. Len(ss[i]) : FlattenSeq(ss)[k] = ss[i][j]
      BY <1>5
    <2>2. i \in 1 .. Len(ms) /\ ss[i] = ms[i].asked
      BY <1>2, <2>1
    <2> QED
      BY <2>1, <2>2, Zenon
  <1> QED
    BY <1>3, <1>4, <1>5, <1>6

-------------------------------------------------------------------------------
(* A suffix stays one when both lists go on in the same way.               *)
Suffix(u, s) ==
  /\ Len(s) - Len(u) \geq 0
  /\ \A k \in 1 .. Len(u) : u[k] = s[Len(s) - Len(u) + k]

LEMMA SuffixExtends ==
  ASSUME NEW u \in Seq(Nat), NEW s \in Seq(Nat), NEW c \in Seq(Nat), Suffix(u, s)
  PROVE  Suffix(u \o c, s \o c)
  <1>1. /\ Len(u \o c) = Len(u) + Len(c) /\ Len(s \o c) = Len(s) + Len(c)
        /\ Len(u) \in Nat /\ Len(s) \in Nat /\ Len(c) \in Nat
    OBVIOUS
  <1>2. Len(s \o c) - Len(u \o c) = Len(s) - Len(u) /\ Len(s) - Len(u) \in Nat
    BY <1>1 DEF Suffix
  <1>3. ASSUME NEW k \in 1 .. Len(u) + Len(c)
        PROVE  (u \o c)[k] = (s \o c)[Len(s) - Len(u) + k]
    <2>1. CASE k \in 1 .. Len(u)
      <3>1. (u \o c)[k] = u[k]
        BY <2>1
      <3>2. Len(s) - Len(u) + k \in 1 .. Len(s)
        BY <1>1, <1>2, <2>1
      <3>3. (s \o c)[Len(s) - Len(u) + k] = s[Len(s) - Len(u) + k]
        BY <3>2
      <3> QED
        BY <2>1, <3>1, <3>3 DEF Suffix
    <2>2. CASE k \in Len(u) + 1 .. Len(u) + Len(c)
      <3>1. (u \o c)[k] = c[k - Len(u)]
        BY <2>2
      <3>2. Len(s) - Len(u) + k \in Len(s) + 1 .. Len(s) + Len(c)
        BY <1>1, <1>2, <2>2
      <3>3. (s \o c)[Len(s) - Len(u) + k] = c[Len(s) - Len(u) + k - Len(s)]
        BY <3>2
      <3>4. Len(s) - Len(u) + k - Len(s) = k - Len(u)
        BY <1>1
      <3> QED
        BY <3>1, <3>3, <3>4
    <2>3. k \in 1 .. Len(u) \/ k \in Len(u) + 1 .. Len(u) + Len(c)
      BY <1>1
    <2> QED
      BY <2>1, <2>2, <2>3, Zenon
  <1> QED
    BY <1>1, <1>2, <1>3 DEF Suffix

(* The calls of the list are the last of those issued.                     *)
LEMMA OrderIsSuffix == OrderInv <=> (place # "ended" => Suffix(ToolUses(messages), Issued))
  BY DEF OrderInv, Suffix

(* What the list and the calls give out, by place.                         *)
LEMMA IssuedFacts ==
  ASSUME ChatTypeOK
  PROVE  /\ Pending \in Seq(Nat) /\ Issued \in Seq(Nat)
         /\ Len(Issued) = Len(executed) + Len(Pending)
         /\ place # "tools" => Issued = executed
         /\ place = "tools" /\ block > Len(calls) => Issued = executed
  <1>1. calls \in Seq(Nat) /\ executed \in Seq(Nat) /\ block \in 1 .. Len(calls) + 1
    BY DEF ChatTypeOK
  <1>2. SubSeq(calls, block, Len(calls)) \in Seq(Nat)
    BY <1>1
  <1>3. block > Len(calls) => SubSeq(calls, block, Len(calls)) = <<>>
    BY <1>1
  <1>4. Pending \in Seq(Nat)
    BY <1>2 DEF Pending
  <1>5. Pending = <<>> => Issued = executed
    BY <1>1 DEF Issued
  <1> QED
    BY <1>1, <1>3, <1>4, <1>5 DEF Pending, Issued

-------------------------------------------------------------------------------
(* New ids are larger than those given out before.                         *)
LEMMA IdsGrow ==
  ASSUME NEW s \in Seq(Nat), NEW c \in Seq(Nat), NEW top \in Nat, NEW n \in Nat,
         Len(c) = n, \A k \in 1 .. n : c[k] = top + k,
         \A j \in 1 .. Len(s) : s[j] \leq top /\ \A i \in 1 .. j - 1 : s[i] < s[j]
  PROVE  \A j \in 1 .. Len(s \o c) :
           (s \o c)[j] \leq top + n /\ \A i \in 1 .. j - 1 : (s \o c)[i] < (s \o c)[j]
  <1> DEFINE l == Len(s)
             e == s \o c
  <1>1. /\ l \in Nat /\ Len(e) = l + n
        /\ \A k \in 1 .. l : e[k] = s[k] /\ s[k] \in Nat
        /\ \A k \in l + 1 .. l + n : e[k] = c[k - l]
    <2>1. /\ l \in Nat /\ Len(e) = l + n
          /\ \A k \in 1 .. l + n : e[k] = IF k \leq l THEN s[k] ELSE c[k - l]
      <3>1. l \in Nat /\ Len(c) = n
        OBVIOUS
      <3>2. /\ Len(s \o c) = Len(s) + Len(c)
            /\ \A k \in 1 .. Len(s) + Len(c) :
                 (s \o c)[k] = IF k \leq Len(s) THEN s[k] ELSE c[k - Len(s)]
        BY ConcatProperties
      <3> QED
        BY <3>1, <3>2, Zenon
    <2>2. \A k \in 1 .. l : s[k] \in Nat
      OBVIOUS
    <2> HIDE DEF l, e
    <2> QED
      BY <2>1, <2>2
  <1>2. \A k \in l + 1 .. l + n : e[k] = top + (k - l)
    <2> TAKE k \in l + 1 .. l + n
    <2>1. k - l \in 1 .. n
      BY <1>1
    <2> QED
      BY <1>1, <2>1
  <1>3. \A j \in 1 .. l : s[j] \leq top /\ \A i \in 1 .. j - 1 : s[i] < s[j]
    OBVIOUS
  <1> HIDE DEF l, e
  <1>4. ASSUME NEW j \in 1 .. l + n
        PROVE  e[j] \leq top + n /\ \A i \in 1 .. j - 1 : e[i] < e[j]
    <2>1. CASE j \in 1 .. l
      BY <1>1, <1>3, <2>1
    <2>2. CASE j \in l + 1 .. l + n
      <3>1. e[j] = top + (j - l) /\ j - l \in 1 .. n
        BY <1>1, <1>2, <2>2
      <3>2. ASSUME NEW i \in 1 .. j - 1 PROVE e[i] < e[j]
        <4>1. CASE i \in 1 .. l
          <5>1. e[i] \in Nat /\ e[i] \leq top
            BY <1>1, <1>3, <4>1
          <5> QED
            BY <3>1, <5>1
        <4>2. CASE i \in l + 1 .. l + n
          <5>1. e[i] = top + (i - l)
            BY <1>2, <4>2
          <5> QED
            BY <1>1, <3>1, <4>2, <5>1
        <4>3. i \in 1 .. l \/ i \in l + 1 .. l + n
          BY <1>1
        <4> QED
          BY <4>1, <4>2, <4>3, Zenon
      <3>3. e[j] \leq top + n
        BY <3>1
      <3> QED
        BY <3>2, <3>3
    <2>3. j \in 1 .. l \/ j \in l + 1 .. l + n
      BY <1>1
    <2> QED
      BY <2>1, <2>2, <2>3, Zenon
  <1> QED
    BY <1>1, <1>4 DEF e

(* A result stays genuine while calls are only added to the executed ones. *)
LEMMA StaysGenuine ==
  ASSUME ChatTypeOK, NEW b,
         \/ executed' = executed
         \/ \E x \in Nat : executed' = Append(executed, x),
         b.text \in 1 .. Len(executed) /\ executed[b.text] = b.id
  PROVE  b.text \in 1 .. Len(executed') /\ executed'[b.text] = b.id
  <1>1. executed \in Seq(Nat)
    BY DEF ChatTypeOK
  <1>2. CASE executed' = executed
    BY <1>2
  <1>3. ASSUME NEW x \in Nat, executed' = Append(executed, x)
        PROVE  b.text \in 1 .. Len(executed') /\ executed'[b.text] = b.id
    <2> DEFINE t == b.text
    <2> HIDE DEF t
    <2>1. t \in 1 .. Len(executed) /\ executed[t] = b.id
      BY DEF t
    <2>2. t \in 1 .. Len(executed') /\ executed'[t] = executed[t]
      BY <1>1, <1>3, <2>1
    <2> QED
      BY <2>1, <2>2 DEF t
  <1> QED
    BY <1>2, <1>3

(* A step that neither asks for calls nor forgets them.                    *)
LEMMA NothingIssued ==
  ASSUME TranscriptInv, place # "ended", ChatTypeOK',
         Issued' = Issued, ToolUses(messages') = ToolUses(messages),
         issued' = issued
  PROVE  OrderInv' /\ IdsInv'
  <1>1. OrderInv'
    BY DEF TranscriptInv, OrderInv
  <1>2. IdsInv'
    BY DEF TranscriptInv, IdsInv
  <1> QED
    BY <1>1, <1>2

LEMMA TranscriptStarts == ChatInit => TranscriptInv
  <1> SUFFICES ASSUME ChatInit PROVE TranscriptInv
    OBVIOUS
  <1>1. IInv
    BY Initially
  <1>2. Issued = <<>>
    BY DEF ChatInit, Issued, Pending
  <1>3. ToolUses(messages) = <<>>
    BY ToolUsesElements, <1>1 DEF ChatInit, IInv, ChatTypeOK
  <1>4. OrderInv /\ IdsInv
    BY <1>2, <1>3 DEF OrderInv, IdsInv
  <1>5. AnswersInv
    BY DEF ChatInit, AnswersInv
  <1> QED
    BY <1>1, <1>4, <1>5 DEF TranscriptInv

LEMMA TranscriptAsk == TranscriptInv /\ Ask => TranscriptInv'
  <1> SUFFICES ASSUME TranscriptInv, Ask PROVE TranscriptInv'
    OBVIOUS
  <1>1. IInv /\ ChatTypeOK /\ IInv' /\ ChatTypeOK'
    BY AskStep DEF TranscriptInv, IInv
  <1> DEFINE q == Question(turn')
  <1>2. /\ q \in Messages /\ q.kind = "question" /\ q.asked = <<>> /\ q.answers = <<>>
        /\ messages \in Seq(Messages) /\ messages' = Append(messages, q)
        /\ turn' \in Nat
    BY <1>1, QuestionFields DEF Ask, Question, ChatTypeOK
  <1> HIDE DEF q
  <1>3. ToolUses(messages') = ToolUses(messages)
    <2>1. ToolUses(messages') = ToolUses(messages) \o <<>>
      BY <1>2, ToolUsesAppend
    <2>2. ToolUses(messages) \in Seq(Nat)
      BY <1>2, ToolUsesElements
    <2> QED
      BY <2>1, <2>2
  <1>4. Issued' = Issued /\ place # "ended"
    BY <1>1, IssuedFacts DEF Ask, Issued, Pending, loopVars
  <1>5. OrderInv' /\ IdsInv'
    BY <1>1, <1>3, <1>4, NothingIssued DEF Ask
  <1>6. AnswersInv'
    <2>1. /\ Len(messages') = Len(messages) + 1 /\ Len(messages) \in Nat
          /\ messages'[Len(messages) + 1] = q
          /\ \A i \in 1 .. Len(messages) : messages'[i] = messages[i]
      BY <1>2, Appended
    <2>2. executed' = executed /\ collected' = collected
      BY DEF Ask
    <2>3. ASSUME NEW i \in 1 .. Len(messages')
          PROVE  AnswersInv!2!(i)'
      <3>1. CASE i \in 1 .. Len(messages)
        BY <2>1, <2>2, <3>1 DEF TranscriptInv, AnswersInv, Genuine
      <3>2. CASE i = Len(messages) + 1
        BY <1>2, <2>1, <3>2
      <3> QED
        BY <2>1, <3>1, <3>2
    <2> QED
      BY <2>2, <2>3 DEF TranscriptInv, AnswersInv, Genuine
  <1> QED
    BY <1>1, <1>5, <1>6 DEF TranscriptInv

LEMMA TranscriptClear == TranscriptInv /\ ClearHistory => TranscriptInv'
  <1> SUFFICES ASSUME TranscriptInv, ClearHistory PROVE TranscriptInv'
    OBVIOUS
  <1>1. IInv /\ ChatTypeOK /\ IInv' /\ ChatTypeOK'
    BY ClearStep DEF TranscriptInv, IInv
  <1>2. ToolUses(messages') = <<>>
    BY <1>1, ToolUsesElements DEF ClearHistory, ChatTypeOK
  <1>3. Issued' = Issued /\ place # "ended" /\ issued' = issued
    BY DEF ClearHistory, Issued, Pending, loopVars
  <1>4. Len(Issued') \in Nat
    BY <1>1, <1>3, IssuedFacts
  <1>5. OrderInv'
    BY <1>2, <1>4 DEF OrderInv
  <1>6. IdsInv'
    BY <1>3 DEF TranscriptInv, IdsInv
  <1>7. AnswersInv'
    BY DEF TranscriptInv, AnswersInv, Genuine, ClearHistory, loopVars
  <1> QED
    BY <1>1, <1>5, <1>6, <1>7 DEF TranscriptInv

LEMMA TranscriptLeave == TranscriptInv /\ Leave => TranscriptInv'
  <1> SUFFICES ASSUME TranscriptInv, Leave PROVE TranscriptInv'
    OBVIOUS
  <1>1. IInv'
    BY LeaveStep DEF TranscriptInv
  <1>2. OrderInv' /\ IdsInv'
    BY DEF Leave, OrderInv, IdsInv
  <1>3. AnswersInv'
    BY DEF TranscriptInv, AnswersInv, Genuine, Leave, loopVars
  <1> QED
    BY <1>1, <1>2, <1>3 DEF TranscriptInv

LEMMA TranscriptAnswer == TranscriptInv /\ EndTurn => TranscriptInv'
  <1> SUFFICES ASSUME TranscriptInv, EndTurn PROVE TranscriptInv'
    OBVIOUS
  <1>1. IInv' /\ ChatTypeOK'
    BY AnswerStep DEF TranscriptInv, IInv
  <1>2. Issued' = Issued /\ place # "ended"
    BY DEF EndTurn, Issued, Pending
  <1>3. messages' = messages /\ issued' = issued
    BY DEF EndTurn
  <1>4. OrderInv' /\ IdsInv'
    BY <1>1, <1>2, <1>3, NothingIssued
  <1>5. AnswersInv'
    BY DEF TranscriptInv, AnswersInv, Genuine, EndTurn
  <1> QED
    BY <1>1, <1>4, <1>5 DEF TranscriptInv

(* The calls of a response go to the end of both lists, with new ids.      *)
LEMMA TranscriptAskForTools ==
  ASSUME TranscriptInv, NEW n \in 1 .. MaxBlocks, AskForTools(n)
  PROVE  TranscriptInv'
  <1>1. IInv /\ ChatTypeOK /\ IInv' /\ ChatTypeOK'
    BY AskForToolsStep DEF TranscriptInv, IInv
  <1>2. /\ place = "model" /\ place' = "tools" /\ block' = 1 /\ collected' = <<>>
        /\ executed' = executed /\ issued' = issued + n
        /\ calls' = [k \in 1 .. n |-> issued + k]
        /\ messages' = Append(messages, ToolUse(turn, calls'))
        /\ messages \in Seq(Messages) /\ calls' \in Seq(Nat) /\ executed \in Seq(Nat)
        /\ turn \in Nat /\ issued \in Nat /\ n \in Nat
    BY <1>1, LoopAssumption DEF AskForTools, ChatTypeOK
  <1>3. /\ ToolUse(turn, calls') \in Messages
        /\ ToolUse(turn, calls').asked = calls' /\ ToolUse(turn, calls').kind = "calls"
        /\ ToolUse(turn, calls').answers = <<>>
    BY <1>2, ToolUseFields DEF ToolUse
  <1>4. ToolUses(messages') = ToolUses(messages) \o calls'
    BY <1>2, <1>3, ToolUsesAppend
  <1>5. Issued = executed
    BY <1>1, <1>2, IssuedFacts
  <1>6. Issued' = executed \o calls'
    <2>1. Pending' = SubSeq(calls', 1, Len(calls'))
      BY <1>2 DEF Pending
    <2>2. SubSeq(calls', 1, Len(calls')) = calls'
      BY <1>2
    <2> QED
      BY <1>2, <2>1, <2>2 DEF Issued
  <1>7. OrderInv'
    <2>1. Suffix(ToolUses(messages), executed)
      BY <1>2, <1>5, OrderIsSuffix DEF TranscriptInv
    <2>2. ToolUses(messages) \in Seq(Nat)
      BY <1>2, ToolUsesElements
    <2>3. Suffix(ToolUses(messages) \o calls', executed \o calls')
      BY <1>2, <2>1, <2>2, SuffixExtends
    <2> QED
      BY <1>4, <1>6, <2>3 DEF OrderInv, Suffix
  <1>8. IdsInv'
    <2> DEFINE s == executed
               c == calls'
    <2>1. /\ s \in Seq(Nat) /\ c \in Seq(Nat) /\ Len(c) = n
          /\ \A k \in 1 .. n : c[k] = issued + k
          /\ \A j \in 1 .. Len(s) : s[j] \leq issued /\ \A i \in 1 .. j - 1 : s[i] < s[j]
      BY <1>2, <1>5 DEF TranscriptInv, IdsInv
    <2> HIDE DEF s, c
    <2>2. /\ \A j \in 1 .. Len(s \o c) :
               (s \o c)[j] \leq issued + n /\ \A i \in 1 .. j - 1 : (s \o c)[i] < (s \o c)[j]
      BY <1>2, <2>1, IdsGrow
    <2>4. Issued' = s \o c /\ issued' = issued + n
      BY <1>2, <1>6 DEF s, c
    <2> QED
      BY <2>2, <2>4 DEF IdsInv
  <1>9. AnswersInv'
    <2>1. /\ Len(messages') = Len(messages) + 1 /\ Len(messages) \in Nat
          /\ messages'[Len(messages) + 1] = ToolUse(turn, calls')
          /\ \A i \in 1 .. Len(messages) : messages'[i] = messages[i]
      BY <1>2, <1>3, Appended
    <2>2. ASSUME NEW i \in 1 .. Len(messages')
          PROVE  AnswersInv!2!(i)'
      <3>1. CASE i \in 1 .. Len(messages)
        BY <1>2, <2>1, <3>1 DEF TranscriptInv, AnswersInv, Genuine
      <3>2. CASE i = Len(messages) + 1
        BY <1>3, <2>1, <3>2
      <3> QED
        BY <2>1, <3>1, <3>2
    <2>3. Len(collected') = 0
      BY <1>2
    <2> QED
      BY <2>2, <2>3 DEF AnswersInv
  <1> QED
    BY <1>1, <1>7, <1>8, <1>9 DEF TranscriptInv

(* A call moves from those that wait to those that ran.                    *)
LEMMA TranscriptCallTool == TranscriptInv /\ CallTool => TranscriptInv'
  <1> SUFFICES ASSUME TranscriptInv, CallTool PROVE TranscriptInv'
    OBVIOUS
  <1>1. IInv /\ ChatTypeOK /\ IInv' /\ ChatTypeOK'
    BY CallToolStep DEF TranscriptInv, IInv
  <1> DEFINE x == calls[block]
             r == [id |-> x, text |-> Len(executed')]
  <1>2. /\ place = "tools" /\ place' = "tools" /\ block' = block + 1
        /\ calls' = calls /\ messages' = messages /\ issued' = issued
        /\ executed' = Append(executed, x) /\ collected' = Append(collected, r)
        /\ calls \in Seq(Nat) /\ executed \in Seq(Nat) /\ collected \in Seq(ResultBlocks)
        /\ block \in 1 .. Len(calls)
    BY <1>1 DEF CallTool, ChatTypeOK
  <1>3. x \in Nat /\ Len(executed') = Len(executed) + 1 /\ executed'[Len(executed')] = x
    BY <1>2
  <1>4. Issued' = Issued
    <2>1. SubSeq(calls, block, Len(calls))
            = <<x>> \o SubSeq(calls, block + 1, Len(calls))
      <3>1. Len(calls) \in block .. Len(calls)
        BY <1>2
      <3> QED
        BY <1>2, <3>1, SubSeqRecursiveFirst DEF x
    <2>2. /\ Pending = SubSeq(calls, block, Len(calls))
          /\ Pending' = SubSeq(calls, block + 1, Len(calls))
      BY <1>2, Zenon DEF Pending
    <2>3. SubSeq(calls, block + 1, Len(calls)) \in Seq(Nat)
      BY <1>2
    <2> HIDE DEF x
    <2>4. Pending = <<x>> \o Pending' /\ Pending' \in Seq(Nat)
      BY <2>1, <2>2, <2>3, Zenon DEF x
    <2>5. executed \o (<<x>> \o Pending') = Append(executed, x) \o Pending'
      <3>1. <<x>> \in Seq(Nat)
        BY <1>3
      <3>2. (executed \o <<x>>) \o Pending' = executed \o (<<x>> \o Pending')
        <4>1. executed \in Seq(Nat) /\ Pending' \in Seq(Nat)
          BY <1>2, <2>4
        <4> QED
          BY <3>1, <4>1, ConcatAssociative
      <3> QED
        BY <1>2, <1>3, <3>2, AppendIsConcat
    <2> QED
      BY <1>2, <2>4, <2>5 DEF Issued
  <1>5. OrderInv' /\ IdsInv'
    BY <1>1, <1>2, <1>4, NothingIssued
  <1>6. AnswersInv'
    <2>1. \/ executed' = executed
          \/ \E y \in Nat : executed' = Append(executed, y)
      BY <1>2, <1>3
    <2>2. ASSUME NEW b, b.text \in 1 .. Len(executed) /\ executed[b.text] = b.id
          PROVE  b.text \in 1 .. Len(executed') /\ executed'[b.text] = b.id
      BY <1>1, <2>1, <2>2, StaysGenuine
    <2> HIDE DEF r
    <2>0. /\ r.text = Len(executed') /\ r.id = x
          /\ Len(collected') = Len(collected) + 1 /\ Len(collected) \in Nat
          /\ collected'[Len(collected) + 1] = r
          /\ \A k \in 1 .. Len(collected) : collected'[k] = collected[k]
      <3>1. r \in ResultBlocks
        BY <1>2, <1>3 DEF r, ResultBlocks
      <3>2. r.text = Len(executed') /\ r.id = x
        BY DEF r
      <3> QED
        BY <1>2, <3>1, <3>2
    <2>3. ASSUME NEW k \in 1 .. Len(collected') PROVE Genuine(collected[k])'
      <3>1. CASE k \in 1 .. Len(collected)
        <4>1. collected'[k] = collected[k]
          BY <2>0, <3>1
        <4> QED
          BY <2>2, <3>1, <4>1 DEF TranscriptInv, AnswersInv, Genuine
      <3>2. CASE k = Len(collected) + 1
        <4>1. collected'[k] = r
          BY <2>0, <3>2
        <4>2. Len(executed') \in 1 .. Len(executed')
          BY <1>2, <1>3
        <4> QED
          BY <1>3, <2>0, <4>1, <4>2 DEF Genuine
      <3> QED
        BY <2>0, <3>1, <3>2
    <2>4. ASSUME NEW i \in 1 .. Len(messages')
          PROVE  AnswersInv!2!(i)'
      BY <1>2, <2>2 DEF TranscriptInv, AnswersInv, Genuine
    <2> QED
      BY <2>3, <2>4 DEF AnswersInv
  <1> QED
    BY <1>1, <1>5, <1>6 DEF TranscriptInv

(* The results kept become the answers of a message that asks for nothing. *)
LEMMA TranscriptToolsDone == TranscriptInv /\ ToolsDone => TranscriptInv'
  <1> SUFFICES ASSUME TranscriptInv, ToolsDone PROVE TranscriptInv'
    OBVIOUS
  <1>1. IInv /\ ChatTypeOK /\ IInv' /\ ChatTypeOK'
    BY ToolsDoneStep DEF TranscriptInv, IInv
  <1> DEFINE m == ToolResults(turn, collected)
  <1>2. /\ place = "tools" /\ place' \in {"model", "prompt"} /\ block > Len(calls)
        /\ messages' = Append(messages, m) /\ executed' = executed
        /\ issued' = issued /\ collected' = collected
        /\ messages \in Seq(Messages) /\ collected \in Seq(ResultBlocks) /\ turn \in Nat
    BY <1>1 DEF ToolsDone, ChatTypeOK, loopVars
  <1>3. /\ m \in Messages /\ m.kind = "results" /\ m.asked = <<>> /\ m.answers = collected
    BY <1>2, ToolResultsFields DEF ToolResults
  <1> HIDE DEF m
  <1>4. ToolUses(messages') = ToolUses(messages)
    <2>1. ToolUses(messages') = ToolUses(messages) \o <<>>
      BY <1>2, <1>3, ToolUsesAppend
    <2>2. ToolUses(messages) \in Seq(Nat)
      BY <1>2, ToolUsesElements
    <2> QED
      BY <2>1, <2>2
  <1>5. Issued' = Issued
    <2>1. Issued = executed
      BY <1>1, <1>2, IssuedFacts
    <2>2. Issued' = executed' \o <<>>
      BY <1>2 DEF Issued, Pending
    <2> QED
      BY <1>1, <1>2, <2>1, <2>2 DEF ChatTypeOK
  <1>6. OrderInv' /\ IdsInv'
    BY <1>1, <1>2, <1>4, <1>5, NothingIssued
  <1>7. AnswersInv'
    <2>1. /\ Len(messages') = Len(messages) + 1 /\ Len(messages) \in Nat
          /\ messages'[Len(messages) + 1] = m
          /\ \A i \in 1 .. Len(messages) : messages'[i] = messages[i]
      BY <1>2, <1>3, Appended
    <2>2. ASSUME NEW i \in 1 .. Len(messages')
          PROVE  AnswersInv!2!(i)'
      <3>1. CASE i \in 1 .. Len(messages)
        BY <1>2, <2>1, <3>1 DEF TranscriptInv, AnswersInv, Genuine
      <3>2. CASE i = Len(messages) + 1
        BY <1>2, <1>3, <2>1, <3>2 DEF TranscriptInv, AnswersInv, Genuine
      <3> QED
        BY <2>1, <3>1, <3>2
    <2> QED
      BY <1>2, <2>2 DEF TranscriptInv, AnswersInv, Genuine
  <1> QED
    BY <1>1, <1>6, <1>7 DEF TranscriptInv

LEMMA TranscriptInductive == TranscriptInv /\ [ChatNext]_chatVars => TranscriptInv'
  <1> SUFFICES ASSUME TranscriptInv, [ChatNext]_chatVars PROVE TranscriptInv'
    OBVIOUS
  <1>1. CASE UNCHANGED chatVars
    <2>1. IInv'
      BY Inductive DEF TranscriptInv
    <2>2. OrderInv' /\ IdsInv' /\ AnswersInv'
      BY <1>1 DEF TranscriptInv, OrderInv, IdsInv, AnswersInv, Genuine, Issued,
                  Pending, chatVars, loopVars
    <2> QED
      BY <2>1, <2>2 DEF TranscriptInv
  <1>2. CASE ChatNext
    BY <1>1, <1>2, TranscriptAsk, TranscriptClear, TranscriptLeave,
       TranscriptAnswer, TranscriptAskForTools, TranscriptCallTool,
       TranscriptToolsDone DEF ChatNext, Turn, Ended
  <1> QED
    BY <1>1, <1>2

(* The invariant of the list that is read back, for any length: the calls  *)
(* it asks for are the last that ran or are about to, ids are new, and the *)
(* results are those of the calls they name (loop.py:120-134).             *)
THEOREM TranscriptInvariance == ChatSpec => []TranscriptInv
  BY TranscriptStarts, TranscriptInductive, PTL DEF ChatSpec

(* The id at place k of the record is that of one message with calls, whose*)
(* results follow it; since no id is used twice, no other result names it. *)
LEMMA RecordFollows == TranscriptInv => RecordIsFaithful
  <1> SUFFICES ASSUME TranscriptInv, place \in {"prompt", "model"}
               PROVE  RecordIsFaithful!2
    BY DEF RecordIsFaithful
  <1> DEFINE order == ToolUses(messages)
             record == ExtractToolCalls(messages)
             before == Len(executed) - Len(order)
  <1>1. ChatTypeOK /\ PairInv /\ OrderInv /\ IdsInv /\ AnswersInv
    BY DEF TranscriptInv, IInv
  <1>2. Issued = executed /\ executed \in Seq(Nat) /\ messages \in Seq(Messages)
    BY <1>1, IssuedFacts DEF ChatTypeOK
  <1>3. /\ order \in Seq(Nat)
        /\ \A k \in 1 .. Len(order) : \E i \in 1 .. Len(messages) :
             \E j \in 1 .. Len(messages[i].asked) : order[k] = messages[i].asked[j]
    BY <1>2, ToolUsesElements
  <1>4. /\ before \in Nat
        /\ \A k \in 1 .. Len(order) : order[k] = executed[before + k]
    BY <1>1, <1>2, <1>3 DEF OrderInv
  <1>5. ASSUME NEW s \in 1 .. Len(executed), NEW t \in 1 .. Len(executed),
               executed[s] = executed[t]
        PROVE  s = t
    <2>1. \A i \in 1 .. t - 1 : executed[i] < executed[t]
      BY <1>1, <1>2 DEF IdsInv
    <2>2. \A i \in 1 .. s - 1 : executed[i] < executed[s]
      BY <1>1, <1>2 DEF IdsInv
    <2>3. executed[s] \in Nat /\ executed[t] \in Nat
      BY <1>2
    <2> QED
      BY <1>5, <2>1, <2>2, <2>3
  <1> HIDE DEF order
  <1>6. ASSUME NEW k \in 1 .. Len(order)
        PROVE  TextsFor(messages, order[k]) = {before + k}
    <2>1. before + k \in 1 .. Len(executed) /\ executed[before + k] = order[k]
      <3>1. Len(order) \in Nat /\ Len(executed) \in Nat
        BY <1>2, <1>3
      <3> QED
        BY <1>4, <3>1
    <2>2. ASSUME NEW i \in 1 .. Len(messages), NEW b \in Range(messages[i].answers),
                 b.id = order[k]
          PROVE  b.text = before + k
      <3>1. messages[i] \in Messages
        BY <1>2, Elements
      <3>2. messages[i].answers \in Seq(ResultBlocks)
        BY <3>1 DEF Messages
      <3>3. PICK j \in 1 .. Len(messages[i].answers) : messages[i].answers[j] = b
        BY <3>2 DEF Range
      <3>4. b.text \in 1 .. Len(executed) /\ executed[b.text] = b.id
        BY <1>1, <3>3 DEF AnswersInv, Genuine
      <3> DEFINE t == b.text
      <3> HIDE DEF t
      <3>5. t \in 1 .. Len(executed) /\ executed[t] = executed[before + k]
        BY <2>1, <2>2, <3>4 DEF t
      <3>6. t = before + k
        BY <1>5, <2>1, <3>5
      <3> QED
        BY <3>6 DEF t
    <2>3. PICK i \in 1 .. Len(messages) :
            \E j \in 1 .. Len(messages[i].asked) : order[k] = messages[i].asked[j]
      BY <1>3
    <2>4. PICK j \in 1 .. Len(messages[i].asked) : order[k] = messages[i].asked[j]
      BY <2>3
    <2>5. messages[i].kind = "calls"
      <3>1. messages[i].kind # "calls" => messages[i].asked = <<>>
        BY <1>1 DEF AnswersInv
      <3> QED
        BY <2>4, <3>1
    <2>6. i + 1 \in 1 .. Len(messages) /\ Matches(messages[i + 1], messages[i])
      BY <1>1, <1>2, <2>5 DEF PairInv
    <2> DEFINE b == messages[i + 1].answers[j]
    <2>7. b \in Range(messages[i + 1].answers) /\ b.id = order[k]
      <3>1. messages[i + 1] \in Messages
        BY <1>2, <2>6, Elements
      <3>2. messages[i + 1].answers \in Seq(ResultBlocks)
        BY <3>1 DEF Messages
      <3>3. j \in 1 .. Len(messages[i + 1].answers) /\ b.id = messages[i].asked[j]
        BY <2>6 DEF Matches
      <3> QED
        BY <2>4, <3>2, <3>3 DEF Range
    <2> HIDE DEF b
    <2>8. b.text = before + k
      BY <2>2, <2>6, <2>7
    <2>9. before + k \in TextsFor(messages, order[k])
      BY <2>6, <2>7, <2>8 DEF TextsFor
    <2>10. ASSUME NEW t \in TextsFor(messages, order[k]) PROVE t = before + k
      BY <2>2, <2>10 DEF TextsFor
    <2> QED
      BY <2>9, <2>10
  <1>7. /\ Len(record) = Len(order)
        /\ \A k \in 1 .. Len(order) :
             record[k] = [id |-> executed[before + k], text |-> before + k]
    <2>1. Len(order) \in Nat
      BY <1>3
    <2>2. ASSUME NEW k \in 1 .. Len(order)
          PROVE  record[k] = [id |-> executed[before + k], text |-> before + k]
      <3>1. TextsFor(messages, order[k]) = {before + k} /\ order[k] = executed[before + k]
        BY <1>4, <1>6
      <3>2. record[k] = [id |-> order[k],
                         text |-> IF TextsFor(messages, order[k]) = {} THEN NoText
                                  ELSE CHOOSE t \in TextsFor(messages, order[k]) : TRUE]
        BY DEF ExtractToolCalls, order
      <3>3. (CHOOSE t \in {before + k} : TRUE) = before + k
        OBVIOUS
      <3> HIDE DEF before, record
      <3> QED
        BY <3>1, <3>2, <3>3
    <2>3. Len(record) = Len(order)
      BY <2>1 DEF ExtractToolCalls, order
    <2> QED
      BY <2>2, <2>3
  <1> QED
    BY <1>7

(* The record that a run is graded by holds the calls the agent made, each *)
(* once, in the order they ran, with what their own execution returned     *)
(* (eval/run_eval.py:172-196).                                             *)
THEOREM RecordsAreFaithful == ChatSpec => []RecordIsFaithful
  BY TranscriptInvariance, RecordFollows, PTL
===============================================================================
