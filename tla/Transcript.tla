------------------------------ MODULE Transcript ------------------------------
(***************************************************************************)
(* What the evaluation reads back from the message list of a turn          *)
(* (eval/run_eval.py, _serialize_messages() and _extract_tool_calls()).    *)
(***************************************************************************)
EXTENDS AgentLoop, SequencesExt

(* Ids of the tool_use blocks, in the order of the list.                   *)
ToolUses(ms) ==
  FlattenSeq([i \in 1 .. Len(ms) |-> ms[i].asked])

(* The texts of the tool_result blocks that name id.                       *)
TextsFor(ms, id) ==
  {r.text : r \in UNION {{b \in Range(ms[i].answers) : b.id = id} :
                           i \in 1 .. Len(ms)}}

NoText == 0

ExtractToolCalls(ms) ==
  LET order == ToolUses(ms)
      text(id) == IF TextsFor(ms, id) = {} THEN NoText
                  ELSE CHOOSE t \in TextsFor(ms, id) : TRUE
  IN  [k \in 1 .. Len(order) |-> [id |-> order[k], text |-> text(order[k])]]

(* The record a run is graded by (run_eval.py:172-196) holds the calls the *)
(* agent made since the list was started, each once, in the order they ran *)
(* and with what its own execution returned; also when a turn ended at the *)
(* cap.                                                                    *)
RecordIsFaithful ==
  place \in {"prompt", "model"} =>
    LET record == ExtractToolCalls(messages)
        before == Len(executed) - Len(record)
    IN  \A k \in 1 .. Len(record) :
          record[k] = [id |-> executed[before + k], text |-> before + k]

(* Why.  The calls the list asks for are the last that were executed or are *)
(* about to be, ...                                                        *)
Pending == IF place = "tools" THEN SubSeq(calls, block, Len(calls)) ELSE <<>>
Issued == executed \o Pending

OrderInv ==
  place # "ended" =>
    LET before == Len(Issued) - Len(ToolUses(messages))
    IN  /\ before \geq 0
        /\ \A k \in 1 .. Len(ToolUses(messages)) :
             ToolUses(messages)[k] = Issued[before + k]

(* ... no id is given out twice, ...                                       *)
IdsInv ==
  place # "ended" =>
    \A j \in 1 .. Len(Issued) :
      Issued[j] \leq issued /\ \A i \in 1 .. j - 1 : Issued[i] < Issued[j]

(* ... and every result kept came from the execution of the call it names. *)
Genuine(b) == b.text \in 1 .. Len(executed) /\ executed[b.text] = b.id
AnswersInv ==
  /\ \A k \in 1 .. Len(collected) : Genuine(collected[k])
  /\ \A i \in 1 .. Len(messages) :
       /\ \A k \in 1 .. Len(messages[i].answers) : Genuine(messages[i].answers[k])
       /\ messages[i].kind # "calls" => messages[i].asked = <<>>

TranscriptInv == IInv /\ OrderInv /\ IdsInv /\ AnswersInv

(* agent/loop.py:100-105: the model sees earlier turns "because they're    *)
(* still sitting in messages", the question "plus every assistant/         *)
(* tool_result turn generated along the way" (14-15): an earlier question  *)
(* that was answered is followed by what the assistant said.               *)
EarlierAnswersAreSeen ==
  place = "model" =>
    \A i \in 1 .. Len(messages) - 1 :
      messages[i].kind = "question" /\ messages[i].turn \in answered
        => messages[i + 1].kind # "question"
===============================================================================
