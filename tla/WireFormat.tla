----------------------------- MODULE WireFormat -----------------------------
(* The conversation of RefundAgent as the provider clients send it:        *)
(* to_anthropic_messages and to_gemini_contents, which differ only in the  *)
(* ids of calls and in the name of the model's role.                       *)
(*                                                                         *)
(* A part is [kind, id, call]: a text, a tool use or a tool result, the id *)
(* it carries and, as history, the call it stands for.  Which responses    *)
(* had no text (blank) and which calls the provider gave an id (named) is  *)
(* left to the property.                                                   *)
EXTENDS RefundAgent

CONSTANT NoId

TextPart == [kind |-> "text", id |-> NoId, call |-> 0]
Part(kind, id, call) == [kind |-> kind, id |-> id, call |-> call]
Item(role, parts) == [role |-> role, parts |-> parts]

(* What a call is called on the wire: Anthropic's clients fall back on the *)
(* id ProofTrail assigned, Gemini's leave the id out.                      *)
AnthropicIds(named) ==
  [call \in DOMAIN answers |-> IF call \in named THEN <<"provider", call>> ELSE <<"own", call>>]
GeminiIds(named) ==
  [call \in DOMAIN answers |-> IF call \in named THEN <<"provider", call>> ELSE NoId]

(* Consecutive tool results wait in `pending` for the next other message.  *)
flush_results(s) ==
  IF s.pending = <<>> THEN s
  ELSE [contents |-> Append(s.contents, Item("user", s.pending)), pending |-> <<>>]

Say(s, role, parts) ==
  IF parts = <<>> THEN flush_results(s)
  ELSE [flush_results(s) EXCEPT !.contents = Append(@, Item(role, parts))]

(* Mutant: every tool result is a message of its own. *)
Convert_Ungrouped(s, message, blank, ids) ==
  CASE message.role = "user" -> Say(s, "user", <<TextPart>>)
    [] message.role = "assistant" ->
         Say(s, "model", (IF blank THEN <<>> ELSE <<TextPart>>)
               \o [k \in DOMAIN message.calls |-> Part("call", ids[message.calls[k]], message.calls[k])])
    [] message.role = "tool" ->
         Say(s, "user", <<Part("result", ids[Head(message.calls)], Head(message.calls))>>)

(* One message of the transcript; provider_content, if the response had    *)
(* any, holds the same text and calls.                                     *)
Convert(s, message, blank, ids) ==
  CASE message.role = "user" -> Say(s, "user", <<TextPart>>)
    [] message.role = "assistant" ->
         Say(s, "model", (IF blank THEN <<>> ELSE <<TextPart>>)
               \o [k \in DOMAIN message.calls |-> Part("call", ids[message.calls[k]], message.calls[k])])
    [] message.role = "tool" ->
         [s EXCEPT !.pending =
            Append(@, Part("result", ids[Head(message.calls)], Head(message.calls)))]

to_contents(blank, ids) ==
  flush_results(FoldLeft(LAMBDA s, m : Convert(s, messages[m], m \in blank, ids),
                         [contents |-> <<>>, pending |-> <<>>],
                         [m \in DOMAIN messages |-> m])).contents
-----------------------------------------------------------------------------
(* Properties *)

Uses(item) == {k \in DOMAIN item.parts : item.parts[k].kind = "call"}
Results(item) == {k \in DOMAIN item.parts : item.parts[k].kind = "result"}

(* One result per tool use, in the order and under the ids of the uses,    *)
(* which follow the text of the item if it has one.                        *)
Replies(item, reply) ==
  /\ reply.role = "user"
  /\ \E texts \in 0..1 :
       /\ Results(reply) = {k - texts : k \in Uses(item)}
       /\ \A k \in Uses(item) : reply.parts[k - texts] = [item.parts[k] EXCEPT !.kind = "result"]

Acceptable(contents) ==
  /\ contents[1].role = "user" /\ contents[Len(contents)].role = "user"
  /\ \A p \in DOMAIN contents :
       /\ contents[p].role = "model" => Replies(contents[p], contents[p + 1])
       /\ Results(contents[p]) # {} => /\ p > 1 /\ contents[p - 1].role = "model"
                                      /\ Results(contents[p]) = DOMAIN contents[p].parts

(* "Consecutive tool messages are merged into one user message holding     *)
(* every tool_result block, as the API requires" (anthropic_client.py:98): *)
(* in what is sent, each item of the model is followed by one item of the  *)
(* user that answers exactly its tool uses, in their order and under their *)
(* ids, whichever tools failed, whichever responses were blank and whether *)
(* the provider named none, one or all of the calls.                       *)
SentConversationIsAcceptable ==
  phase = "model" =>
    \A blank \in SUBSET MessagesOf("assistant"), named \in {{}, {1}, DOMAIN answers} :
      /\ Acceptable(to_contents(blank, AnthropicIds(named)))
      /\ Acceptable(to_contents(blank, GeminiIds(named)))
=============================================================================
