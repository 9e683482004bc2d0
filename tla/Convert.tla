------------------------------- MODULE Convert -------------------------------
(***************************************************************************)
(* The three conversions of a request to the body of the inference         *)
(* service: messagesToUpstream, oaiToUpstream and respToUpstream with what *)
(* they share.                                                             *)
(*                                                                         *)
(* A content is a sequence of items, each a text or an image, so is the    *)
(* output of a tool; joining texts to one string is abstracted.  An        *)
(* upstream message has the flat content and the structured parts, which   *)
(* carry the cache markers.                                                *)
(***************************************************************************)
EXTENDS Integers, SequencesExt

CONSTANTS
  Images,   \* the items that are images
  Inline,   \* the images with data that can be decoded, the others are URLs
  Omitted,  \* the text "[image omitted]"
  None      \* no call, no choice

\* SelectSeq, by an operator whose definition the proofs can expand.
Those(seq, Test(_)) ==
  FlattenSeq([i \in DOMAIN seq |-> IF Test(seq[i]) THEN <<seq[i]>> ELSE <<>>])

HasImage(content) == \E i \in DOMAIN content : content[i] \in Images
Part(content, cache) == [of |-> content, cache |-> cache]
Message(role, content, parts, calls, result) ==
  [role |-> role, content |-> content, parts |-> parts, calls |-> calls, result |-> result]
ToolMessage(call, output) == Message("tool", output, <<>>, <<>>, call)
TextsOf(content) == Those(content, LAMBDA x : x \notin Images)

----------------------------------------------------------------------------
(* The cache marker.                                                       *)

Marked(msgs) ==
  \E i \in DOMAIN msgs : \E j \in DOMAIN msgs[i].parts : msgs[i].parts[j].cache

EnsureCacheMarker(msgs) ==
  LET i == SelectLastInSeq(msgs, LAMBDA m : m.role # "tool" /\ m.parts # <<>>) IN
  IF Marked(msgs) \/ i = 0 THEN msgs
  ELSE [msgs EXCEPT ![i].parts[Len(msgs[i].parts)].cache = TRUE]

----------------------------------------------------------------------------
(* Anthropic: a message is [role, blocks], a block [type, of, cache]; a     *)
(* tool_result is of a [call, output].                                     *)

IsContent(b) == b.type \in {"text", "image"}
IsResult(b) == b.type = "tool_result"

Flat(blocks) == [i \in DOMAIN blocks |-> blocks[i].of]
Parts(blocks) == [i \in DOMAIN blocks |-> Part(<<blocks[i].of>>, blocks[i].cache)]

\* Mutant: an image leaves no trace in a result.
OnlyText(output) == TextsOf(output)
\* The service takes text only: an inline image is named, another is left out.
ToolResultText(output) ==
  FlattenSeq([i \in DOMAIN output |->
    CASE output[i] \notin Images -> <<output[i]>>
      [] output[i] \in Inline -> <<Omitted>>
      [] OTHER -> <<>>])
ResultMessage(b) == ToolMessage(b.of.call, ToolResultText(b.of.output))

\* Mutant: the blocks stay in the order of the client.
UserInOrder(blocks) ==
  LET content == Those(blocks, IsContent)
      results == Those(blocks, IsResult)
      text == IF content = <<>> THEN <<>>
              ELSE <<Message("user", Flat(content), Parts(content), <<>>, None)>>
      tools == [i \in DOMAIN results |-> ResultMessage(results[i])]
  IN IF blocks # <<>> /\ IsResult(Head(blocks)) THEN tools \o text ELSE text \o tools

\* The results first, whatever order the blocks have.
UserMessages(blocks) ==
  LET results == Those(blocks, IsResult)
      normal == Those(blocks, LAMBDA b : ~IsResult(b))
      content == Those(normal, IsContent)
  IN [i \in DOMAIN results |-> ResultMessage(results[i])]
     \o (IF normal = <<>> /\ results # <<>> THEN <<>>
         ELSE <<Message("user", Flat(content), Parts(content), <<>>, None)>>)

AssistantMessage(blocks) ==
  LET texts == Those(blocks, LAMBDA b : b.type = "text")
      calls == Those(blocks, LAMBDA b : b.type = "tool_use")
  IN Message("assistant", Flat(texts), Parts(texts), Flat(calls), None)

MessagesToUpstream(msgs) ==
  FlattenSeq([i \in DOMAIN msgs |->
    IF msgs[i].role = "user" THEN UserMessages(msgs[i].blocks)
    ELSE <<AssistantMessage(msgs[i].blocks)>>])

\* A choice is None or [type, name, nested]: whether the name of a function is in
\* an object of its own.
Choice(type, name, nested) == [type |-> type, name |-> name, nested |-> nested]
ToolChoiceToUpstream(choice) ==
  CASE choice.type = "any" -> Choice("required", None, FALSE)
    [] choice.type = "tool" -> Choice("function", choice.name, TRUE)
    [] choice.type \in {"auto", "none"} -> choice
    [] OTHER -> None

FromMessages(req) ==
  [system |-> req.system,
   messages |-> EnsureCacheMarker(MessagesToUpstream(req.messages)),
   tools |-> req.tools,
   choice |-> IF req.choice = None THEN None ELSE ToolChoiceToUpstream(req.choice)]

----------------------------------------------------------------------------
(* OpenAI: a message is [role, content, string, calls, result]; its content *)
(* is one string or a list of parts.                                       *)

OaiMessage(m) ==
  Message(m.role, m.content,
          IF m.string /\ m.content # <<>> /\ m.role # "tool"
            THEN <<Part(m.content, FALSE)>> ELSE <<>>,
          m.calls, m.result)

IsSystem(m) == m.role \in {"system", "developer"}

\* A system prompt that is a list of parts is left out.
FromChat(req) ==
  LET systems == Those(req.messages, LAMBDA m : IsSystem(m) /\ m.string)
      others == Those(req.messages, LAMBDA m : ~IsSystem(m))
  IN [system |-> FlattenSeq([i \in DOMAIN systems |-> systems[i].content]),
      messages |-> EnsureCacheMarker([i \in DOMAIN others |-> OaiMessage(others[i])]),
      tools |-> req.tools,
      choice |-> req.choice]

----------------------------------------------------------------------------
(* Responses: the input is one string or items [type, role, content, id].  *)

\* The output of a call must be one string, which is all the type of an item takes.
Readable(input) ==
  \A i \in DOMAIN input : input[i].type = "function_call_output" => ~HasImage(input[i].content)

RespMessage(item) ==
  LET texts == TextsOf(item.content) IN
  IF item.role = "user"
    THEN Message("user", item.content,
                 [i \in DOMAIN item.content |-> Part(<<item.content[i]>>, FALSE)], <<>>, None)
    ELSE Message(item.role, IF item.role = "assistant" THEN texts ELSE item.content,
                 IF texts = <<>> THEN <<>> ELSE <<Part(texts, FALSE)>>, <<>>, None)

IsCompact(item) == item.type = "" /\ item.role # None /\ item.content # <<>>

\* The calls collected for one assistant message, which the next item that is not
\* a call ends.
Flush(s) ==
  IF s.calls = <<>> THEN s
  ELSE [s EXCEPT !.msgs = Append(@, Message("assistant", <<>>, <<>>, s.calls, None)),
                 !.calls = <<>>]
\* Mutant: the results go before the calls collected so far.
CollectOn(s) == s
FlushCalls(s) == Flush(s)

AddMessage(s, item) ==
  IF IsSystem(item) THEN [s EXCEPT !.system = @ \o TextsOf(item.content)]
  ELSE [s EXCEPT !.msgs = Append(@, RespMessage(item))]

AddItem(s, item) ==
  CASE item.type = "message" \/ IsCompact(item) -> AddMessage(Flush(s), item)
    [] item.type = "function_call" -> [s EXCEPT !.calls = Append(@, item.id)]
    [] item.type = "function_call_output" ->
         [FlushCalls(s) EXCEPT !.msgs = Append(@, ToolMessage(item.id, item.content))]
    [] item.type \in {"reasoning", "item_reference"} -> s
    [] OTHER -> Flush(s)

RespToUpstream(instructions, input) ==
  Flush(FoldLeft(AddItem, [system |-> instructions, msgs |-> <<>>, calls |-> <<>>], input))

FromResponses(req) ==
  LET r == IF req.string
             THEN [system |-> req.instructions,
                   msgs |-> <<Message("user", req.input, <<Part(req.input, FALSE)>>,
                                      <<>>, None)>>]
             ELSE RespToUpstream(req.instructions, req.input)
  IN [system |-> r.system,
      messages |-> EnsureCacheMarker(r.msgs),
      tools |-> Those(req.tools, LAMBDA t : t.type = "function"),
      choice |-> req.choice]

----------------------------------------------------------------------------
(* The body: the system prompt is its first message as well.               *)

\* Mutant: only the field of its own.
KeepMessages(system, msgs) == msgs
WithSystem(system, msgs) ==
  (IF system = <<>> THEN <<>> ELSE <<Message("system", system, <<>>, <<>>, None)>>) \o msgs

RemoteChatAskBody(r, key, window, session) ==
  [model |-> key, window |-> window, session |-> session,
   messages |-> WithSystem(r.system, r.messages),
   tools |-> r.tools, choice |-> r.choice]

=============================================================================
