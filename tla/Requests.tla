------------------------------ MODULE Requests ------------------------------
(***************************************************************************)
(* From the start of the gateway to the body of an upstream request: run   *)
(* builds the catalogue or gives up, the handlers of the three protocols   *)
(* resolve the model and convert the same conversation, GET /v1/models     *)
(* lists the catalogue.  What becomes of the body is Upstream's subject.   *)
(*                                                                         *)
(* The conversation of a client is abstract: turns of the user, with the   *)
(* results of calls and other content, and of the assistant, with content  *)
(* and calls.  Each protocol writes it down in its own way.                *)
(***************************************************************************)
EXTENDS ModelCatalog

CONSTANTS
  Items,      \* the texts and the images a client sends
  Images,     \* the items that are images
  Inline,     \* the images with data that can be decoded, the others are URLs
  Omitted,    \* the text "[image omitted]"
  CallIds,    \* the calls of an assistant
  ToolNames,  \* the functions it may call
  Scenarios   \* each the ways the gateway is started and the requests it is sent

VARIABLES
  phase,      \* of the gateway: "start", "serving" or "failed"
  request,    \* what the client sends in any of the protocols
  sessions,   \* the identifiers that have a session, in the order of the sessions
  reply       \* the last answer: the status, and the body sent upstream or the list

INSTANCE Convert

vars == <<config, catalog, phase, request, sessions, reply>>

\* A turn of the user answers calls of the turn before; the assistant has no images.
Results == [call : CallIds, output : Seq(Items)]
Turns ==
  [role : {"user", "assistant"}, items : Seq(Items), results : Seq(Results),
   calls : Seq(CallIds), thinks : BOOLEAN]
CallsOf(results) == {r.call : r \in ToSet(results)}
IsConversation(turns) ==
  /\ turns \in Seq(Turns)
  /\ turns # <<>> => turns[1].role = "user"
  /\ \A i \in DOMAIN turns :
       /\ turns[i].role = "user" => turns[i].calls = <<>>
       /\ turns[i].role = "assistant" => turns[i].results = <<>> /\ ~HasImage(turns[i].items)
       /\ turns[i].results # <<>> =>
            i > 1 /\ CallsOf(turns[i].results) \subseteq ToSet(turns[i-1].calls)

IsRequest(r) ==
  /\ r.model # None => IsName(r.model.name)
  /\ IsConversation(r.turns)
  /\ r.system \in Seq(Items \ Images)
  /\ r.tools \in Seq(ToolNames)
  /\ {r.mixed, r.marked, r.authorized} \subseteq BOOLEAN
  /\ r.choice \in {None, "one", "some", "auto"}
  /\ r.choice = "one" => r.tools # <<>>

ASSUME ScenariosAssumption ==
  \A s \in Scenarios :
    /\ \A c \in s.configs : IsConfig(c)
    /\ \A r \in s.requests : IsRequest(r)

ASSUME ImagesAssumption == Inline \subseteq Images /\ Omitted \in Items \ Images

ASSUME NoneAssumption ==
  /\ None \notin Items \cup CallIds \cup ToolNames \cup {"user", "assistant"}
  /\ \A t \in {"tool", "any", "auto"}, n \in ToolNames \cup {None} :
       Choice(t, n, FALSE) # None

----------------------------------------------------------------------------
(* The client: turns [role, items, results, calls, thinks].                *)

Block(type, of) == [type |-> type, of |-> of, cache |-> FALSE]
Blocks(type, ofs) == [i \in DOMAIN ofs |-> Block(type, ofs[i])]
Content(items) ==
  [i \in DOMAIN items |-> Block(IF items[i] \in Images THEN "image" ELSE "text", items[i])]

\* Clients of the Anthropic protocol may put text before the results of a turn.
AnthropicTurn(t) ==
  LET results == Blocks("tool_result", t.results) IN
  [role |-> t.role,
   blocks |->
     IF t.role = "user"
       THEN IF request.mixed THEN Content(t.items) \o results ELSE results \o Content(t.items)
       ELSE (IF t.thinks THEN <<Block("thinking", None)>> ELSE <<>>)
            \o Content(t.items) \o Blocks("tool_use", t.calls)]

\* A marker of the client is on the last block of its last message.
AnthropicMessages ==
  LET msgs == [i \in DOMAIN request.turns |-> AnthropicTurn(request.turns[i])]
      n == Len(msgs)
  IN IF request.marked /\ n > 0 /\ msgs[n].blocks # <<>>
       THEN [msgs EXCEPT ![n].blocks[Len(msgs[n].blocks)].cache = TRUE] ELSE msgs

OaiText(role, items, calls, result) ==
  [role |-> role, content |-> items, string |-> ~HasImage(items), calls |-> calls,
   result |-> result]

ChatTurn(t) ==
  [i \in DOMAIN t.results |-> OaiText("tool", t.results[i].output, <<>>, t.results[i].call)]
  \o (IF t.items = <<>> /\ t.calls = <<>> THEN <<>>
      ELSE <<OaiText(t.role, t.items, t.calls, None)>>)

ChatMessages ==
  [i \in DOMAIN request.system |-> OaiText("system", <<request.system[i]>>, <<>>, None)]
  \o FlattenSeq([i \in DOMAIN request.turns |-> ChatTurn(request.turns[i])])

RespItem(type, role, content, id) ==
  [type |-> type, role |-> role, content |-> content, id |-> id]
RespItems(type, ids) == [i \in DOMAIN ids |-> RespItem(type, None, <<>>, ids[i])]
RespOutputs(results) ==
  [i \in DOMAIN results |->
     RespItem("function_call_output", None, results[i].output, results[i].call)]

\* A turn of the assistant may end in text, as upstream's may.
RespTurn(t) ==
  LET text == IF t.items = <<>> THEN <<>>
              ELSE <<RespItem(IF request.mixed THEN "" ELSE "message", t.role, t.items, None)>>
      calls == RespItems("function_call", t.calls)
  IN (IF t.thinks THEN <<RespItem("reasoning", None, <<>>, None)>> ELSE <<>>)
     \o RespOutputs(t.results)
     \o (IF request.mixed THEN calls \o text ELSE text \o calls)

RespInput == FlattenSeq([i \in DOMAIN request.turns |-> RespTurn(request.turns[i])])

\* One user's text may be the input itself.
OneText ==
  /\ Len(request.turns) = 1
  /\ ~request.mixed /\ request.turns[1].results = <<>> /\ ~HasImage(request.turns[1].items)

AnthropicChoice ==
  CASE request.choice = "one" -> Choice("tool", Head(request.tools), FALSE)
    [] request.choice = "some" -> Choice("any", None, FALSE)
    [] request.choice = "auto" -> Choice("auto", None, FALSE)
    [] OTHER -> None

\* The Responses API names a function beside the type.
OaiChoice(nested) ==
  CASE request.choice = "one" -> Choice("function", Head(request.tools), nested)
    [] request.choice = "some" -> Choice("required", None, FALSE)
    [] request.choice = "auto" -> Choice("auto", None, FALSE)
    [] OTHER -> None

Functions == [i \in DOMAIN request.tools |-> [type |-> "function", name |-> request.tools[i]]]
Hosted == [type |-> "hosted", name |-> None]

AnthropicRequest ==
  [system |-> request.system, messages |-> AnthropicMessages, tools |-> Functions,
   choice |-> AnthropicChoice]
ChatRequest ==
  [messages |-> ChatMessages, tools |-> Functions, choice |-> OaiChoice(TRUE)]
RespRequest ==
  [instructions |-> request.system, string |-> OneText,
   input |-> IF OneText THEN request.turns[1].items ELSE RespInput,
   tools |-> Append(Functions, Hosted), choice |-> OaiChoice(FALSE)]

----------------------------------------------------------------------------
(* The gateway.                                                            *)

NoReply == [protocol |-> None, status |-> 0, body |-> None]
Reply(protocol, status, body) == [protocol |-> protocol, status |-> status, body |-> body]

Start ==
  /\ phase = "start"
  /\ PreferencesValid
  /\ phase' = "serving" /\ catalog' = LoadCatalog
  /\ UNCHANGED <<config, request, sessions, reply>>

StartFails ==
  /\ phase = "start"
  /\ ~PreferencesValid
  /\ phase' = "failed"
  /\ UNCHANGED <<config, catalog, request, sessions, reply>>

\* sessionFor: one session for an identifier, whatever the client.
WithSession(id) == IF id \in ToSet(sessions) THEN sessions ELSE Append(sessions, id)

Unauthorized(protocol) ==
  /\ ~request.authorized
  /\ reply' = Reply(protocol, 401, None) /\ UNCHANGED sessions

Refused(protocol) ==
  /\ request.authorized
  /\ \/ request.model = None /\ reply' = Reply(protocol, 400, None)
     \/ /\ request.model # None /\ Resolve(request.model) = {}
        /\ reply' = Reply(protocol, 404, None)
  /\ UNCHANGED sessions

\* A body that cannot be converted is found out only behind the lookup of the model.
Unreadable(protocol) ==
  /\ request.authorized /\ request.model # None /\ Resolve(request.model) # {}
  /\ reply' = Reply(protocol, 400, None) /\ UNCHANGED sessions

Accept(protocol, converted) ==
  /\ request.authorized /\ request.model # None
  /\ \E m \in Resolve(request.model) :
       /\ sessions' = WithSession(request.model)
       /\ reply' = Reply(protocol, 200,
            RemoteChatAskBody(converted, m.key, ContextWindow(m),
                              SelectInSeq(sessions', LAMBDA id : id = request.model)))

Handle(protocol, readable, converted) ==
  /\ phase = "serving"
  /\ \/ Unauthorized(protocol) \/ Refused(protocol)
     \/ readable /\ Accept(protocol, converted)
     \/ ~readable /\ Unreadable(protocol)
  /\ UNCHANGED <<config, catalog, phase, request>>

HandleMessages == Handle("messages", TRUE, FromMessages(AnthropicRequest))
HandleChatCompletions == Handle("chat", TRUE, FromChat(ChatRequest))
HandleResponses ==
  Handle("responses", OneText \/ Readable(RespInput), FromResponses(RespRequest))

HandleModels ==
  /\ phase = "serving"
  /\ \/ Unauthorized("models")
     \/ /\ request.authorized
        /\ reply' = Reply("models", 200, {Listed(m) : m \in Models})
        /\ UNCHANGED sessions
  /\ UNCHANGED <<config, catalog, phase, request>>

Init ==
  /\ \E s \in Scenarios : config \in s.configs /\ request \in s.requests
  /\ catalog = [k \in {} |-> None]
  /\ phase = "start" /\ sessions = <<>> /\ reply = NoReply

Next ==
  \/ Start \/ StartFails
  \/ HandleMessages \/ HandleChatCompletions \/ HandleResponses \/ HandleModels

Spec == Init /\ [][Next]_vars

----------------------------------------------------------------------------
(* Correctness.                                                            *)

Sent == reply.status = 200 /\ reply.protocol # "models"
Shared(m) == m.name # None /\ ~Names(m)

\* An identifier of the list gives a client exactly the model it stands for, with the
\* window the list says, or it is one of those the two rules of proxy.go:933 and 956
\* treat differently.  Under lockdown the display name is listed even when several
\* models have it or it is another's key; then it means no model, or that other one
\* by its key, but never one that merely shares the name.  (Nothing is said, under
\* lockdown, of names that end in "[1m]", and otherwise of keys that do and of what the
\* user maps to another model.)
ListedIsServed ==
  reply.protocol = "models" /\ reply.status = 200 =>
    \A l \in reply.body :
      LET found == {[key |-> x.key, window |-> ContextWindow(x)] : x \in Resolve(l.id)}
          mapped == l.id.name \in DOMAIN config.mapping \/ Plain("*") \in DOMAIN config.mapping
      IN \/ IF config.lockdown THEN l.id.name.oneM
            ELSE mapped \/ (l.id.name = l.key /\ l.key.oneM)
         \/ config.lockdown /\ Shared(catalog[l.key]) /\ \A x \in found : x.key = l.id.name
         \/ ~(config.lockdown /\ Shared(catalog[l.key]))
              /\ found = {[key |-> l.key, window |-> l.window]}


\* Under lockdown nothing is sent to a model but one the account's file enables and
\* the client names by key or display name: "Unknown model names return 404; there is
\* no silent fallback" (README.md:30).
NoFallback ==
  config.lockdown /\ Sent =>
    \E m \in ToSet(config.file) :
      /\ m.enable /\ m.key = reply.body.model
      /\ Plain(request.model.name.base) \in {m.key, m.name}

\* A client that does not ask for one million tokens is given the window the user
\* chose for the model; "a missing or invalid preference falls back to the catalogue
\* default, never to the largest advertised window" (LOCAL_CHANGES.md:11).
WindowChosen ==
  Sent /\ ~request.model.name.oneM /\ reply.body.model \in DOMAIN catalog =>
    LET m == catalog[reply.body.model]
        w == reply.body.window
        defaults == {t.n : t \in {u \in m.tiers : u.default /\ u.n > 0}}
    IN IF \E k \in DOMAIN config.prefs : k = m.key /\ Supports(m, config.prefs[k])
         THEN w = config.prefs[m.key]
         ELSE defaults # {} => w \in defaults /\ \A d \in defaults : w <= d

\* Messages of one role in a row are one turn, and empty ones are none.  The content
\* of a tool message is the output of its call.
AsTurn(m) ==
  [role |-> m.role, calls |-> m.calls,
   items |-> IF m.result = None THEN m.content ELSE <<>>,
   results |-> IF m.result = None THEN <<>>
               ELSE <<[call |-> m.result, output |-> m.content]>>]
Together(t, u) ==
  [role |-> t.role, items |-> t.items \o u.items, calls |-> t.calls \o u.calls,
   results |-> t.results \o u.results]
Put(ts, t) ==
  LET n == Len(ts) IN
  IF t.items = <<>> /\ t.calls = <<>> /\ t.results = <<>> THEN ts
  ELSE IF n = 0 \/ ts[n].role # t.role THEN Append(ts, t)
  ELSE [ts EXCEPT ![n] = Together(@, t)]
Group(ts, m) == Put(ts, AsTurn(m))
Grouped(msgs) == FoldLeft(Group, <<>>, msgs)

\* What the client said, in the same form.
Outcome(r) == ToolMessage(r.call, r.output)
Spoken(t) ==
  [i \in DOMAIN t.results |-> Outcome(t.results[i])]
  \o <<Message(t.role, t.items, <<>>, t.calls, None)>>
Said(turns) ==
  Grouped(<<Message("system", request.system, <<>>, <<>>, None)>>
          \o FlattenSeq([i \in DOMAIN turns |-> Spoken(turns[i])]))

\* A turn whose results have been put into words: of an image with its data it is said
\* that there was one, a URL is passed over.
Named(item) == IF item \in Inline THEN Omitted ELSE item
InWords(output) == TextsOf([i \in DOMAIN output |-> Named(output[i])])
WithWords(t) ==
  [t EXCEPT !.results = [i \in DOMAIN t.results |->
     [call |-> t.results[i].call, output |-> InWords(t.results[i].output)]]]
\* Anthropic clients may put images into results, which the service is not sent.
Heard ==
  IF reply.protocol = "messages"
    THEN [i \in DOMAIN request.turns |-> WithWords(request.turns[i])] ELSE request.turns

\* The service is sent the conversation the client had, in whichever protocol: the
\* same system prompt, texts and images, calls and results with their outputs in the
\* same order, nothing lost, doubled or given to another role, with the same tools and
\* the same choice.  (Except: images in the results of an Anthropic client, of which
\* convert.go:302-325 leaves a note or nothing; what the assistant thought; and the
\* Responses API's choice of one function, which keeps the form of that API.)
ConversationKept ==
  Sent =>
    /\ Grouped(reply.body.messages) = Said(Heard)
    /\ reply.body.tools = Functions
    /\ \/ reply.protocol = "responses" /\ request.choice = "one"
       \/ reply.body.choice = OaiChoice(TRUE)

AnswersCall(msgs, j, i) ==
  /\ msgs[i].result \in ToSet(msgs[j].calls)
  /\ \A k \in j + 1 .. i - 1 : msgs[k].role = "tool"

\* "upstream requires the tool messages to directly follow the assistant message that
\* requested them" (convert.go:186): between the calls and their results there is
\* nothing, whatever order the client's turns have.  (Except: a client of the
\* Responses API that puts text between them.)
ResultsFollowCalls ==
  Sent /\ ~(reply.protocol = "responses" /\ request.mixed) =>
    LET msgs == reply.body.messages IN
    \A i \in DOMAIN msgs :
      msgs[i].role = "tool" => \E j \in 1 .. i - 1 : AnswersCall(msgs, j, i)

=============================================================================
