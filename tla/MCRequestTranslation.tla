------------------------ MODULE MCRequestTranslation ------------------------
(* A small instance of RequestTranslation.                                 *)
EXTENDS RequestTranslation

Text(i)      == TextBlock(<<<<"text", "t", i>>>>)
Use(id, i)   == Block("tool_use", id, IF id = "a" THEN <<"plain", "ls">> ELSE <<"long", "mcp">>, <<>>, <<>>)
Answer(id, i, pictures) ==
  Block("tool_result", id, "", <<<<"text", "r" \o id, i>>>>, pictures)
Picture(id, quality) == Block("image", id, "", <<>>, <<<<id, quality>>>>)
Document(i)  == Block("document", "", "", <<<<"named", "document", i>>>>, <<>>)
Thinking     == Block("thinking", "", "", <<>>, <<>>)

\* The turns a client sends: what kind, and where it stands.
UserContent(i) ==
  { <<Text(i)>>, <<TextBlock(<<Blank>>)>>, <<>>, <<Document(i)>>,
    <<Answer("a", i, <<>>)>>,
    <<Answer("b", i, <<>>), Answer("a", i, <<<<"p", "fine">>>>), Text(i)>> }
AssistantContent(i) ==
  { <<Text(i)>>, <<Thinking, Text(i), Use("a", i)>>, <<Use("a", i), Use("b", i)>> }
OtherContent(i) == { <<Text(i)>>, <<Answer("a", i, <<>>)>> }

Says3(i) ==
       [role : {"user"}, content : UserContent(i)]
  \cup [role : {"assistant"}, content : AssistantContent(i)]
  \cup [role : {"other"}, content : OtherContent(i)]

\* Pictures, at the limit of two.
ImageContent(i) ==
  { <<Picture("q", "fine")>>, <<Picture("q", "bad")>>, <<Picture("q", "url"), Text(i)>>,
    <<Answer("a", i, <<<<"p", "fine">>>>)>>, <<Answer("a", i, <<<<"p", "bad">>>>)>>,
    <<Picture("q", "fine"), Answer("a", i, <<<<"p", "fine">>, <<"o", "fine">>>>)>> }

Conversations ==
  {<<>>} \cup {<<a>> : a \in Says3(1)}
  \cup {<<a, b>> : a \in Says3(1), b \in Says3(2)}
  \cup {<<a, b, c>> : a \in Says3(1), b \in Says3(2), c \in Says3(3)}
  \cup {<<a, b, c, d>> : a \in Says3(1), b \in [role : {"assistant"}, content : AssistantContent(2)],
                         c \in Says3(3), d \in [role : {"user"}, content : UserContent(4)]}

PictureConversations ==
  {<<[role |-> "assistant", content |-> <<Use("a", 1)>>],
     [role |-> "user", content |-> x],
     [role |-> "assistant", content |-> <<Use("a", 3)>>],
     [role |-> r, content |-> y]>> :
     x \in ImageContent(2), y \in ImageContent(4), r \in {"user", "other"}}

Tool(name, server, cached, schema) ==
  [name |-> name, server |-> server, cached |-> cached, schema |-> schema]
Typed(type)  == [EmptySchema EXCEPT !.type = type]
Ls           == Tool(<<"plain", "ls">>, FALSE, FALSE, EmptySchema)

Request(messages, tools, model, beta, asked, thinking, limit, system) ==
  [messages |-> messages, tools |-> tools, model |-> model, beta |-> beta, effort |-> asked,
   thinking |-> thinking, max_tokens |-> limit, system |-> system]

Opus  == Id("opus-5", "plain", FALSE, FALSE)
Hello == <<[role |-> "user", content |-> <<Text(1)>>]>>

\* Schemas: strings, enums, an optional parameter, one named like a keyword, a
\* parameter that is an object, alternatives at the root, an allOf, a root that is no object.
Str    == [Typed("string") EXCEPT !.unsupported = {"pattern"}]
Enum(v) == [Typed("string") EXCEPT !.enum = {v}]
Maybe  == [EmptySchema EXCEPT !.anyOf = <<Typed("null"), Str>>]
Choice == [EmptySchema EXCEPT !.anyOf = <<Enum("x"), Enum("y")>>]
Broken == [EmptySchema EXCEPT !.anyOf = <<NotAnObject, Str>>]
Object(properties, required) ==
  [Typed("object") EXCEPT !.properties = properties, !.required = required, !.unsupported = {"default"}]
Inner  == Object([x \in {"format"} |-> Maybe], {"format"})
Outer  == Object([x \in {"default", "path"} |-> IF x = "path" THEN Inner ELSE Str], {"path"})
Either == [Object([x \in {"y"} |-> Choice], {"y"}) EXCEPT !.anyOf = <<Inner, Typed("null")>>]
AllOf  == [Inner EXCEPT !.allOf = <<Outer, NotAnObject>>]
List   == Typed("array")

\* Of several alternatives the first is taken, be it null.
Number  == Typed("integer")
Several == [EmptySchema EXCEPT !.anyOf = <<Str, Number, Typed("null")>>]
NullLed == [EmptySchema EXCEPT !.anyOf = <<Typed("null"), Str, Number>>]
Wide    == Object([x \in {"limit", "page"} |-> IF x = "limit" THEN Several ELSE NullLed], {})

MCSchemas == {EmptySchema, Typed("null"), Str, Enum("x"), Enum("y"), Maybe, Choice, Broken, Inner, Outer,
              Either, AllOf, List, Number, Several, NullLed, Wide}

ToolLists ==
  LET some == {Tool(<<"plain", "ls">>, FALSE, c, s) : c \in BOOLEAN, s \in {EmptySchema, Outer}}
                \cup {Tool(<<"long", "mcp">>, FALSE, TRUE, s) : s \in {Maybe, List}}
                \cup {Tool(<<"plain", "search">>, TRUE, c, EmptySchema) : c \in BOOLEAN}
  IN {<<>>} \cup {<<a>> : a \in some} \cup {<<a, b>> : a \in some, b \in some}
     \cup {<<Tool(<<"plain", "ls">>, FALSE, FALSE, s)>> : s \in MCSchemas}
     \cup {<<a, Ls, b>> : a \in some, b \in some}
     \cup {<<Ls, Ls, Ls, Ls>>}

Ids == {Id(m, w, t, s) : m \in {Rows[i].model : i \in DOMAIN Rows} \cup {"opus-3"},
                         w \in {"plain", "dashed", "dotted"}, t \in BOOLEAN, s \in BOOLEAN}

MCRequests ==
       {Request(c, t, Opus, FALSE, NoEffort, FALSE, 1, s) :
          c \in Conversations, t \in {<<>>, <<Ls>>}, s \in {FALSE}}
  \cup {Request(c, <<Ls>>, Opus, FALSE, NoEffort, FALSE, 1, TRUE) : c \in PictureConversations}
  \cup {Request(<<[role |-> "assistant", content |-> <<Use("b", 1)>>]>>, t, Opus, FALSE, NoEffort, FALSE, 1, TRUE) :
          t \in ToolLists}
  \cup {Request(Hello, <<>>, [id EXCEPT !.dated = d], b, e, k, 1, FALSE) :
          id \in Ids, d \in BOOLEAN, b \in BOOLEAN, e \in {NoEffort, "xhigh", "low", "huge"}, k \in BOOLEAN}
  \cup {Request(<<Hello[1], Hello[1], Hello[1], Hello[1], Hello[1]>>, <<>>, Opus, FALSE, NoEffort, FALSE, 1, FALSE),
        Request(Hello, <<>>, Opus, FALSE, NoEffort, FALSE, 0, FALSE)}
=============================================================================
