-------------------------------- MODULE MCCdr --------------------------------
(* Messages for Cdr: a member of every type and shape, alone and between    *)
(* others, nested messages of one or two members, with fields that fit, are *)
(* missing, are short or do not fit.                                        *)
EXTENDS Cdr

Member(type, size, shape, sub) ==
    [type |-> type, size |-> size, shape |-> shape, sub |-> sub]

Byte == Member("basic", 1, "one", <<>>)
Double == Member("basic", 8, "one", <<>>)
Text == Member("string", 1, "one", <<>>)
Dummy == Member("dummy", 1, "one", <<>>)

Value(n) == [json |-> "value", n |-> n]
List(elements) == [json |-> "list", elements |-> elements]
Object(fields) == [json |-> "object", fields |-> fields]
BadField == [json |-> "bad"]

\* Fields for one value of a type: with a string there are two lengths.
Values(m) ==
    CASE m.type = "basic" -> {Value(0), Null}
      [] m.type = "string" -> {Value(0), Value(2)}
      [] m.type = "dummy" -> {Null}
      [] m.type = "message" ->
            {Object([i \in DOMAIN m.sub |-> IF i \in given THEN Value(1) ELSE Null]) :
                given \in SUBSET {i \in DOMAIN m.sub : m.sub[i].type # "dummy"}}

FieldsOf(m) ==
    {BadField, Null}
    \cup IF m.shape = "one" THEN Values(m)
         ELSE {List(<<>>)} \cup {List(<<v>>) : v \in Values(m)}
              \cup {List(<<v, w>>) : v \in Values(m), w \in Values(m)}

Shapes == {"one", "array", "sequence"}
Members ==
    {Member("basic", size, shape, <<>>) : size \in {1, 2, 8}, shape \in Shapes}
    \cup {Member("string", 1, shape, <<>>) : shape \in Shapes}
    \cup {Member("message", 1, shape, sub) :
             shape \in Shapes, sub \in {<<Byte, Double>>, <<Text>>, <<Dummy>>}}

\* A member alone, and one between two others.
MCMessages ==
    UNION {{<<<<m>>, Object(<<f>>)>> : f \in FieldsOf(m)}
           \cup {<<<<Byte, m, Double>>, Object(<<Value(0), f, Value(0)>>)>> : f \in FieldsOf(m)} :
              m \in Members}

MCLayouts ==
    {message[1] : message \in MCMessages}
    \cup {m.sub : m \in Members}

\* Every field of the messages, and the fields in it.
MCJson ==
    LET top == {message[2] : message \in MCMessages}
        members == UNION {FieldsOf(m) : m \in Members}
        values == UNION {Values(m) : m \in Members}
    IN  {Null, BadField, Value(0), Value(1)} \cup top \cup members \cup values
=============================================================================
