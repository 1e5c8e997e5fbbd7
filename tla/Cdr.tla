--------------------------------- MODULE Cdr ---------------------------------
(***************************************************************************)
(* A message on its way between two clients: json_to_serialized_message()  *)
(* writes the JSON of one (src/src/translate.cpp, cycser in                *)
(* src/src/serdes.hpp), ROS carries the bytes, possibly cut short, and     *)
(* serialized_message_to_json() reads them for the other (cycdeser).       *)
(*                                                                         *)
(* A layout is a sequence of members: type "basic" of some size, "string", *)
(* "message" with the layout sub, or "dummy", the member of an empty       *)
(* message; shape "one", "array" of ArraySize or "sequence".  A field is   *)
(* JSON: null, "value" (a string's n is its length), "list", "object", or  *)
(* "bad", of a type that does not fit.                                     *)
(*                                                                         *)
(* Of the bytes it matters which belong together: items are what was       *)
(* written, in order, each at its offset and with its size, and a length   *)
(* with the number n it holds.  Reading gives the number of the item read. *)
(* Wide strings, the header and the byte order are left out.               *)
(***************************************************************************)
EXTENDS Naturals, Sequences

CONSTANTS
    Layouts,    \* of the messages, and of the messages in them
    Json,       \* the fields, and the fields in them
    Messages,   \* <<layout, field>>: what clients publish
    ArraySize   \* array_size_ of the arrays

Null == [json |-> "null"]

MessageMember ==
    [type : {"basic", "string", "message", "dummy"}, size : Nat \ {0},
     shape : {"one", "array", "sequence"}, sub : Layouts]

ASSUME LayoutsAssumption == \A l \in Layouts : l \in Seq(MessageMember)
ASSUME JsonAssumption ==
    /\ Null \in Json
    /\ \A f \in Json :
          /\ f.json = "value" => f.n \in Nat
          /\ f.json = "list" => f.elements \in Seq(Json)
          /\ f.json = "object" => \A i \in DOMAIN f.fields : f.fields[i] \in Json
ASSUME MessagesAssumption == Messages \subseteq Layouts \X Json
ASSUME ArraySizeAssumption == ArraySize \in Nat \ {0}

VARIABLES
    layout,     \* of the message
    phase,      \* "write", "read", or how it ended: "done", or by which
                \* exception: "bad" JSON, "invalid" data; "garbled" when
                \* something was read that was not written
    todo,       \* the members and fields still to write, or members to read
    items,      \* what was written
    off,        \* the end of it
    lim,        \* the end of what arrived
    pos,        \* how far it is read
    out,        \* the items read
    marks       \* history: before each step of the writer and at its end, what
                \* a reader has to read from there on, and where

vars == <<layout, phase, todo, items, off, lim, pos, out, marks>>

\* field[index] of a list: null beyond its end.
Element(field, i) ==
    IF field.json = "list" /\ i \in DOMAIN field.elements THEN field.elements[i] ELSE Null

\* j.find(member->name_): null if j is no object or has no such member.
Found(field, i) ==
    IF field.json = "object" /\ i \in DOMAIN field.fields THEN field.fields[i] ELSE Null

Single(m) == [m EXCEPT !.shape = "one"]
Task(m, f) == [member |-> m, field |-> f]

Fields(sub, f) == [i \in DOMAIN sub |-> Task(sub[i], Found(f, i))]
Elements(m, f, n) == [i \in 1 .. n |-> Task(Single(m), Element(f, i))]

ToRead(tasks) == [i \in DOMAIN tasks |-> Task(tasks[i].member, Null)]
Mark == [toread |-> ToRead(todo), off |-> off, written |-> Len(items)]

Init ==
    /\ \E message \in Messages :
          /\ layout = message[1]
          /\ todo = Fields(message[1], message[2])
    /\ phase = "write"
    /\ items = <<>>
    /\ off = 0
    /\ lim = 0
    /\ pos = 0
    /\ out = <<>>
    /\ marks = <<Mark>>

Aligned(n, size) == ((n + size - 1) \div size) * size

Goto(p, tasks) == phase' = p /\ todo' = tasks

Todo(p) == phase = p /\ todo # <<>>
Now == Head(todo)
Is(types, shapes) == Now.member.type \in types /\ Now.member.shape \in shapes

-----------------------------------------------------------------------------
(* json_to_serialized_message() and serialize_field(). *)

\* The offset is aligned to the size, and the gap is padding.
Item_Unaligned(size, align, n) == [at |-> off, size |-> size, n |-> n]
Item(size, align, n) == [at |-> Aligned(off, align), size |-> size, n |-> n]

End(item) == item.at + item.size

Put(item) ==
    /\ items' = Append(items, item)
    /\ off' = End(item)

\* get<T>() and operator[] throw on JSON that does not fit; a message takes
\* any JSON but is not found in it, and neither is a sequence of messages.
Bad ==
    /\ Now.field.json = "bad"
    /\ Now.member.type # "message" \/ Now.member.shape = "array"

WriteThrows ==
    /\ Todo("write") /\ Bad
    /\ Goto("bad", <<>>)
    /\ UNCHANGED <<layout, items, off, lim, pos, out>>

WriteDummy ==
    /\ Todo("write") /\ Is({"dummy"}, {"one"})
    /\ Goto("write", Tail(todo))
    /\ UNCHANGED <<layout, items, off, lim, pos, out>>

WriteBasic ==
    /\ Todo("write") /\ ~Bad /\ Is({"basic"}, {"one"})
    /\ Put(Item(Now.member.size, Now.member.size, 0))
    /\ Goto("write", Tail(todo))
    /\ UNCHANGED <<layout, lim, pos, out>>

\* The length with the terminating zero, then the characters and the zero.
WriteString ==
    LET sz == (IF Now.field.json = "value" THEN Now.field.n ELSE 0) + 1
        len == Item(4, 4, sz)
        chars == [at |-> End(len), size |-> sz, n |-> 0]
    IN  /\ Todo("write") /\ ~Bad /\ Is({"string"}, {"one"})
        /\ items' = items \o <<len, chars>>
        /\ off' = End(chars)
        /\ Goto("write", Tail(todo))
        /\ UNCHANGED <<layout, lim, pos, out>>

WriteMessage ==
    /\ Todo("write") /\ Is({"message"}, {"one"})
    /\ Goto("write", Fields(Now.member.sub, Now.field) \o Tail(todo))
    /\ UNCHANGED <<layout, items, off, lim, pos, out>>

WriteArray ==
    /\ Todo("write") /\ ~Bad /\ Is({"basic", "string", "message"}, {"array"})
    /\ Goto("write", Elements(Now.member, Now.field, ArraySize) \o Tail(todo))
    /\ UNCHANGED <<layout, items, off, lim, pos, out>>

WriteSequence ==
    LET n == IF Now.field.json = "list" THEN Len(Now.field.elements) ELSE 0
    IN  /\ Todo("write") /\ ~Bad /\ Is({"basic", "string", "message"}, {"sequence"})
        /\ Put(Item(4, 4, n))
        /\ Goto("write", Elements(Now.member, Now.field, n) \o Tail(todo))
        /\ UNCHANGED <<layout, lim, pos, out>>

\* The message arrives, or only a part of it.
Transmit ==
    /\ phase = "write" /\ todo = <<>>
    /\ lim' \in 0 .. off
    /\ Goto("read", [i \in DOMAIN layout |-> Task(layout[i], Null)])
    /\ UNCHANGED <<layout, items, off, pos, out>>

-----------------------------------------------------------------------------
(* serialized_message_to_json() and deserialize_field(). *)

\* align() and validate_size(): both throw past the end.
Fits_Lax(at, size) == at <= lim
Fits(at, size) == at <= lim /\ size <= lim - at

\* The item that was written there.
Written(at, size) == {k \in DOMAIN items : items[k].at = at /\ items[k].size = size}

\* The characters of a string: a basic of that many bytes, not aligned.
Chars(n) == <<Task([type |-> "chars", size |-> n, shape |-> "one", sub |-> <<>>], Null)>>

Repeat(m, n) == [i \in 1 .. n |-> Task(Single(m), Null)]

\* What is to be read after a number: it may have been a length.
Remains(n) ==
    CASE Is({"string"}, {"one"}) -> Chars(n)
      [] Now.member.shape = "sequence" -> Repeat(Now.member, n)
      [] OTHER -> <<>>

\* A number of the given size is read.
Read(size) ==
    LET at == Aligned(pos, size)
    IN  /\ UNCHANGED <<layout, items, off, lim>>
        /\ \/ /\ ~Fits(at, size)
              /\ Goto("invalid", <<>>)
              /\ UNCHANGED <<pos, out>>
           \/ /\ Fits(at, size)
              /\ Written(at, size) = {}
              /\ Goto("garbled", <<>>)
              /\ UNCHANGED <<pos, out>>
           \/ /\ Fits(at, size)
              /\ \E k \in Written(at, size) :
                    /\ out' = Append(out, k)
                    /\ pos' = at + size
                    /\ Goto("read", Remains(items[k].n) \o Tail(todo))

ReadBasic ==
    /\ Todo("read") /\ Is({"basic", "dummy"}, {"one"})
    /\ Read(Now.member.size)

ReadLength ==
    /\ Todo("read")
    /\ Is({"string"}, {"one"}) \/ Is({"basic", "string", "message"}, {"sequence"})
    /\ Read(4)

ReadChars ==
    /\ Todo("read") /\ Is({"chars"}, {"one"})
    /\ IF Fits(pos, Now.member.size)
       THEN /\ \E k \in Written(pos, Now.member.size) : out' = Append(out, k)
            /\ pos' = pos + Now.member.size
            /\ Goto("read", Tail(todo))
       ELSE Goto("invalid", <<>>) /\ UNCHANGED <<pos, out>>
    /\ UNCHANGED <<layout, items, off, lim>>

ReadMessage ==
    /\ Todo("read")
    /\ \/ /\ Is({"message"}, {"one"})
          /\ Goto("read", Fields(Now.member.sub, Null) \o Tail(todo))
       \/ /\ Is({"basic", "string", "message"}, {"array"})
          /\ Goto("read", Repeat(Now.member, ArraySize) \o Tail(todo))
    /\ UNCHANGED <<layout, items, off, lim, pos, out>>

ReadDone ==
    /\ phase = "read" /\ todo = <<>>
    /\ phase' = "done"
    /\ UNCHANGED <<layout, todo, items, off, lim, pos, out>>

-----------------------------------------------------------------------------
Write ==
    /\ \/ WriteDummy \/ WriteBasic \/ WriteString \/ WriteMessage
       \/ WriteArray \/ WriteSequence
    /\ marks' = Append(marks, Mark')

ReadIt == ReadBasic \/ ReadLength \/ ReadChars \/ ReadMessage \/ ReadDone

Next ==
    \/ Write
    \/ (WriteThrows \/ Transmit \/ ReadIt) /\ UNCHANGED marks

Spec == Init /\ [][Next]_vars

-----------------------------------------------------------------------------
(* Properties *)

\* A dummy is read but never written, so a message with an empty one inside
\* is out of step from there on.
HasEmpty ==
    \E j \in DOMAIN marks :
        marks[j].toread # <<>> /\ Head(marks[j].toread).member.type = "dummy"

\* What one client publishes another one reads, every value in its place,
\* whatever fields were left out or too short; and a message that was cut
\* short is noticed, wherever it was cut.
RoundTrip ==
    ~HasEmpty =>
        /\ phase # "garbled"
        /\ phase = "done" => out = [k \in DOMAIN items |-> k] /\ lim = off
        /\ phase = "invalid" => lim < off

\* Nothing is read past the end of what arrived, not even the padding.
InBounds == pos <= lim /\ \A i \in DOMAIN out : End(items[out[i]]) <= lim
=============================================================================
