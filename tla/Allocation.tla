------------------------------ MODULE Allocation ------------------------------
(***************************************************************************)
(* allocate_message() and allocate_string_members()                        *)
(* (src/src/typesupport_helpers.cpp): the memory of a ROS message that rmw *)
(* deserializes a service request or response into.  The members of the    *)
(* message are visited in order, and those of a nested message inside it;  *)
(* a std::string, or a std::vector of them, is copied to its place.        *)
(*                                                                         *)
(* A layout is a sequence of members with the offset of each in its own    *)
(* message, counted in words; wide strings are like strings and numbers    *)
(* stand for every other type.  memory has the objects that were copied    *)
(* and not overwritten by a later copy; the rest is zero or uninitialized. *)
(***************************************************************************)
EXTENDS Naturals, Sequences

CONSTANT Layouts    \* the messages to allocate

VARIABLES
    members,    \* the layout of the message
    frames,     \* the calls of allocate_string_members() under way
    memory      \* the objects in buf

vars == <<members, frames, memory>>

\* sizeof(std::string) and sizeof(std::vector): four and three words.
Words(kind) == IF kind = "string" THEN 4 ELSE 3

Frame(sub, base) == [members |-> sub, i |-> 1, base |-> base]

Top == frames[Len(frames)]
Callers == SubSeq(frames, 1, Len(frames) - 1)

Init ==
    /\ members \in Layouts
    /\ frames = <<Frame(members, 0)>>
    /\ memory = {}

Overlap(o, p) ==
    o.at < p.at + Words(p.kind) /\ p.at < o.at + Words(o.kind)

\* memcpy(buf + member->offset_, new std::string(str), sizeof(std::string))
Place(o) == memory' = {p \in memory : ~Overlap(o, p)} \cup {o}

Visits(kinds) ==
    /\ frames # <<>>
    /\ Top.i <= Len(Top.members)
    /\ Top.members[Top.i].kind \in kinds

Member == Top.members[Top.i]
Onwards == [Top EXCEPT !.i = @ + 1]

Object(at, kind) == [at |-> at, kind |-> kind]

StringMember ==
    /\ Visits({"string", "strings"})
    /\ Place(Object(Top.base + Member.offset, Member.kind))
    /\ frames' = Append(Callers, Onwards)
    /\ UNCHANGED members

\* allocate_string_members(sub_members, buf): the nested message is visited
\* at the beginning of the outer one.
NestedMember ==
    /\ Visits({"message"})
    /\ frames' = Callers \o <<Onwards, Frame(Member.sub, Top.base)>>
    /\ UNCHANGED <<members, memory>>

\* Numbers, arrays of messages and the like.
OtherMember ==
    /\ Visits({"number", "messages"})
    /\ frames' = Append(Callers, Onwards)
    /\ UNCHANGED <<members, memory>>

Return ==
    /\ frames # <<>>
    /\ Top.i > Len(Top.members)
    /\ frames' = Callers
    /\ UNCHANGED <<members, memory>>

Next == StringMember \/ NestedMember \/ OtherMember \/ Return

Spec == Init /\ [][Next]_vars

-----------------------------------------------------------------------------
(* Properties *)

\* The string objects that a message with this layout has, at their places
\* in the whole message (two levels of nesting).
Strings(layout, base) ==
    {[at |-> base + m.offset, kind |-> m.kind] :
        m \in {layout[i] : i \in {j \in DOMAIN layout : layout[j].kind \in {"string", "strings"}}}}

Nested(layout) == {layout[i] : i \in {j \in DOMAIN layout : layout[j].kind = "message"}}

AllStrings ==
    Strings(members, 0)
    \cup UNION {Strings(m.sub, m.offset) : m \in Nested(members)}
    \cup UNION {UNION {Strings(n.sub, m.offset + n.offset) : n \in Nested(m.sub)} :
                   m \in Nested(members)}

Done == frames = <<>>

\* "It will also prealocate std::string objects in the allocated memory
\* chunk" (typesupport_helpers.hpp:87): every string object of the message.
PreallocatesStrings == Done => AllStrings \subseteq memory
=============================================================================
