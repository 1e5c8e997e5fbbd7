----------------------------- MODULE MCAllocation -----------------------------
(* Layouts for Allocation: messages of one or two members with up to two    *)
(* levels of nested messages.                                               *)
EXTENDS Allocation

Plain(kind) == [kind |-> kind, size |-> IF kind = "number" THEN 1 ELSE Words(kind), sub |-> <<>>]

Size(layout) == layout[Len(layout)].offset + layout[Len(layout)].size

At(m, offset) == [kind |-> m.kind, offset |-> offset, size |-> m.size, sub |-> m.sub]

\* The layouts of one or two members out of ms.
LayoutsOf(ms) ==
    {<<At(m, 0)>> : m \in ms} \cup {<<At(m[1], 0), At(m[2], m[1].size)>> : m \in ms \X ms}

MessagesOf(layouts) == {[kind |-> "message", size |-> Size(l), sub |-> l] : l \in layouts}

Basic == {Plain("string"), Plain("number")}
Flat == LayoutsOf(Basic)
MCLayouts ==
    LayoutsOf({Plain(k) : k \in {"string", "strings", "number", "messages"}}
              \cup MessagesOf(LayoutsOf(Basic \cup MessagesOf(Flat))))
=============================================================================
