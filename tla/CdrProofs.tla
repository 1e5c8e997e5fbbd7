------------------------------ MODULE CdrProofs ------------------------------
(***************************************************************************)
(* Proofs about Cdr, for any layouts, nested to any depth, and any JSON:   *)
(* a message is read back as it was written, or its end is missed.         *)
(*                                                                         *)
(* Writer and reader go through the same members, the writer with fields.  *)
(* The marks of the writer tell what a reader has to read and where: the   *)
(* argument is that the reader goes from mark to mark.                     *)
(***************************************************************************)
EXTENDS Cdr, SequenceTheorems, TLAPS

-----------------------------------------------------------------------------
(* The invariant *)

ItemType == [at : Nat, size : Nat \ {0}, n : Nat]
WriteTask == [member : MessageMember, field : Json]
MemberTask == [member : MessageMember, field : {Null}]
CharsTask == [member : [type : {"chars"}, size : Nat, shape : {"one"}, sub : {<<>>}],
              field : {Null}]
MarkType == [toread : Seq(MemberTask), off : Nat, written : Nat]
Reading == {"read", "done", "invalid", "garbled"}

TypeInv ==
    /\ layout \in Layouts
    /\ phase \in {"write", "bad"} \cup Reading
    /\ phase = "write" => todo \in Seq(WriteTask)
    /\ phase = "read" => todo \in Seq(MemberTask \cup CharsTask)
    /\ items \in Seq(ItemType)
    /\ off \in Nat /\ lim \in Nat /\ pos \in Nat
    /\ out \in Seq(Nat) /\ \A i \in DOMAIN out : out[i] \in DOMAIN items
    /\ marks \in Seq(MarkType)

\* The items are one behind the other, and the end behind them all.
Packed(its, end) ==
    /\ \A i, j \in DOMAIN its : i < j => End(its[i]) <= its[j].at
    /\ \A i \in DOMAIN its : End(its[i]) <= end

ItemsInv == Packed(items, off)

\* What a step of the writer does from one mark a to the next one b, a member
\* m with others to follow: it writes the numbers a reader of m reads there,
\* and leaves what that reads next.
ItemAt(its, k, at, size) == k \in DOMAIN its /\ its[k].at = at /\ its[k].size = size

WroteBasic(its, a, b, m, rest) ==
    /\ m.type = "basic" /\ m.shape = "one"
    /\ ItemAt(its, a.written + 1, Aligned(a.off, m.size), m.size)
    /\ b.off = Aligned(a.off, m.size) + m.size
    /\ b.written = a.written + 1
    /\ b.toread = rest

WroteString(its, a, b, m, rest) ==
    /\ m.type = "string" /\ m.shape = "one"
    /\ ItemAt(its, a.written + 1, Aligned(a.off, 4), 4)
    /\ ItemAt(its, a.written + 2, Aligned(a.off, 4) + 4, its[a.written + 1].n)
    /\ b.off = Aligned(a.off, 4) + 4 + its[a.written + 1].n
    /\ b.written = a.written + 2
    /\ b.toread = rest

WroteNothing(a, b, m, rest) ==
    /\ b.off = a.off
    /\ b.written = a.written
    /\ \/ m.type = "message" /\ m.shape = "one" /\ b.toread = Fields(m.sub, Null) \o rest
       \/ /\ m.type \in {"basic", "string", "message"} /\ m.shape = "array"
          /\ b.toread = Repeat(m, ArraySize) \o rest

WroteSequence(its, a, b, m, rest) ==
    /\ m.type \in {"basic", "string", "message"} /\ m.shape = "sequence"
    /\ ItemAt(its, a.written + 1, Aligned(a.off, 4), 4)
    /\ b.off = Aligned(a.off, 4) + 4
    /\ b.written = a.written + 1
    /\ b.toread = Repeat(m, its[a.written + 1].n) \o rest

WroteMember(its, a, b, m, rest) ==
    \/ m.type = "dummy"
    \/ WroteBasic(its, a, b, m, rest) \/ WroteString(its, a, b, m, rest)
    \/ WroteNothing(a, b, m, rest) \/ WroteSequence(its, a, b, m, rest)

Wrote(its, a, b) ==
    /\ a.toread # <<>>
    /\ WroteMember(its, a, b, Head(a.toread).member, Tail(a.toread))

MarksInv ==
    /\ marks # <<>>
    /\ marks[1] = [toread |-> Fields(layout, Null), off |-> 0, written |-> 0]
    /\ \A j \in 1 .. Len(marks) - 1 : Wrote(items, marks[j], marks[j + 1])
    /\ phase = "write" => marks[Len(marks)] = Mark
    /\ phase \in Reading =>
          marks[Len(marks)] = [toread |-> <<>>, off |-> off, written |-> Len(items)]

\* The reader is at a mark of the writer, or between the length and the
\* characters of a string.
AtMark(a) == todo = a.toread /\ pos = a.off /\ Len(out) = a.written

InString(a) ==
    /\ a.toread # <<>>
    /\ Head(a.toread).member.type = "string" /\ Head(a.toread).member.shape = "one"
    /\ a.written + 1 \in DOMAIN items
    /\ todo = Chars(items[a.written + 1].n) \o Tail(a.toread)
    /\ pos = Aligned(a.off, 4) + 4
    /\ Len(out) = a.written + 1

ReadInv ==
    /\ phase \notin Reading => pos = 0 /\ lim = 0 /\ out = <<>>
    /\ lim <= off
    /\ ~HasEmpty =>
          /\ \A i \in DOMAIN out : out[i] = i
          /\ phase = "read" => \E j \in DOMAIN marks : AtMark(marks[j]) \/ InString(marks[j])

CdrInv == TypeInv /\ ItemsInv /\ MarksInv /\ InBounds /\ ReadInv /\ RoundTrip

-----------------------------------------------------------------------------
(* Offsets and lists of tasks *)

\* Alignment goes forward.
LEMMA AlignedForward ==
    ASSUME NEW n \in Nat, NEW size \in Nat \ {0}
    PROVE  Aligned(n, size) \in Nat /\ n <= Aligned(n, size)
<1> DEFINE q == (n + size - 1) \div size
<1>1. q * size <= n + size - 1 /\ n + size - 1 < q * size + size
  BY SMTT(30)
<1>2. q \in Nat
  BY SMTT(30)
<1>3. q * size \in Nat
  BY <1>2
<1> QED
  BY <1>1, <1>3 DEF Aligned

LEMMA NullIsJson == Null \in Json /\ Null.json = "null"
BY JsonAssumption DEF Null

\* What is found in a field is a field.
LEMMA FoundIsJson ==
    ASSUME NEW f \in Json, NEW i
    PROVE  Found(f, i) \in Json /\ Element(f, i) \in Json
<1>1. Found(f, i) \in Json
  BY JsonAssumption DEF Found
<1>2. Element(f, i) \in Json
  <2>1. CASE f.json = "list" /\ i \in DOMAIN f.elements
    <3>1. f.elements \in Seq(Json)
      BY <2>1, JsonAssumption
    <3> QED
      BY <2>1, <3>1 DEF Element
  <2>2. CASE ~(f.json = "list" /\ i \in DOMAIN f.elements)
    BY <2>2, NullIsJson DEF Element
  <2> QED
    BY <2>1, <2>2
<1> QED
  BY <1>1, <1>2

LEMMA SingleIsMember ==
    ASSUME NEW m \in MessageMember
    PROVE  Single(m) \in MessageMember
BY DEF MessageMember, Single

\* The lists of tasks of writer and reader.
LEMMA TaskLists ==
    ASSUME NEW m \in MessageMember, NEW f \in Json, NEW n \in Nat
    PROVE  Elements(m, f, n) \in Seq(WriteTask) /\ Repeat(m, n) \in Seq(MemberTask)
<1>1. \A i \in 1 .. n : /\ Task(Single(m), Element(f, i)) \in WriteTask
                        /\ Task(Single(m), Null) \in MemberTask
  BY SingleIsMember, FoundIsJson DEF Task, WriteTask, MemberTask
<1> QED
  BY <1>1 DEF Elements, Repeat

LEMMA FieldLists ==
    ASSUME NEW sub \in Layouts, NEW f \in Json
    PROVE  Fields(sub, f) \in Seq(WriteTask) /\ Fields(sub, Null) \in Seq(MemberTask)
<1>1. sub \in Seq(MessageMember)
  BY LayoutsAssumption
<1>2. \A i \in DOMAIN sub : Found(Null, i) = Null
  BY NullIsJson DEF Found
<1>3. \A i \in DOMAIN sub : /\ Task(sub[i], Found(f, i)) \in WriteTask
                            /\ Task(sub[i], Found(Null, i)) \in MemberTask
  BY <1>1, <1>2, FoundIsJson DEF Task, WriteTask, MemberTask
<1>4. DOMAIN sub = 1 .. Len(sub) /\ Len(sub) \in Nat
  BY <1>1
<1> QED
  BY <1>3, <1>4 DEF Fields

\* The reader's lists are the writer's without the fields.
LEMMA ToReadType ==
    ASSUME NEW s \in Seq(WriteTask)
    PROVE  /\ ToRead(s) \in Seq(MemberTask) /\ Len(ToRead(s)) = Len(s)
           /\ \A i \in 1 .. Len(s) : ToRead(s)[i] = Task(s[i].member, Null)
<1>1. \A i \in 1 .. Len(s) : Task(s[i].member, Null) \in MemberTask
  <2>1. \A i \in 1 .. Len(s) : s[i] \in WriteTask
    BY ElementOfSeq
  <2> QED
    BY <2>1 DEF Task, WriteTask, MemberTask
<1>2. DOMAIN s = 1 .. Len(s) /\ Len(s) \in Nat
  OBVIOUS
<1> QED
  BY <1>1, <1>2 DEF ToRead

LEMMA ToReadFirst ==
    ASSUME NEW s \in Seq(WriteTask), s # <<>>
    PROVE  /\ ToRead(s) # <<>>
           /\ Head(ToRead(s)).member = Head(s).member
           /\ Tail(ToRead(s)) = ToRead(Tail(s))
<1>1. /\ ToRead(s) \in Seq(MemberTask) /\ Len(ToRead(s)) = Len(s)
      /\ \A i \in 1 .. Len(s) : ToRead(s)[i] = Task(s[i].member, Null)
  BY ToReadType
<1>2. Len(s) \in Nat /\ Len(s) > 0
  BY EmptySeq
<1>3. ToRead(s) # <<>> /\ Head(ToRead(s)).member = Head(s).member
  <2>1. ToRead(s)[1] = Task(s[1].member, Null) /\ ToRead(s) # <<>>
    BY <1>1, <1>2
  <2>2. Head(ToRead(s)) = ToRead(s)[1] /\ Head(s) = s[1]
    BY <1>1, <2>1
  <2> QED
    BY <2>1, <2>2 DEF Task
<1>4. /\ Tail(s) \in Seq(WriteTask) /\ Len(Tail(s)) = Len(s) - 1
      /\ \A i \in 1 .. Len(s) - 1 : Tail(s)[i] = s[i + 1]
  BY HeadTailProperties
<1>5. /\ Tail(ToRead(s)) \in Seq(MemberTask) /\ Len(Tail(ToRead(s))) = Len(s) - 1
      /\ \A i \in 1 .. Len(s) - 1 : Tail(ToRead(s))[i] = ToRead(s)[i + 1]
  BY <1>1, <1>3, HeadTailProperties
<1>6. /\ ToRead(Tail(s)) \in Seq(MemberTask) /\ Len(ToRead(Tail(s))) = Len(s) - 1
      /\ \A i \in 1 .. Len(s) - 1 : ToRead(Tail(s))[i] = Task(Tail(s)[i].member, Null)
  BY <1>4, ToReadType
<1>7. \A i \in 1 .. Len(s) - 1 : Tail(ToRead(s))[i] = ToRead(Tail(s))[i]
  BY <1>1, <1>2, <1>4, <1>5, <1>6
<1> QED
  BY <1>3, <1>5, <1>6, <1>7, SeqEqual

LEMMA ToReadConcat ==
    ASSUME NEW s \in Seq(WriteTask), NEW t \in Seq(WriteTask)
    PROVE  ToRead(s \o t) = ToRead(s) \o ToRead(t)
<1>1. /\ s \o t \in Seq(WriteTask) /\ Len(s \o t) = Len(s) + Len(t)
      /\ \A i \in 1 .. Len(s) + Len(t) :
            (s \o t)[i] = IF i <= Len(s) THEN s[i] ELSE t[i - Len(s)]
  BY ConcatProperties
<1>2. /\ ToRead(s \o t) \in Seq(MemberTask) /\ Len(ToRead(s \o t)) = Len(s) + Len(t)
      /\ \A i \in 1 .. Len(s) + Len(t) : ToRead(s \o t)[i] = Task((s \o t)[i].member, Null)
  BY <1>1, ToReadType
<1>3. /\ ToRead(s) \in Seq(MemberTask) /\ Len(ToRead(s)) = Len(s)
      /\ \A i \in 1 .. Len(s) : ToRead(s)[i] = Task(s[i].member, Null)
      /\ ToRead(t) \in Seq(MemberTask) /\ Len(ToRead(t)) = Len(t)
      /\ \A i \in 1 .. Len(t) : ToRead(t)[i] = Task(t[i].member, Null)
  BY ToReadType
<1> DEFINE rs == ToRead(s)
           rt == ToRead(t)
<1>4. /\ rs \o rt \in Seq(MemberTask)
      /\ Len(rs \o rt) = Len(s) + Len(t)
      /\ \A i \in 1 .. Len(s) + Len(t) : (rs \o rt)[i] =
            IF i <= Len(s) THEN rs[i] ELSE rt[i - Len(s)]
  <2>1. rs \in Seq(MemberTask) /\ rt \in Seq(MemberTask)
    BY <1>3
  <2>2. Len(rs) = Len(s) /\ Len(rt) = Len(t)
    BY <1>3
  <2> HIDE DEF rs, rt
  <2>3. /\ rs \o rt \in Seq(MemberTask) /\ Len(rs \o rt) = Len(rs) + Len(rt)
        /\ \A i \in 1 .. Len(rs) + Len(rt) :
              (rs \o rt)[i] = IF i <= Len(rs) THEN rs[i] ELSE rt[i - Len(rs)]
    BY <2>1, ConcatProperties
  <2> QED
    BY <2>2, <2>3
<1>5. Len(s) \in Nat /\ Len(t) \in Nat
  OBVIOUS
<1>6. \A i \in 1 .. Len(s) + Len(t) : ToRead(s \o t)[i] = (ToRead(s) \o ToRead(t))[i]
  <2> SUFFICES ASSUME NEW i \in 1 .. Len(s) + Len(t)
               PROVE  ToRead(s \o t)[i] = (ToRead(s) \o ToRead(t))[i]
    OBVIOUS
  <2>1. CASE i <= Len(s)
    <3>1. i \in 1 .. Len(s)
      BY <1>5, <2>1
    <3> QED
      BY <1>1, <1>2, <1>3, <1>4, <2>1, <3>1
  <2>2. CASE ~(i <= Len(s))
    <3>1. i - Len(s) \in 1 .. Len(t)
      BY <1>5, <2>2
    <3> QED
      BY <1>1, <1>2, <1>3, <1>4, <2>2, <3>1
  <2> QED
    BY <2>1, <2>2
<1> QED
  BY <1>2, <1>4, <1>6, SeqEqual

LEMMA ToReadLists ==
    ASSUME NEW f
    PROVE  /\ \A sub : ToRead(Fields(sub, f)) = Fields(sub, Null)
           /\ \A m, n : ToRead(Elements(m, f, n)) = Repeat(m, n)
<1>1. \A i : Found(Null, i) = Null
  BY NullIsJson DEF Found
<1> QED
  BY <1>1 DEF ToRead, Fields, Elements, Repeat, Task

-----------------------------------------------------------------------------
(* Items *)

Grows(its, more) ==
    /\ Len(its) <= Len(more)
    /\ \A k \in DOMAIN its : k \in DOMAIN more /\ more[k] = its[k]

\* An item comes behind the others.
LEMMA AppendItem ==
    ASSUME NEW its \in Seq(ItemType), NEW end \in Nat, Packed(its, end),
           NEW item \in ItemType, end <= item.at,
           NEW more, more = Append(its, item)
    PROVE  /\ more \in Seq(ItemType) /\ Len(more) = Len(its) + 1
           /\ End(item) \in Nat /\ end <= End(item) /\ Packed(more, End(item))
           /\ Grows(its, more)
           /\ ItemAt(more, Len(its) + 1, item.at, item.size)
           /\ more[Len(its) + 1] = item
<1>1. /\ more \in Seq(ItemType) /\ Len(more) = Len(its) + 1
      /\ DOMAIN more = 1 .. Len(its) + 1 /\ DOMAIN its = 1 .. Len(its) /\ Len(its) \in Nat
      /\ \A k \in 1 .. Len(its) : more[k] = its[k]
      /\ more[Len(its) + 1] = item
  BY AppendProperties, LenProperties
<1>2. /\ item.at \in Nat /\ item.size \in Nat /\ End(item) = item.at + item.size
      /\ End(item) \in Nat /\ end <= End(item)
  BY DEF ItemType, End
<1>3. Packed(more, End(item))
  <2>1. \A k \in 1 .. Len(its) : End(its[k]) \in Nat /\ End(its[k]) <= end
    <3>1. \A k \in 1 .. Len(its) : its[k] \in ItemType
      BY ElementOfSeq
    <3>2. \A k \in 1 .. Len(its) : its[k].at \in Nat /\ its[k].size \in Nat
      BY <3>1 DEF ItemType
    <3>3. \A k \in 1 .. Len(its) : End(its[k]) \in Nat
      BY <3>2 DEF End
    <3> QED
      BY <1>1, <3>3 DEF Packed
  <2>2. \A i, j \in 1 .. Len(its) : i < j => End(its[i]) <= its[j].at
    BY <1>1 DEF Packed
  <2>3. ASSUME NEW i \in 1 .. Len(its) + 1, NEW j \in 1 .. Len(its) + 1, i < j
        PROVE  End(more[i]) <= more[j].at
    <3>1. i \in 1 .. Len(its)
      BY <1>1, <2>3
    <3>2. CASE j \in 1 .. Len(its)
      BY <1>1, <2>2, <2>3, <3>1, <3>2
    <3>3. CASE j = Len(its) + 1
      BY <1>1, <1>2, <2>1, <3>1, <3>3
    <3> QED
      BY <1>1, <3>2, <3>3
  <2>4. ASSUME NEW i \in 1 .. Len(its) + 1
        PROVE  End(more[i]) <= End(item)
    <3>1. CASE i \in 1 .. Len(its)
      BY <1>1, <1>2, <2>1, <3>1
    <3>2. CASE i = Len(its) + 1
      BY <1>1, <1>2, <3>2
    <3> QED
      BY <1>1, <3>1, <3>2
  <2> QED
    BY <1>1, <2>3, <2>4 DEF Packed
<1>4. Grows(its, more)
  BY <1>1 DEF Grows
<1>5. ItemAt(more, Len(its) + 1, item.at, item.size)
  BY <1>1 DEF ItemAt
<1> QED
  BY <1>1, <1>2, <1>3, <1>4, <1>5

LEMMA GrowsTwice ==
    ASSUME NEW a \in Seq(ItemType), NEW b \in Seq(ItemType), NEW c \in Seq(ItemType),
           Grows(a, b), Grows(b, c)
    PROVE  Grows(a, c)
<1>1. Len(a) \in Nat /\ Len(b) \in Nat /\ Len(c) \in Nat
  OBVIOUS
<1> QED
  BY <1>1 DEF Grows

\* Of items that are not empty at most one is at any place.
LEMMA OneItem ==
    ASSUME TypeInv, ItemsInv, NEW k, NEW at, NEW size, ItemAt(items, k, at, size)
    PROVE  Written(at, size) = {k} /\ at + size <= off
<1>1. \A i \in DOMAIN items : items[i].at \in Nat /\ items[i].size \in Nat /\ items[i].size > 0
  <2>1. \A i \in DOMAIN items : items[i] \in ItemType
    BY DEF TypeInv
  <2> QED
    BY <2>1 DEF ItemType
<1>2. k \in DOMAIN items /\ items[k].at = at /\ items[k].size = size
  BY DEF ItemAt
<1>3. DOMAIN items \subseteq Nat
  BY DEF TypeInv
<1>4. ASSUME NEW i \in DOMAIN items, items[i].at = at, i # k
      PROVE  FALSE
  <2>1. i < k \/ k < i
    BY <1>2, <1>3, <1>4
  <2> QED
    BY <1>1, <1>2, <1>4, <2>1 DEF ItemsInv, Packed, End
<1>5. at + size <= off
  BY <1>2 DEF ItemsInv, Packed, End
<1> QED
  BY <1>2, <1>4, <1>5 DEF Written

\* What was written from one mark to the next stays written.
LEMMA WroteGrows ==
    ASSUME NEW its, NEW more, Grows(its, more), NEW a, NEW b, Wrote(its, a, b)
    PROVE  Wrote(more, a, b)
<1> DEFINE m == Head(a.toread).member
           rest == Tail(a.toread)
<1>1. a.toread # <<>> /\ WroteMember(its, a, b, m, rest)
  BY DEF Wrote
<1> HIDE DEF m, rest
<1>2. \A k \in DOMAIN its : k \in DOMAIN more /\ more[k] = its[k]
  BY DEF Grows
<1>3. \A k, at, size : ItemAt(its, k, at, size) => ItemAt(more, k, at, size) /\ more[k] = its[k]
  BY <1>2 DEF ItemAt
<1>4. WroteBasic(its, a, b, m, rest) => WroteBasic(more, a, b, m, rest)
  BY <1>3 DEF WroteBasic
<1>5. WroteString(its, a, b, m, rest) => WroteString(more, a, b, m, rest)
  <2> SUFFICES ASSUME WroteString(its, a, b, m, rest)
               PROVE  WroteString(more, a, b, m, rest)
    OBVIOUS
  <2>1. more[a.written + 1] = its[a.written + 1]
    BY <1>3 DEF WroteString
  <2> QED
    BY <1>3, <2>1 DEF WroteString
<1>6. WroteSequence(its, a, b, m, rest) => WroteSequence(more, a, b, m, rest)
  <2> SUFFICES ASSUME WroteSequence(its, a, b, m, rest)
               PROVE  WroteSequence(more, a, b, m, rest)
    OBVIOUS
  <2>1. more[a.written + 1] = its[a.written + 1]
    BY <1>3 DEF WroteSequence
  <2> QED
    BY <1>3, <2>1 DEF WroteSequence
<1>7. WroteMember(more, a, b, m, rest)
  BY <1>1, <1>4, <1>5, <1>6 DEF WroteMember
<1> QED
  BY <1>1, <1>7 DEF Wrote, m, rest

-----------------------------------------------------------------------------
(* The writer *)

\* A step of the writer from its mark to the next one.
WriterStep ==
    /\ phase = "write" /\ todo # <<>> /\ phase' = "write"
    /\ todo' \in Seq(WriteTask)
    /\ items' \in Seq(ItemType) /\ off' \in Nat /\ off <= off'
    /\ Packed(items', off') /\ Grows(items, items')
    /\ WroteMember(items', Mark, Mark', Now.member, ToRead(Tail(todo)))
    /\ UNCHANGED <<layout, lim, pos, out>>

\* The member to write and the ones after it.
LEMMA WriteNow ==
    ASSUME TypeInv, Todo("write")
    PROVE  /\ phase = "write" /\ todo # <<>> /\ todo \in Seq(WriteTask)
           /\ Now.member \in MessageMember /\ Now.field \in Json
           /\ Tail(todo) \in Seq(WriteTask)
           /\ items \in Seq(ItemType) /\ off \in Nat
<1>1. phase = "write" /\ todo # <<>> /\ todo \in Seq(WriteTask)
  BY DEF TypeInv, Todo
<1>2. Now \in WriteTask /\ Tail(todo) \in Seq(WriteTask)
  BY <1>1, HeadTailProperties DEF Now
<1> QED
  BY <1>1, <1>2 DEF TypeInv, WriteTask

\* A step that writes nothing.
LEMMA NothingWritten ==
    ASSUME TypeInv, ItemsInv, Todo("write"),
           NEW more, more \in Seq(WriteTask), todo' = more \o Tail(todo), phase' = "write",
           UNCHANGED <<layout, items, off, lim, pos, out>>,
           NEW read, read = ToRead(more),
           \/ Now.member.type = "dummy"
           \/ /\ Now.member.type = "message" /\ Now.member.shape = "one"
              /\ read = Fields(Now.member.sub, Null)
           \/ /\ Now.member.type \in {"basic", "string", "message"}
              /\ Now.member.shape = "array"
              /\ read = Repeat(Now.member, ArraySize)
    PROVE  WriterStep
<1>1. /\ phase = "write" /\ todo # <<>> /\ Tail(todo) \in Seq(WriteTask)
      /\ items \in Seq(ItemType) /\ off \in Nat
  BY WriteNow
<1>2. todo' \in Seq(WriteTask)
  BY <1>1, ConcatProperties
<1>3. ToRead(todo') = read \o ToRead(Tail(todo))
  BY <1>1, ToReadConcat
<1>4. Mark'.off = Mark.off /\ Mark'.written = Mark.written /\ Mark'.toread = ToRead(todo')
  BY DEF Mark
<1>5. WroteMember(items', Mark, Mark', Now.member, ToRead(Tail(todo)))
  <2> DEFINE m == Now.member
  <2>1. CASE m.type = "dummy"
    BY <2>1 DEF WroteMember
  <2>2. CASE m.type = "message" /\ m.shape = "one" /\ read = Fields(m.sub, Null)
    BY <1>3, <1>4, <2>2 DEF WroteMember, WroteNothing
  <2>3. CASE /\ m.type \in {"basic", "string", "message"} /\ m.shape = "array"
             /\ read = Repeat(m, ArraySize)
    BY <1>3, <1>4, <2>3 DEF WroteMember, WroteNothing
  <2> QED
    BY <2>1, <2>2, <2>3
<1>6. Packed(items', off') /\ Grows(items, items')
  BY <1>1 DEF ItemsInv, Grows
<1> QED
  BY <1>1, <1>2, <1>5, <1>6 DEF WriterStep

LEMMA WriteDummyStep ==
    ASSUME TypeInv, ItemsInv, WriteDummy
    PROVE  WriterStep
<1>1. Todo("write") /\ Now.member.type = "dummy" /\ phase' = "write" /\ todo' = Tail(todo)
  BY DEF WriteDummy, Is, Goto
<1>2. todo' = <<>> \o Tail(todo) /\ <<>> \in Seq(WriteTask)
  BY <1>1, WriteNow, ConcatEmptySeq
<1> QED
  BY <1>1, <1>2, NothingWritten DEF WriteDummy

LEMMA WriteMessageStep ==
    ASSUME TypeInv, ItemsInv, WriteMessage
    PROVE  WriterStep
<1> DEFINE more == Fields(Now.member.sub, Now.field)
<1>1. /\ Todo("write") /\ Now.member.type = "message" /\ Now.member.shape = "one"
      /\ phase' = "write" /\ todo' = more \o Tail(todo)
  BY DEF WriteMessage, Is, Goto
<1>2. Now.member.sub \in Layouts /\ Now.field \in Json
  BY <1>1, WriteNow DEF MessageMember
<1>3. more \in Seq(WriteTask) /\ ToRead(more) = Fields(Now.member.sub, Null)
  BY <1>2, FieldLists, ToReadLists
<1> HIDE DEF more
<1> QED
  BY <1>1, <1>3, NothingWritten DEF WriteMessage

LEMMA WriteArrayStep ==
    ASSUME TypeInv, ItemsInv, WriteArray
    PROVE  WriterStep
<1> DEFINE more == Elements(Now.member, Now.field, ArraySize)
<1>1. /\ Todo("write") /\ Now.member.type \in {"basic", "string", "message"}
      /\ Now.member.shape = "array" /\ phase' = "write" /\ todo' = more \o Tail(todo)
  BY DEF WriteArray, Is, Goto
<1>2. Now.member \in MessageMember /\ Now.field \in Json
  BY <1>1, WriteNow
<1>3. more \in Seq(WriteTask) /\ ToRead(more) = Repeat(Now.member, ArraySize)
  BY <1>2, TaskLists, ToReadLists, ArraySizeAssumption
<1> HIDE DEF more
<1> QED
  BY <1>1, <1>3, NothingWritten DEF WriteArray

\* A number comes at the next offset aligned to its size.
LEMMA PutItem ==
    ASSUME TypeInv, ItemsInv, NEW size \in Nat \ {0}, NEW n \in Nat,
           NEW item, item = Item(size, size, n)
    PROVE  /\ item \in ItemType /\ off <= item.at
           /\ item.at = Aligned(off, size) /\ item.size = size /\ item.n = n
           /\ End(item) = Aligned(off, size) + size
<1>1. off \in Nat /\ Aligned(off, size) \in Nat /\ off <= Aligned(off, size)
  BY AlignedForward DEF TypeInv
<1> QED
  BY <1>1 DEF Item, ItemType, End

LEMMA WriteBasicStep ==
    ASSUME TypeInv, ItemsInv, WriteBasic
    PROVE  WriterStep
<1> DEFINE m == Now.member
           item == Item(m.size, m.size, 0)
<1>1. /\ Todo("write") /\ m.type = "basic" /\ m.shape = "one"
      /\ phase' = "write" /\ todo' = Tail(todo)
      /\ items' = Append(items, item) /\ off' = End(item)
      /\ UNCHANGED <<layout, lim, pos, out>>
  BY DEF WriteBasic, Is, Goto, Put
<1>2. /\ phase = "write" /\ todo # <<>> /\ Tail(todo) \in Seq(WriteTask)
      /\ items \in Seq(ItemType) /\ off \in Nat /\ m.size \in Nat \ {0}
  BY <1>1, WriteNow DEF MessageMember
<1>3. /\ item \in ItemType /\ off <= item.at
      /\ item.at = Aligned(off, m.size) /\ item.size = m.size
      /\ End(item) = Aligned(off, m.size) + m.size
  BY <1>2, PutItem
<1> HIDE DEF item
<1>4. /\ items' \in Seq(ItemType) /\ Len(items') = Len(items) + 1
      /\ off' \in Nat /\ off <= off' /\ Packed(items', off') /\ Grows(items, items')
      /\ ItemAt(items', Len(items) + 1, item.at, item.size)
  <2>1. Packed(items, off) /\ items' = Append(items, item) /\ off' = End(item)
    BY <1>1 DEF ItemsInv
  <2>2. /\ items' \in Seq(ItemType) /\ Len(items') = Len(items) + 1
        /\ End(item) \in Nat /\ off <= End(item) /\ Packed(items', End(item))
        /\ Grows(items, items')
        /\ ItemAt(items', Len(items) + 1, item.at, item.size)
    BY <1>2, <1>3, <2>1, AppendItem
  <2> QED
    BY <2>1, <2>2
<1>5. /\ Mark'.off = off' /\ Mark'.written = Len(items') /\ Mark'.toread = ToRead(Tail(todo))
      /\ Mark.off = off /\ Mark.written = Len(items)
  BY <1>1 DEF Mark
<1>6. WroteBasic(items', Mark, Mark', m, ToRead(Tail(todo)))
  <2> HIDE DEF m
  <2> QED
    BY <1>1, <1>3, <1>4, <1>5 DEF WroteBasic
<1> QED
  BY <1>1, <1>2, <1>4, <1>6 DEF WriterStep, WroteMember

LEMMA WriteSequenceStep ==
    ASSUME TypeInv, ItemsInv, WriteSequence
    PROVE  WriterStep
<1> DEFINE m == Now.member
           n == IF Now.field.json = "list" THEN Len(Now.field.elements) ELSE 0
           item == Item(4, 4, n)
           more == Elements(m, Now.field, n)
<1>1. /\ Todo("write") /\ m.type \in {"basic", "string", "message"} /\ m.shape = "sequence"
      /\ phase' = "write" /\ todo' = more \o Tail(todo)
      /\ items' = Append(items, item) /\ off' = End(item)
      /\ UNCHANGED <<layout, lim, pos, out>>
  BY DEF WriteSequence, Is, Goto, Put
<1>2. /\ phase = "write" /\ todo # <<>> /\ Tail(todo) \in Seq(WriteTask)
      /\ items \in Seq(ItemType) /\ off \in Nat /\ m \in MessageMember /\ Now.field \in Json
  BY <1>1, WriteNow
<1>3. n \in Nat
  <2>1. CASE Now.field.json = "list"
    <3>1. Now.field.elements \in Seq(Json)
      BY <1>2, <2>1, JsonAssumption
    <3> QED
      BY <2>1, <3>1
  <2> QED
    BY <2>1
<1> HIDE DEF n
<1>4. /\ item \in ItemType /\ off <= item.at /\ item.n = n
      /\ item.at = Aligned(off, 4) /\ item.size = 4
      /\ End(item) = Aligned(off, 4) + 4
  BY <1>3, PutItem
<1> HIDE DEF item
<1>5. /\ items' \in Seq(ItemType) /\ Len(items') = Len(items) + 1
      /\ off' \in Nat /\ off <= off' /\ Packed(items', off') /\ Grows(items, items')
      /\ ItemAt(items', Len(items) + 1, item.at, item.size)
      /\ items'[Len(items) + 1] = item
  <2>1. Packed(items, off) /\ items' = Append(items, item) /\ off' = End(item)
    BY <1>1 DEF ItemsInv
  <2>2. /\ items' \in Seq(ItemType) /\ Len(items') = Len(items) + 1
        /\ End(item) \in Nat /\ off <= End(item) /\ Packed(items', End(item))
        /\ Grows(items, items')
        /\ ItemAt(items', Len(items) + 1, item.at, item.size)
        /\ items'[Len(items) + 1] = item
    <3>1. items \in Seq(ItemType) /\ off \in Nat /\ item \in ItemType /\ off <= item.at
      BY <1>2, <1>4
    <3> QED
      BY <2>1, <3>1, AppendItem
  <2> QED
    BY <2>1, <2>2
<1>6. more \in Seq(WriteTask) /\ ToRead(more) = Repeat(m, n)
  BY <1>2, <1>3, TaskLists, ToReadLists
<1> HIDE DEF more, m
<1>7. /\ todo' \in Seq(WriteTask)
      /\ ToRead(todo') = Repeat(m, n) \o ToRead(Tail(todo))
  BY <1>1, <1>2, <1>6, ConcatProperties, ToReadConcat
<1>8. /\ Mark'.off = off' /\ Mark'.written = Len(items') /\ Mark'.toread = ToRead(todo')
      /\ Mark.off = off /\ Mark.written = Len(items)
  BY DEF Mark
<1>9. WroteSequence(items', Mark, Mark', m, ToRead(Tail(todo)))
  BY <1>1, <1>4, <1>5, <1>7, <1>8 DEF WroteSequence
<1> QED
  BY <1>1, <1>2, <1>5, <1>7, <1>9 DEF WriterStep, WroteMember, m

LEMMA WriteStringStep ==
    ASSUME TypeInv, ItemsInv, WriteString
    PROVE  WriterStep
<1> DEFINE m == Now.member
           sz == (IF Now.field.json = "value" THEN Now.field.n ELSE 0) + 1
           len == Item(4, 4, sz)
           chars == [at |-> End(len), size |-> sz, n |-> 0]
           once == Append(items, len)
<1>1. /\ Todo("write") /\ m.type = "string" /\ m.shape = "one"
      /\ phase' = "write" /\ todo' = Tail(todo)
      /\ items' = items \o <<len, chars>> /\ off' = End(chars)
      /\ UNCHANGED <<layout, lim, pos, out>>
  BY DEF WriteString, Is, Goto
<1>2. /\ phase = "write" /\ todo # <<>> /\ Tail(todo) \in Seq(WriteTask)
      /\ items \in Seq(ItemType) /\ off \in Nat /\ Now.field \in Json
  BY <1>1, WriteNow
<1>3. sz \in Nat \ {0}
  BY <1>2, JsonAssumption
<1> HIDE DEF sz
<1>4. /\ len \in ItemType /\ off <= len.at /\ len.n = sz
      /\ len.at = Aligned(off, 4) /\ len.size = 4
      /\ End(len) = Aligned(off, 4) + 4
  BY <1>3, PutItem
<1> HIDE DEF len
<1>5. /\ once \in Seq(ItemType) /\ Len(once) = Len(items) + 1
      /\ End(len) \in Nat /\ off <= End(len) /\ Packed(once, End(len)) /\ Grows(items, once)
      /\ ItemAt(once, Len(items) + 1, len.at, len.size)
      /\ once[Len(items) + 1] = len
  <2>1. Packed(items, off) /\ once = Append(items, len)
    BY DEF ItemsInv
  <2>2. items \in Seq(ItemType) /\ off \in Nat /\ len \in ItemType /\ off <= len.at
    BY <1>2, <1>4
  <2> HIDE DEF once, chars
  <2> QED
    BY <2>1, <2>2, AppendItem
<1>6. /\ chars \in ItemType /\ chars.at = End(len) /\ chars.size = sz
      /\ End(chars) = End(len) + sz
  BY <1>3, <1>5 DEF ItemType, End
<1> HIDE DEF chars
<1>7. items' = Append(once, chars)
  BY <1>1, <1>2, <1>4, <1>6
<1> HIDE DEF once
<1>8. /\ items' \in Seq(ItemType) /\ Len(items') = Len(once) + 1
      /\ off' \in Nat /\ End(len) <= off' /\ Packed(items', off') /\ Grows(once, items')
      /\ ItemAt(items', Len(once) + 1, chars.at, chars.size)
  <2>1. End(len) <= chars.at /\ off' = End(chars)
    BY <1>1, <1>5, <1>6
  <2>2. /\ items' \in Seq(ItemType) /\ Len(items') = Len(once) + 1
        /\ End(chars) \in Nat /\ End(len) <= End(chars) /\ Packed(items', End(chars))
        /\ Grows(once, items')
        /\ ItemAt(items', Len(once) + 1, chars.at, chars.size)
    <3>1. /\ once \in Seq(ItemType) /\ End(len) \in Nat /\ Packed(once, End(len))
          /\ chars \in ItemType /\ items' = Append(once, chars) /\ End(len) <= chars.at
      BY <1>5, <1>6, <1>7, <2>1
    <3> QED
      BY <3>1, AppendItem
  <2> QED
    BY <2>1, <2>2
<1>9. Grows(items, items') /\ off <= off'
  BY <1>2, <1>5, <1>8, GrowsTwice
<1>10. /\ ItemAt(items', Len(items) + 1, len.at, len.size)
       /\ items'[Len(items) + 1] = len
       /\ ItemAt(items', Len(items) + 2, chars.at, chars.size)
       /\ Len(items') = Len(items) + 2
  <2>1. Len(once) + 1 = Len(items) + 2
    BY <1>2, <1>5
  <2> QED
    BY <1>5, <1>8, <2>1 DEF Grows, ItemAt
<1>11. /\ Mark'.off = off' /\ Mark'.written = Len(items') /\ Mark'.toread = ToRead(Tail(todo))
       /\ Mark.off = off /\ Mark.written = Len(items)
  BY <1>1 DEF Mark
<1>12. WroteString(items', Mark, Mark', m, ToRead(Tail(todo)))
  <2> HIDE DEF m
  <2>1. /\ ItemAt(items', Mark.written + 1, Aligned(Mark.off, 4), 4)
        /\ ItemAt(items', Mark.written + 2, Aligned(Mark.off, 4) + 4, sz)
        /\ items'[Mark.written + 1].n = sz
    BY <1>4, <1>6, <1>10, <1>11
  <2>2. Mark'.off = Aligned(Mark.off, 4) + 4 + sz /\ Mark'.written = Mark.written + 2
    BY <1>1, <1>4, <1>6, <1>10, <1>11
  <2> QED
    BY <1>1, <1>11, <2>1, <2>2 DEF WroteString
<1> QED
  BY <1>1, <1>2, <1>8, <1>9, <1>12 DEF WriterStep, WroteMember

\* A step of the writer adds its mark to the others.
LEMMA WriterMarks ==
    ASSUME TypeInv, MarksInv, WriterStep, marks' = Append(marks, Mark')
    PROVE  marks' \in Seq(MarkType) /\ MarksInv'
<1>1. /\ phase = "write" /\ todo # <<>> /\ phase' = "write" /\ layout' = layout
      /\ todo \in Seq(WriteTask) /\ todo' \in Seq(WriteTask) /\ items' \in Seq(ItemType)
      /\ off' \in Nat
  BY DEF WriterStep, TypeInv
<1>2. Mark' \in MarkType
  <2>1. ToRead(todo') \in Seq(MemberTask)
    BY <1>1, ToReadType
  <2> QED
    BY <1>1, <2>1 DEF Mark, MarkType
<1>3. /\ marks \in Seq(MarkType) /\ marks' \in Seq(MarkType)
      /\ Len(marks') = Len(marks) + 1 /\ Len(marks) \in Nat /\ Len(marks) > 0
      /\ \A j \in 1 .. Len(marks) : marks'[j] = marks[j]
      /\ marks'[Len(marks) + 1] = Mark'
  <2>1. marks \in Seq(MarkType) /\ marks # <<>>
    BY DEF TypeInv, MarksInv
  <2> HIDE DEF Mark
  <2>2. Len(marks) \in Nat /\ Len(marks) > 0
    BY <2>1, EmptySeq
  <2> QED
    BY <1>2, <2>1, <2>2, AppendProperties
<1>4. Wrote(items', Mark, Mark')
  <2>1. /\ Mark.toread # <<>> /\ Head(Mark.toread).member = Now.member
        /\ Tail(Mark.toread) = ToRead(Tail(todo))
    BY <1>1, ToReadFirst DEF Mark, Now
  <2>2. WroteMember(items', Mark, Mark', Now.member, ToRead(Tail(todo)))
    BY DEF WriterStep
  <2> QED
    BY <2>1, <2>2 DEF Wrote
<1>5. ASSUME NEW j \in 1 .. Len(marks') - 1
      PROVE  Wrote(items', marks'[j], marks'[j + 1])
  <2>1. CASE j < Len(marks)
    <3>1. j \in 1 .. Len(marks) - 1 /\ marks'[j] = marks[j] /\ marks'[j + 1] = marks[j + 1]
      BY <1>3, <2>1
    <3>2. Wrote(items, marks[j], marks[j + 1]) /\ Grows(items, items')
      BY <3>1 DEF MarksInv, WriterStep
    <3>3. Wrote(items', marks[j], marks[j + 1])
      BY <3>2, WroteGrows
    <3> QED
      BY <3>1, <3>3
  <2>2. CASE j = Len(marks)
    <3>1. marks'[j] = Mark /\ marks'[j + 1] = Mark'
      BY <1>1, <1>3, <2>2 DEF MarksInv
    <3> QED
      BY <1>4, <3>1
  <2> QED
    BY <1>3, <2>1, <2>2
<1>6. marks' # <<>> /\ marks'[1] = marks[1]
  BY <1>3
<1>7. marks'[Len(marks')] = Mark'
  BY <1>3
<1> QED
  BY <1>1, <1>3, <1>5, <1>6, <1>7 DEF MarksInv, Reading

LEMMA WriterKeeps ==
    ASSUME CdrInv, WriterStep, marks' = Append(marks, Mark')
    PROVE  CdrInv'
<1>1. /\ TypeInv /\ MarksInv
      /\ phase' = "write" /\ phase' \notin Reading /\ layout' = layout
      /\ todo' \in Seq(WriteTask) /\ items' \in Seq(ItemType) /\ off' \in Nat
  BY DEF CdrInv, WriterStep, Reading
<1>2. /\ pos' = 0 /\ lim' = 0 /\ out' = <<>>
  <2>1. phase \notin Reading
    BY DEF WriterStep, Reading
  <2> QED
    BY <2>1 DEF CdrInv, ReadInv, WriterStep
<1>3. marks' \in Seq(MarkType) /\ MarksInv'
  BY <1>1, WriterMarks
<1>4. out' \in Seq(Nat) /\ DOMAIN out' = {}
  BY <1>2
<1>5. TypeInv'
  BY <1>1, <1>2, <1>3, <1>4 DEF TypeInv
<1>6. ItemsInv'
  BY DEF WriterStep, ItemsInv
<1>7. InBounds'
  BY <1>2, <1>4 DEF InBounds
<1>8. ReadInv'
  BY <1>1, <1>2, <1>4 DEF ReadInv, Reading
<1>9. RoundTrip'
  BY <1>1 DEF RoundTrip
<1> QED
  BY <1>3, <1>5, <1>6, <1>7, <1>8, <1>9 DEF CdrInv

LEMMA WriteKeeps ==
    ASSUME CdrInv, Write
    PROVE  CdrInv'
<1>1. TypeInv /\ ItemsInv
  BY DEF CdrInv
<1>2. WriterStep
  BY <1>1, WriteDummyStep, WriteBasicStep, WriteStringStep, WriteMessageStep, WriteArrayStep,
     WriteSequenceStep DEF Write
<1>3. marks' = Append(marks, Mark')
  BY DEF Write
<1> QED
  BY <1>2, <1>3, WriterKeeps

LEMMA WriteThrowsKeeps ==
    ASSUME CdrInv, WriteThrows, marks' = marks
    PROVE  CdrInv'
<1>1. /\ phase = "write" /\ phase' = "bad" /\ phase \notin Reading /\ phase' \notin Reading
      /\ UNCHANGED <<layout, items, off, lim, pos, out, marks>>
  BY DEF WriteThrows, Todo, Goto, Reading
<1>2. pos = 0 /\ lim = 0 /\ out = <<>>
  BY <1>1 DEF CdrInv, ReadInv
<1>3. TypeInv'
  BY <1>1 DEF CdrInv, TypeInv, Reading
<1>4. ItemsInv'
  BY <1>1 DEF CdrInv, ItemsInv
<1>5. MarksInv'
  BY <1>1 DEF CdrInv, MarksInv, Reading
<1>6. InBounds'
  BY <1>1 DEF CdrInv, InBounds
<1>7. ReadInv'
  BY <1>1, <1>2 DEF CdrInv, ReadInv, HasEmpty, Reading
<1>8. RoundTrip'
  BY <1>1 DEF RoundTrip
<1> QED
  BY <1>3, <1>4, <1>5, <1>6, <1>7, <1>8 DEF CdrInv

-----------------------------------------------------------------------------
(* The reader starts *)

\* A reader starts with what is to be read at the first mark.
LEMMA FromTheStart ==
    ASSUME TypeInv
    PROVE  /\ [i \in DOMAIN layout |-> Task(layout[i], Null)] = Fields(layout, Null)
           /\ Fields(layout, Null) \in Seq(MemberTask)
<1>1. \A i : Found(Null, i) = Null
  BY NullIsJson DEF Found
<1>2. Fields(layout, Null) \in Seq(MemberTask)
  BY FieldLists, NullIsJson DEF TypeInv
<1> QED
  BY <1>1, <1>2 DEF Fields

LEMMA TransmitKeeps ==
    ASSUME CdrInv, Transmit, marks' = marks
    PROVE  CdrInv'
<1>1. /\ phase = "write" /\ todo = <<>> /\ phase' = "read" /\ phase \notin Reading
      /\ phase' \in Reading
      /\ todo' = Fields(layout, Null) /\ todo' \in Seq(MemberTask)
      /\ lim' \in 0 .. off
      /\ UNCHANGED <<layout, items, off, pos, out, marks>>
  BY FromTheStart DEF CdrInv, Transmit, Goto, Reading
<1>2. /\ pos' = 0 /\ out' = <<>>
      /\ off \in Nat /\ lim' \in Nat /\ lim' <= off
  BY <1>1 DEF CdrInv, TypeInv, ReadInv
<1>3. DOMAIN out' = {} /\ Len(out') = 0
  BY <1>2
<1>4. TypeInv'
  <2>1. todo' \in Seq(MemberTask \cup CharsTask)
    BY <1>1
  <2> QED
    BY <1>1, <1>2, <2>1 DEF CdrInv, TypeInv, Reading
<1>5. ItemsInv'
  BY <1>1 DEF CdrInv, ItemsInv
<1>6. MarksInv'
  <2>1. MarksInv /\ marks[Len(marks)] = Mark
    BY <1>1 DEF CdrInv, MarksInv
  <2>2. ToRead(todo) = <<>>
    <3>1. todo \in Seq(WriteTask) /\ Len(todo) = 0
      BY <1>1
    <3> QED
      BY <3>1, ToReadType, EmptySeq
  <2>3. marks[Len(marks)] = [toread |-> <<>>, off |-> off, written |-> Len(items)]
    BY <2>1, <2>2 DEF Mark
  <2> QED
    BY <1>1, <2>1, <2>3 DEF MarksInv
<1>7. InBounds'
  BY <1>2, <1>3 DEF InBounds
<1>8. ReadInv'
  <2>1. 1 \in DOMAIN marks' /\ AtMark(marks[1])'
    <3>1. /\ marks[1] = [toread |-> Fields(layout, Null), off |-> 0, written |-> 0]
          /\ marks # <<>> /\ marks \in Seq(MarkType)
      BY DEF CdrInv, MarksInv, TypeInv
    <3>2. 1 \in DOMAIN marks
      BY <3>1
    <3> QED
      BY <1>1, <1>2, <1>3, <3>1, <3>2 DEF AtMark
  <2> QED
    BY <1>1, <1>2, <1>3, <2>1 DEF ReadInv
<1>9. RoundTrip'
  BY <1>1 DEF RoundTrip
<1> QED
  BY <1>4, <1>5, <1>6, <1>7, <1>8, <1>9 DEF CdrInv

LEMMA CdrInit ==
    ASSUME Init
    PROVE  CdrInv
<1> PICK message \in Messages : layout = message[1] /\ todo = Fields(message[1], message[2])
  BY DEF Init
<1>1. layout \in Layouts /\ message[2] \in Json
  BY MessagesAssumption
<1>2. /\ phase = "write" /\ items = <<>> /\ off = 0 /\ lim = 0 /\ pos = 0 /\ out = <<>>
      /\ marks = <<Mark>> /\ phase \notin Reading
  BY DEF Init, Reading
<1>3. todo \in Seq(WriteTask) /\ ToRead(todo) = Fields(layout, Null)
  BY <1>1, FieldLists, ToReadLists
<1>4. Mark \in MarkType /\ Mark = [toread |-> Fields(layout, Null), off |-> 0, written |-> 0]
  <2>1. ToRead(todo) \in Seq(MemberTask)
    BY <1>3, ToReadType
  <2>2. Len(items) = 0
    BY <1>2
  <2> QED
    BY <1>2, <1>3, <2>1, <2>2 DEF Mark, MarkType
<1>5. items \in Seq(ItemType) /\ DOMAIN items = {} /\ out \in Seq(Nat) /\ DOMAIN out = {}
  BY <1>2
<1>6. marks \in Seq(MarkType) /\ Len(marks) = 1 /\ marks[1] = Mark /\ marks # <<>>
  BY <1>2, <1>4
<1>7. TypeInv
  BY <1>1, <1>2, <1>3, <1>5, <1>6 DEF TypeInv, Reading
<1>8. ItemsInv
  BY <1>5 DEF ItemsInv, Packed
<1>9. MarksInv
  BY <1>2, <1>4, <1>6 DEF MarksInv
<1>10. InBounds
  BY <1>2, <1>5 DEF InBounds
<1>11. ReadInv
  BY <1>2, <1>5 DEF ReadInv, Reading
<1>12. RoundTrip
  BY <1>2 DEF RoundTrip
<1> QED
  BY <1>7, <1>8, <1>9, <1>10, <1>11, <1>12 DEF CdrInv

-----------------------------------------------------------------------------
(* What the reader leaves alone, and where it stops *)

\* The member to read and the ones after it.
LEMMA ReadNow ==
    ASSUME TypeInv, Todo("read")
    PROVE  /\ Now \in MemberTask \cup CharsTask
           /\ Now.member.type # "chars" => Now.member \in MessageMember
           /\ Now.member.size \in Nat
           /\ Tail(todo) \in Seq(MemberTask \cup CharsTask)
<1>1. todo # <<>> /\ todo \in Seq(MemberTask \cup CharsTask)
  BY DEF TypeInv, Todo
<1>2. Now \in MemberTask \cup CharsTask /\ Tail(todo) \in Seq(MemberTask \cup CharsTask)
  BY <1>1, HeadTailProperties DEF Now
<1> QED
  BY <1>2 DEF MemberTask, CharsTask, MessageMember

LEMMA CharsType ==
    ASSUME NEW n \in Nat
    PROVE  /\ Chars(n) \in Seq(CharsTask) /\ Chars(n) # <<>>
           /\ Head(Chars(n)).member.type = "chars" /\ Head(Chars(n)).member.size = n
           /\ Len(Chars(n)) = 1
BY DEF Chars, CharsTask, Task

LEMMA RemainsType ==
    ASSUME NEW n \in Nat, Now.member \in MessageMember
    PROVE  Remains(n) \in Seq(MemberTask \cup CharsTask)
<1>1. Chars(n) \in Seq(MemberTask \cup CharsTask)
  BY DEF Chars, CharsTask, Task
<1>2. Repeat(Now.member, n) \in Seq(MemberTask \cup CharsTask)
  <2>1. Repeat(Now.member, n) \in Seq(MemberTask)
    BY TaskLists, NullIsJson
  <2> QED
    BY <2>1
<1>3. <<>> \in Seq(MemberTask \cup CharsTask)
  OBVIOUS
<1> QED
  BY <1>1, <1>2, <1>3 DEF Remains, Is

\* What a step of the reader keeps, in step with the writer or not.
Kept ==
    /\ phase' \in Reading
    /\ phase' = "read" => todo' \in Seq(MemberTask \cup CharsTask)
    /\ pos' \in Nat /\ pos' <= lim
    /\ out' \in Seq(Nat)
    /\ \A i \in DOMAIN out' : out'[i] \in DOMAIN items /\ End(items[out'[i]]) <= lim
    /\ UNCHANGED <<layout, items, off, lim>>

\* An item within what arrived is read.
LEMMA OneMoreRead ==
    ASSUME TypeInv, InBounds, NEW k \in DOMAIN items, End(items[k]) <= lim,
           out' = Append(out, k)
    PROVE  /\ out' \in Seq(Nat)
           /\ \A i \in DOMAIN out' : out'[i] \in DOMAIN items /\ End(items[out'[i]]) <= lim
           /\ Len(out') = Len(out) + 1
<1>1. out \in Seq(Nat) /\ k \in Nat
  BY DEF TypeInv
<1>2. /\ out' \in Seq(Nat) /\ Len(out') = Len(out) + 1
      /\ DOMAIN out' = 1 .. Len(out) + 1 /\ DOMAIN out = 1 .. Len(out) /\ Len(out) \in Nat
      /\ \A i \in 1 .. Len(out) : out'[i] = out[i]
      /\ out'[Len(out) + 1] = k
  BY <1>1, AppendProperties, LenProperties
<1>3. \A i \in 1 .. Len(out) : out[i] \in DOMAIN items /\ End(items[out[i]]) <= lim
  BY <1>2 DEF TypeInv, InBounds
<1>4. ASSUME NEW i \in 1 .. Len(out) + 1
      PROVE  out'[i] \in DOMAIN items /\ End(items[out'[i]]) <= lim
  <2>1. CASE i \in 1 .. Len(out)
    BY <1>2, <1>3, <2>1
  <2>2. CASE i = Len(out) + 1
    BY <1>2, <2>2
  <2> QED
    BY <1>2, <2>1, <2>2
<1> QED
  BY <1>2, <1>4

\* An item that is there and fits ends within what arrived.
LEMMA WrittenFits ==
    ASSUME TypeInv, NEW at \in Nat, NEW size \in Nat, Fits(at, size), NEW k \in Written(at, size)
    PROVE  /\ k \in DOMAIN items /\ items[k].n \in Nat
           /\ End(items[k]) <= lim /\ at + size \in Nat /\ at + size <= lim
<1>1. k \in DOMAIN items /\ items[k].at = at /\ items[k].size = size
  BY DEF Written
<1>2. items[k].n \in Nat
  <2>1. items[k] \in ItemType
    BY <1>1 DEF TypeInv
  <2> QED
    BY <2>1 DEF ItemType
<1>3. at + size <= lim
  BY DEF Fits, TypeInv
<1> QED
  BY <1>1, <1>2, <1>3 DEF End

\* A step that reads no number, and does not go on reading at another place.
LEMMA NothingRead ==
    ASSUME TypeInv, InBounds, phase' \in Reading,
           phase' = "read" => todo' \in Seq(MemberTask \cup CharsTask),
           UNCHANGED <<layout, items, off, lim, pos, out>>
    PROVE  Kept
BY DEF Kept, TypeInv, InBounds

LEMMA ReadKept ==
    ASSUME TypeInv, InBounds, Todo("read"), Now.member \in MessageMember,
           NEW size \in Nat \ {0}, Read(size)
    PROVE  Kept
<1> DEFINE at == Aligned(pos, size)
<1>1. at \in Nat
  BY AlignedForward DEF TypeInv
<1>2. UNCHANGED <<layout, items, off, lim>>
  BY DEF Read
<1>3. CASE phase' \in {"invalid", "garbled"} /\ UNCHANGED <<pos, out>>
  BY <1>2, <1>3, NothingRead DEF Reading
<1>4. CASE /\ Fits(at, size)
           /\ \E k \in Written(at, size) :
                 /\ out' = Append(out, k)
                 /\ pos' = at + size
                 /\ Goto("read", Remains(items[k].n) \o Tail(todo))
  <2> HIDE DEF at
  <2> PICK k \in Written(at, size) : /\ out' = Append(out, k)
                                     /\ pos' = at + size
                                     /\ Goto("read", Remains(items[k].n) \o Tail(todo))
    BY <1>4
  <2>1. /\ k \in DOMAIN items /\ items[k].n \in Nat
        /\ End(items[k]) <= lim /\ at + size \in Nat /\ at + size <= lim
    BY <1>1, <1>4, WrittenFits
  <2>2. /\ out' \in Seq(Nat)
        /\ \A i \in DOMAIN out' : out'[i] \in DOMAIN items /\ End(items[out'[i]]) <= lim
    BY <2>1, OneMoreRead
  <2>3. phase' = "read" /\ todo' \in Seq(MemberTask \cup CharsTask)
    <3>1. /\ Remains(items[k].n) \in Seq(MemberTask \cup CharsTask)
          /\ Tail(todo) \in Seq(MemberTask \cup CharsTask)
      BY <2>1, RemainsType, ReadNow
    <3>2. phase' = "read" /\ todo' = Remains(items[k].n) \o Tail(todo)
      BY DEF Goto
    <3> QED
      BY <3>1, <3>2, ConcatProperties
  <2> QED
    BY <1>2, <2>1, <2>2, <2>3 DEF Kept, Reading
<1> QED
  BY <1>3, <1>4 DEF Read, Goto

LEMMA ReadItKept ==
    ASSUME TypeInv, InBounds, ReadIt
    PROVE  Kept /\ phase = "read"
<1>1. CASE ReadBasic
  <2>1. Todo("read") /\ Now.member.type # "chars" /\ Read(Now.member.size)
    BY <1>1 DEF ReadBasic, Is
  <2>2. Now.member \in MessageMember /\ Now.member.size \in Nat \ {0}
    BY <2>1, ReadNow DEF MessageMember
  <2> QED
    BY <2>1, <2>2, ReadKept DEF Todo
<1>2. CASE ReadLength
  <2>1. Todo("read") /\ Now.member.type # "chars" /\ Read(4)
    BY <1>2 DEF ReadLength, Is
  <2>2. Now.member \in MessageMember
    BY <2>1, ReadNow
  <2> QED
    BY <2>1, <2>2, ReadKept DEF Todo
<1>3. CASE ReadChars
  <2> DEFINE size == Now.member.size
  <2>1. /\ Todo("read") /\ phase = "read" /\ UNCHANGED <<layout, items, off, lim>>
    BY <1>3 DEF ReadChars, Todo
  <2>2. size \in Nat /\ Tail(todo) \in Seq(MemberTask \cup CharsTask) /\ pos \in Nat
    BY <2>1, ReadNow DEF TypeInv
  <2>3. CASE Fits(pos, size)
    <3>1. /\ \E k \in Written(pos, size) : out' = Append(out, k)
          /\ pos' = pos + size /\ phase' = "read" /\ todo' = Tail(todo)
      BY <1>3, <2>3 DEF ReadChars, Goto
    <3> HIDE DEF size
    <3> PICK k \in Written(pos, size) : out' = Append(out, k)
      BY <3>1
    <3>2. /\ k \in DOMAIN items /\ End(items[k]) <= lim
          /\ pos + size \in Nat /\ pos + size <= lim
      BY <2>2, <2>3, WrittenFits
    <3>3. /\ out' \in Seq(Nat)
          /\ \A i \in DOMAIN out' : out'[i] \in DOMAIN items /\ End(items[out'[i]]) <= lim
      BY <3>2, OneMoreRead
    <3> QED
      BY <2>1, <2>2, <3>1, <3>2, <3>3 DEF Kept, Reading
  <2>4. CASE ~Fits(pos, size)
    <3>1. phase' = "invalid" /\ UNCHANGED <<pos, out>>
      BY <1>3, <2>4 DEF ReadChars, Goto
    <3> QED
      BY <2>1, <3>1, NothingRead DEF Reading
  <2> QED
    BY <2>3, <2>4
<1>4. CASE ReadMessage
  <2>1. /\ Todo("read") /\ phase = "read" /\ phase' = "read"
        /\ Now.member.type # "chars" /\ UNCHANGED <<layout, items, off, lim, pos, out>>
    BY <1>4 DEF ReadMessage, Todo, Is, Goto
  <2>2. Now.member \in MessageMember /\ Tail(todo) \in Seq(MemberTask \cup CharsTask)
    BY <2>1, ReadNow
  <2>3. \E more \in Seq(MemberTask) : todo' = more \o Tail(todo)
    <3>1. CASE Is({"message"}, {"one"}) /\ todo' = Fields(Now.member.sub, Null) \o Tail(todo)
      <4>1. Now.member.sub \in Layouts
        BY <2>2, <3>1 DEF MessageMember, Is
      <4>2. Fields(Now.member.sub, Null) \in Seq(MemberTask)
        BY <4>1, FieldLists, NullIsJson
      <4> QED
        BY <3>1, <4>2
    <3>2. CASE todo' = Repeat(Now.member, ArraySize) \o Tail(todo)
      <4>1. Repeat(Now.member, ArraySize) \in Seq(MemberTask)
        BY <2>2, TaskLists, NullIsJson, ArraySizeAssumption
      <4> QED
        BY <3>2, <4>1
    <3> QED
      BY <1>4, <3>1, <3>2 DEF ReadMessage, Goto
  <2>4. todo' \in Seq(MemberTask \cup CharsTask)
    <3> PICK more \in Seq(MemberTask) : todo' = more \o Tail(todo)
      BY <2>3
    <3>1. more \in Seq(MemberTask \cup CharsTask)
      OBVIOUS
    <3> QED
      BY <2>2, <3>1, ConcatProperties
  <2> QED
    BY <2>1, <2>4, NothingRead DEF Reading
<1>5. CASE ReadDone
  BY <1>5, NothingRead DEF ReadDone, Reading
<1> QED
  BY <1>1, <1>2, <1>3, <1>4, <1>5 DEF ReadIt

-----------------------------------------------------------------------------
(* The reader goes from mark to mark *)

\* Where a reader in step with the writer may be, and how it may end.
InStep ==
    /\ \A i \in DOMAIN out : out[i] = i
    /\ phase = "read" => \E j \in DOMAIN marks : AtMark(marks[j]) \/ InString(marks[j])
    /\ phase # "garbled"
    /\ phase = "done" => out = [k \in DOMAIN items |-> k] /\ lim = off
    /\ phase = "invalid" => lim < off

\* After a mark where something is to be read comes another one.
LEMMA NextMark ==
    ASSUME TypeInv, MarksInv, phase = "read", NEW j \in DOMAIN marks, marks[j].toread # <<>>
    PROVE  /\ j + 1 \in DOMAIN marks
           /\ Wrote(items, marks[j], marks[j + 1])
           /\ marks[j] \in MarkType /\ marks[j + 1] \in MarkType
<1>1. marks \in Seq(MarkType) /\ DOMAIN marks = 1 .. Len(marks) /\ Len(marks) \in Nat
  BY DEF TypeInv
<1>2. j # Len(marks)
  BY DEF MarksInv, Reading
<1>3. j \in 1 .. Len(marks) - 1 /\ j + 1 \in 1 .. Len(marks)
  BY <1>1, <1>2
<1> QED
  BY <1>1, <1>3 DEF MarksInv

\* The next item in its place is read, unless what arrived ends before it.
LEMMA NextItem ==
    ASSUME TypeInv, ItemsInv, InBounds, NEW at \in Nat, NEW size \in Nat,
           ItemAt(items, Len(out) + 1, at, size),
           \A i \in DOMAIN out : out[i] = i
    PROVE  /\ Written(at, size) = {Len(out) + 1}
           /\ ~Fits(at, size) => lim < off
           /\ out' = Append(out, Len(out) + 1) =>
                 /\ \A i \in DOMAIN out' : out'[i] = i
                 /\ Len(out') = Len(out) + 1
<1>1. Written(at, size) = {Len(out) + 1} /\ at + size <= off
  BY OneItem
<1>2. ~Fits(at, size) => lim < off
  BY <1>1 DEF Fits, TypeInv
<1>3. out \in Seq(Nat) /\ Len(out) + 1 \in Nat
  BY DEF TypeInv
<1>4. ASSUME out' = Append(out, Len(out) + 1)
      PROVE  (\A i \in DOMAIN out' : out'[i] = i) /\ Len(out') = Len(out) + 1
  <2>1. /\ DOMAIN out' = 1 .. Len(out) + 1 /\ DOMAIN out = 1 .. Len(out) /\ Len(out) \in Nat
        /\ \A i \in 1 .. Len(out) : out'[i] = out[i]
        /\ out'[Len(out) + 1] = Len(out) + 1
        /\ Len(out') = Len(out) + 1
    BY <1>3, <1>4, AppendProperties, LenProperties
  <2> QED
    BY <2>1
<1> QED
  BY <1>1, <1>2, <1>4

LEMMA NextNumber ==
    ASSUME TypeInv, ItemsInv, InBounds, NEW size \in Nat \ {0},
           ItemAt(items, Len(out) + 1, Aligned(pos, size), size),
           \A i \in DOMAIN out : out[i] = i,
           Read(size)
    PROVE  \/ phase' = "invalid" /\ lim < off /\ out' = out
           \/ /\ phase' = "read"
              /\ todo' = Remains(items[Len(out) + 1].n) \o Tail(todo)
              /\ pos' = Aligned(pos, size) + size
              /\ \A i \in DOMAIN out' : out'[i] = i
              /\ Len(out') = Len(out) + 1
<1> DEFINE at == Aligned(pos, size)
<1>1. at \in Nat
  BY AlignedForward DEF TypeInv
<1>2. \/ ~Fits(at, size) /\ phase' = "invalid" /\ out' = out
      \/ Fits(at, size) /\ Written(at, size) = {}
      \/ /\ Fits(at, size)
         /\ \E k \in Written(at, size) :
               /\ out' = Append(out, k)
               /\ pos' = at + size
               /\ phase' = "read" /\ todo' = Remains(items[k].n) \o Tail(todo)
  BY DEF Read, Goto
<1> HIDE DEF at
<1>3. /\ Written(at, size) = {Len(out) + 1}
      /\ ~Fits(at, size) => lim < off
      /\ out' = Append(out, Len(out) + 1) =>
            /\ \A i \in DOMAIN out' : out'[i] = i
            /\ Len(out') = Len(out) + 1
  <2>1. ItemAt(items, Len(out) + 1, at, size)
    BY DEF at
  <2> QED
    BY <1>1, <2>1, NextItem
<1> QED
  BY <1>2, <1>3 DEF at

\* Between the length and the characters of a string no number is read.
LEMMA AtMarkOrChars ==
    ASSUME TypeInv, Todo("read"), NEW a \in MarkType
    PROVE  /\ AtMark(a) => /\ a.toread # <<>>
                           /\ Head(a.toread).member = Now.member
                           /\ Tail(a.toread) = Tail(todo)
                           /\ Now.member \in MessageMember
           /\ InString(a) => /\ Now.member.type = "chars" /\ Now.member.shape = "one"
                             /\ Now.member.size = items[a.written + 1].n
                             /\ Tail(todo) = Tail(a.toread)
<1>1. todo # <<>>
  BY DEF Todo
<1>2. ASSUME AtMark(a)
      PROVE  /\ a.toread # <<>> /\ Head(a.toread).member = Now.member
             /\ Tail(a.toread) = Tail(todo) /\ Now.member \in MessageMember
  <2>1. a.toread # <<>> /\ Head(a.toread) = Now /\ Tail(a.toread) = Tail(todo)
    BY <1>1, <1>2 DEF AtMark, Now
  <2>2. a.toread \in Seq(MemberTask)
    BY DEF MarkType
  <2>3. Now \in MemberTask
    BY <2>1, <2>2, HeadTailProperties
  <2> QED
    BY <2>1, <2>3 DEF MemberTask
<1>3. ASSUME InString(a)
      PROVE  /\ Now.member.type = "chars" /\ Now.member.shape = "one"
             /\ Now.member.size = items[a.written + 1].n
             /\ Tail(todo) = Tail(a.toread)
  <2> DEFINE n == items[a.written + 1].n
  <2>1. todo = Chars(n) \o Tail(a.toread)
    BY <1>3 DEF InString
  <2>2. a.toread \in Seq(MemberTask) /\ a.toread # <<>>
    BY <1>3 DEF InString, MarkType
  <2>3. Tail(a.toread) \in Seq(MemberTask)
    BY <2>2, HeadTailProperties
  <2> HIDE DEF n
  <2> DEFINE c == Task([type |-> "chars", size |-> n, shape |-> "one", sub |-> <<>>], Null)
  <2>4. todo = <<c>> \o Tail(a.toread)
    BY <2>1 DEF Chars
  <2>5. c.member.type = "chars" /\ c.member.shape = "one" /\ c.member.size = n
    BY DEF Task
  <2> HIDE DEF c
  <2>6. Head(todo) = c /\ Tail(todo) = Tail(a.toread)
    BY <2>3, <2>4
  <2> QED
    BY <2>5, <2>6 DEF Now, n
<1> QED
  BY <1>2, <1>3

-----------------------------------------------------------------------------
(* The steps of a reader in step *)

ReaderAt(j) ==
    /\ CdrInv /\ ~HasEmpty /\ phase = "read" /\ j \in DOMAIN marks
    /\ UNCHANGED <<layout, items, off, lim, marks>>

LEMMA ReaderAtProperties ==
    ASSUME NEW j, ReaderAt(j)
    PROVE  /\ TypeInv /\ ItemsInv /\ InBounds /\ MarksInv
           /\ \A i \in DOMAIN out : out[i] = i
           /\ marks[j] \in MarkType
           /\ j \in DOMAIN marks /\ marks' = marks /\ items' = items /\ lim' = lim /\ off' = off
           /\ marks[j].toread # <<>> =>
                 /\ Head(marks[j].toread).member.type # "dummy"
                 /\ j + 1 \in DOMAIN marks
                 /\ Wrote(items, marks[j], marks[j + 1])
<1>1. TypeInv /\ ItemsInv /\ InBounds /\ MarksInv /\ \A i \in DOMAIN out : out[i] = i
  BY DEF ReaderAt, CdrInv, ReadInv
<1>2. marks[j] \in MarkType
  BY <1>1 DEF ReaderAt, TypeInv
<1>3. marks[j].toread # <<>> =>
         /\ Head(marks[j].toread).member.type # "dummy"
         /\ j + 1 \in DOMAIN marks
         /\ Wrote(items, marks[j], marks[j + 1])
  BY <1>1, NextMark DEF ReaderAt, HasEmpty
<1> QED
  BY <1>1, <1>2, <1>3 DEF ReaderAt

\* At the next mark, or at the end of what arrived.
LEMMA ToNextMark ==
    ASSUME NEW j, ReaderAt(j), marks[j].toread # <<>>,
           \/ phase' = "invalid" /\ lim < off /\ out' = out
           \/ /\ phase' = "read" /\ AtMark(marks[j + 1])'
              /\ \A i \in DOMAIN out' : out'[i] = i
    PROVE  InStep'
<1>1. j + 1 \in DOMAIN marks /\ marks' = marks /\ lim' = lim /\ off' = off
  BY ReaderAtProperties
<1>2. \A i \in DOMAIN out : out[i] = i
  BY ReaderAtProperties
<1>3. CASE phase' = "invalid" /\ lim < off /\ out' = out
  BY <1>1, <1>2, <1>3 DEF InStep
<1>4. CASE /\ phase' = "read" /\ AtMark(marks[j + 1])'
           /\ \A i \in DOMAIN out' : out'[i] = i
  BY <1>1, <1>4 DEF InStep
<1> QED
  BY <1>3, <1>4

LEMMA BasicInStep ==
    ASSUME NEW j, ReaderAt(j), AtMark(marks[j]), ReadBasic
    PROVE  InStep'
<1> DEFINE a == marks[j]
           b == marks[j + 1]
           m == Now.member
<1>1. /\ Todo("read") /\ m.type \in {"basic", "dummy"} /\ m.shape = "one" /\ Read(m.size)
  BY DEF ReadBasic, Is
<1>2. /\ TypeInv /\ ItemsInv /\ InBounds /\ \A i \in DOMAIN out : out[i] = i
      /\ a \in MarkType
  BY ReaderAtProperties
<1>3. /\ a.toread # <<>> /\ Head(a.toread).member = m
      /\ Tail(a.toread) = Tail(todo) /\ m \in MessageMember
  BY <1>1, <1>2, AtMarkOrChars
<1>4. m.type # "dummy" /\ WroteMember(items, a, b, m, Tail(todo)) /\ marks' = marks
  BY <1>3, ReaderAtProperties DEF Wrote
<1>5. pos = a.off /\ Len(out) = a.written
  BY DEF AtMark
<1>6. m.size \in Nat \ {0}
  BY <1>3 DEF MessageMember
<1> HIDE DEF a, b, m
<1>7. /\ ItemAt(items, Len(out) + 1, Aligned(pos, m.size), m.size)
      /\ b.off = Aligned(pos, m.size) + m.size
      /\ b.written = Len(out) + 1
      /\ b.toread = Tail(todo)
  BY <1>1, <1>4, <1>5 DEF WroteMember, WroteBasic, WroteString, WroteNothing, WroteSequence
<1>8. \/ phase' = "invalid" /\ lim < off /\ out' = out
      \/ /\ phase' = "read"
         /\ todo' = Remains(items[Len(out) + 1].n) \o Tail(todo)
         /\ pos' = Aligned(pos, m.size) + m.size
         /\ \A i \in DOMAIN out' : out'[i] = i
         /\ Len(out') = Len(out) + 1
  BY <1>1, <1>2, <1>6, <1>7, NextNumber
<1>9. Remains(items[Len(out) + 1].n) = <<>>
  BY <1>1, <1>4 DEF Remains, Is, m
<1>10. <<>> \o Tail(todo) = Tail(todo)
  BY <1>1, <1>2, ReadNow, ConcatEmptySeq
<1>11. \/ phase' = "invalid" /\ lim < off /\ out' = out
       \/ /\ phase' = "read" /\ AtMark(b)'
          /\ \A i \in DOMAIN out' : out'[i] = i
  <2>1. b' = b
    BY <1>4 DEF b
  <2> QED
    BY <1>7, <1>8, <1>9, <1>10, <2>1 DEF AtMark
<1> QED
  BY <1>3, <1>11, ToNextMark DEF a, b

LEMMA LengthInStep ==
    ASSUME NEW j, ReaderAt(j), AtMark(marks[j]), ReadLength
    PROVE  InStep'
<1> DEFINE a == marks[j]
           b == marks[j + 1]
           m == Now.member
<1>1. /\ Todo("read") /\ Read(4)
      /\ \/ m.type = "string" /\ m.shape = "one"
         \/ m.type \in {"basic", "string", "message"} /\ m.shape = "sequence"
  BY DEF ReadLength, Is
<1>2. /\ TypeInv /\ ItemsInv /\ InBounds /\ \A i \in DOMAIN out : out[i] = i
      /\ a \in MarkType /\ marks' = marks /\ items' = items /\ j \in DOMAIN marks
      /\ lim' = lim /\ off' = off
  BY ReaderAtProperties
<1>3. /\ a.toread # <<>> /\ Head(a.toread).member = m
      /\ Tail(a.toread) = Tail(todo) /\ m \in MessageMember
  BY <1>1, <1>2, AtMarkOrChars
<1>4. m.type # "dummy" /\ WroteMember(items, a, b, m, Tail(todo)) /\ j + 1 \in DOMAIN marks
  BY <1>3, ReaderAtProperties DEF Wrote
<1>5. pos = a.off /\ Len(out) = a.written
  BY DEF AtMark
<1>6. a' = a /\ b' = b
  BY <1>2
<1> HIDE DEF a, b, m
<1>7. WroteString(items, a, b, m, Tail(todo)) \/ WroteSequence(items, a, b, m, Tail(todo))
  BY <1>1, <1>4 DEF WroteMember, WroteBasic, WroteNothing
<1>8. ItemAt(items, Len(out) + 1, Aligned(pos, 4), 4)
  BY <1>5, <1>7 DEF WroteString, WroteSequence
<1>9. \/ phase' = "invalid" /\ lim < off /\ out' = out
      \/ /\ phase' = "read"
         /\ todo' = Remains(items[Len(out) + 1].n) \o Tail(todo)
         /\ pos' = Aligned(pos, 4) + 4
         /\ \A i \in DOMAIN out' : out'[i] = i
         /\ Len(out') = Len(out) + 1
  <2> DEFINE four == 4
  <2>1. four \in Nat \ {0} /\ Read(four)
    BY <1>1
  <2>2. ItemAt(items, Len(out) + 1, Aligned(pos, four), four)
    BY <1>8
  <2> HIDE DEF four
  <2>3. \/ phase' = "invalid" /\ lim < off /\ out' = out
        \/ /\ phase' = "read"
           /\ todo' = Remains(items[Len(out) + 1].n) \o Tail(todo)
           /\ pos' = Aligned(pos, four) + four
           /\ \A i \in DOMAIN out' : out'[i] = i
           /\ Len(out') = Len(out) + 1
    BY <1>2, <2>1, <2>2, NextNumber
  <2> QED
    BY <2>3 DEF four
<1>10. CASE phase' = "invalid"
  BY <1>2, <1>3, <1>9, <1>10, ToNextMark DEF a
<1>11. CASE phase' = "read" /\ m.type = "string" /\ m.shape = "one"
  <2>1. Remains(items[Len(out) + 1].n) = Chars(items[Len(out) + 1].n)
    BY <1>11 DEF Remains, Is, m
  <2>2. /\ a.written + 1 \in DOMAIN items
        /\ todo' = Chars(items[a.written + 1].n) \o Tail(a.toread)
        /\ pos' = Aligned(a.off, 4) + 4
        /\ Len(out') = a.written + 1
    BY <1>3, <1>5, <1>8, <1>9, <1>11, <2>1 DEF ItemAt
  <2>3. InString(a)'
    BY <1>2, <1>3, <1>6, <1>11, <2>2 DEF InString
  <2>4. InString(marks[j])' /\ j \in DOMAIN marks'
    BY <1>2, <2>3 DEF a
  <2> QED
    BY <1>9, <1>11, <2>4 DEF InStep
<1>12. CASE phase' = "read" /\ m.shape = "sequence"
  <2>1. WroteSequence(items, a, b, m, Tail(todo))
    BY <1>7, <1>12 DEF WroteString
  <2>2. Remains(items[Len(out) + 1].n) = Repeat(m, items[Len(out) + 1].n)
    BY <1>12 DEF Remains, Is, m
  <2>3. todo' = b.toread /\ pos' = b.off /\ Len(out') = b.written
    BY <1>5, <1>9, <1>12, <2>1, <2>2 DEF WroteSequence
  <2>4. AtMark(b)'
    BY <1>6, <2>3 DEF AtMark
  <2> QED
    BY <1>3, <1>9, <1>12, <2>4, ToNextMark DEF a, b
<1> QED
  BY <1>1, <1>9, <1>10, <1>11, <1>12 DEF m

LEMMA CharsInStep ==
    ASSUME NEW j, ReaderAt(j), InString(marks[j]), ReadChars
    PROVE  InStep'
<1> DEFINE a == marks[j]
           b == marks[j + 1]
           n == items[a.written + 1].n
           size == Now.member.size
<1>1. Todo("read")
  BY DEF ReadChars
<1>2. /\ TypeInv /\ ItemsInv /\ InBounds /\ \A i \in DOMAIN out : out[i] = i
      /\ a \in MarkType /\ marks' = marks
  BY ReaderAtProperties
<1>3. /\ a.toread # <<>> /\ Head(a.toread).member.type = "string"
      /\ Head(a.toread).member.shape = "one"
      /\ pos = Aligned(a.off, 4) + 4 /\ Len(out) = a.written + 1
  BY DEF InString
<1>4. size = n /\ Tail(todo) = Tail(a.toread)
  BY <1>1, <1>2, AtMarkOrChars
<1>5. /\ WroteMember(items, a, b, Head(a.toread).member, Tail(a.toread))
  BY <1>3, ReaderAtProperties DEF Wrote
<1>6. \/ /\ Fits(pos, size)
         /\ \E k \in Written(pos, size) : out' = Append(out, k)
         /\ pos' = pos + size
         /\ phase' = "read" /\ todo' = Tail(todo)
      \/ ~Fits(pos, size) /\ phase' = "invalid" /\ out' = out
  BY DEF ReadChars, Goto
<1>7. size \in Nat /\ pos \in Nat
  BY <1>1, <1>2, ReadNow DEF TypeInv
<1>8. a.written \in Nat
  BY <1>2 DEF MarkType
<1>9. b' = b
  BY <1>2
<1> HIDE DEF a, b, n, size
<1>10. /\ ItemAt(items, Len(out) + 1, pos, size)
       /\ b.off = pos + size
       /\ b.written = Len(out) + 1
       /\ b.toread = Tail(todo)
  <2> DEFINE m == Head(a.toread).member
             rest == Tail(a.toread)
  <2>1. m.type = "string" /\ m.shape = "one" /\ WroteMember(items, a, b, m, rest)
    BY <1>3, <1>5
  <2> HIDE DEF m, rest
  <2>2. WroteString(items, a, b, m, rest)
    BY <2>1 DEF WroteMember, WroteBasic, WroteNothing, WroteSequence
  <2>3. a.written + 2 = (a.written + 1) + 1
    BY <1>8
  <2> QED
    BY <1>3, <1>4, <2>2, <2>3 DEF WroteString, n, rest
<1>11. /\ Written(pos, size) = {Len(out) + 1}
       /\ ~Fits(pos, size) => lim < off
       /\ out' = Append(out, Len(out) + 1) =>
             /\ \A i \in DOMAIN out' : out'[i] = i
             /\ Len(out') = Len(out) + 1
  BY <1>2, <1>7, <1>10, NextItem
<1>12. \/ phase' = "invalid" /\ lim < off /\ out' = out
       \/ /\ phase' = "read" /\ AtMark(b)'
          /\ \A i \in DOMAIN out' : out'[i] = i
  BY <1>6, <1>9, <1>10, <1>11 DEF AtMark
<1> QED
  BY <1>3, <1>12, ToNextMark DEF a, b

LEMMA MessageInStep ==
    ASSUME NEW j, ReaderAt(j), AtMark(marks[j]), ReadMessage
    PROVE  InStep'
<1> DEFINE a == marks[j]
           b == marks[j + 1]
           m == Now.member
<1>1. /\ Todo("read") /\ phase' = "read" /\ pos' = pos /\ out' = out
      /\ \/ /\ m.type = "message" /\ m.shape = "one"
            /\ todo' = Fields(m.sub, Null) \o Tail(todo)
         \/ /\ m.type \in {"basic", "string", "message"} /\ m.shape = "array"
            /\ todo' = Repeat(m, ArraySize) \o Tail(todo)
  BY DEF ReadMessage, Is, Goto
<1>2. /\ TypeInv /\ \A i \in DOMAIN out : out[i] = i
      /\ a \in MarkType /\ marks' = marks
  BY ReaderAtProperties
<1>3. /\ a.toread # <<>> /\ Head(a.toread).member = m
      /\ Tail(a.toread) = Tail(todo)
  BY <1>1, <1>2, AtMarkOrChars
<1>4. m.type # "dummy" /\ WroteMember(items, a, b, m, Tail(todo))
  BY <1>3, ReaderAtProperties DEF Wrote
<1>5. pos = a.off /\ Len(out) = a.written
  BY DEF AtMark
<1>6. b' = b
  BY <1>2
<1> HIDE DEF a, b, m
<1>7. todo' = b.toread /\ b.off = a.off /\ b.written = a.written
  BY <1>1, <1>4 DEF WroteMember, WroteBasic, WroteString, WroteNothing, WroteSequence
<1>8. AtMark(b)'
  BY <1>1, <1>5, <1>6, <1>7 DEF AtMark
<1> QED
  BY <1>1, <1>2, <1>3, <1>8, ToNextMark DEF a, b

\* A reader that has nothing left to read is at the end of what was written.
LEMMA DoneInStep ==
    ASSUME NEW j, ReaderAt(j), AtMark(marks[j]) \/ InString(marks[j]), ReadDone
    PROVE  InStep'
<1>1. /\ todo = <<>> /\ phase' = "done" /\ UNCHANGED <<layout, todo, items, off, lim, pos, out>>
      /\ phase = "read"
  BY DEF ReadDone
<1>2. /\ TypeInv /\ ItemsInv /\ InBounds /\ MarksInv /\ \A i \in DOMAIN out : out[i] = i
      /\ marks[j] \in MarkType /\ j \in DOMAIN marks /\ lim <= off
  BY ReaderAtProperties DEF ReaderAt, CdrInv, ReadInv
<1>3. AtMark(marks[j])
  <2>1. ASSUME InString(marks[j])
        PROVE  FALSE
    <3>1. todo = Chars(items[marks[j].written + 1].n) \o Tail(marks[j].toread)
      BY <2>1 DEF InString
    <3>2. Len(Chars(items[marks[j].written + 1].n)) = 1
      BY DEF Chars
    <3>3. marks[j].toread \in Seq(MemberTask) /\ marks[j].toread # <<>>
      BY <1>2, <2>1 DEF MarkType, InString
    <3>4. Tail(marks[j].toread) \in Seq(MemberTask)
      BY <3>3, HeadTailProperties
    <3> HIDE DEF Task
    <3>5. todo # <<>>
      BY <3>1, <3>4 DEF Chars
    <3> QED
      BY <1>1, <3>5
  <2> QED
    BY <2>1
<1>4. j = Len(marks)
  <2>1. marks[j].toread = <<>>
    BY <1>1, <1>3 DEF AtMark
  <2>2. ~Wrote(items, marks[j], marks[j + 1])
    BY <2>1 DEF Wrote
  <2>3. j \in 1 .. Len(marks) /\ Len(marks) \in Nat
    BY <1>2 DEF TypeInv
  <2> QED
    BY <1>2, <2>2, <2>3 DEF MarksInv
<1>5. marks[Len(marks)] = [toread |-> <<>>, off |-> off, written |-> Len(items)]
  BY <1>1, <1>2 DEF MarksInv, Reading
<1>6. pos = off /\ Len(out) = Len(items)
  BY <1>3, <1>4, <1>5 DEF AtMark
<1>7. lim = off
  BY <1>2, <1>6 DEF InBounds, TypeInv
<1>8. out = [k \in DOMAIN items |-> k]
  <2>1. out \in Seq(Nat) /\ items \in Seq(ItemType)
    BY <1>2 DEF TypeInv
  <2>2. DOMAIN out = DOMAIN items /\ out = [k \in DOMAIN out |-> out[k]]
    BY <1>6, <2>1
  <2> QED
    BY <1>2, <2>2
<1> QED
  BY <1>1, <1>2, <1>7, <1>8 DEF InStep

-----------------------------------------------------------------------------
(* Theorems *)

LEMMA ReadInStep ==
    ASSUME CdrInv, ReadIt, marks' = marks, ~HasEmpty
    PROVE  InStep'
<1>1. /\ TypeInv /\ InBounds
      /\ phase = "read" => \E j \in DOMAIN marks : AtMark(marks[j]) \/ InString(marks[j])
  BY DEF CdrInv, ReadInv
<1>2. phase = "read" /\ UNCHANGED <<layout, items, off, lim>>
  BY <1>1, ReadItKept DEF Kept
<1> PICK j \in DOMAIN marks : AtMark(marks[j]) \/ InString(marks[j])
  BY <1>1, <1>2
<1>3. ReaderAt(j)
  BY <1>2 DEF ReaderAt
<1>4. /\ ReadBasic \/ ReadLength \/ ReadMessage => Todo("read") /\ Now.member.type # "chars"
      /\ ReadChars => Todo("read") /\ Now.member.type = "chars"
  BY DEF ReadBasic, ReadLength, ReadMessage, ReadChars, Is
<1>5. marks[j] \in MarkType
  BY <1>3, ReaderAtProperties
<1>6. /\ ReadBasic \/ ReadLength \/ ReadMessage => AtMark(marks[j])
      /\ ReadChars => InString(marks[j])
  <2>1. Todo("read") /\ InString(marks[j]) => Now.member.type = "chars"
    BY <1>1, <1>5, AtMarkOrChars
  <2>2. Todo("read") /\ AtMark(marks[j]) => Now.member \in MessageMember
    BY <1>1, <1>5, AtMarkOrChars
  <2>3. Now.member \in MessageMember => Now.member.type # "chars"
    BY DEF MessageMember
  <2> QED
    BY <1>4, <2>1, <2>2, <2>3
<1> QED
  BY <1>3, <1>6, BasicInStep, LengthInStep, CharsInStep, MessageInStep, DoneInStep DEF ReadIt

LEMMA ReadKeeps ==
    ASSUME CdrInv, ReadIt, marks' = marks
    PROVE  CdrInv'
<1>1. /\ TypeInv /\ ItemsInv /\ MarksInv /\ InBounds /\ lim <= off
  BY DEF CdrInv, ReadInv
<1>2. Kept /\ phase = "read"
  BY <1>1, ReadItKept
<1>3. /\ phase' \in Reading /\ phase \in Reading /\ phase' # "write"
      /\ UNCHANGED <<layout, items, off, lim, marks>>
  BY <1>2 DEF Kept, Reading
<1>4. TypeInv'
  BY <1>1, <1>2, <1>3 DEF TypeInv, Kept
<1>5. ItemsInv'
  BY <1>1, <1>3 DEF ItemsInv
<1>6. MarksInv'
  BY <1>1, <1>3 DEF MarksInv
<1>7. InBounds'
  BY <1>2, <1>3 DEF Kept, InBounds
<1>8. HasEmpty' <=> HasEmpty
  BY DEF HasEmpty
<1>9. ~HasEmpty => InStep'
  BY ReadInStep
<1>10. ReadInv'
  BY <1>1, <1>3, <1>8, <1>9 DEF ReadInv, InStep
<1>11. RoundTrip'
  BY <1>8, <1>9 DEF RoundTrip, InStep
<1> QED
  BY <1>4, <1>5, <1>6, <1>7, <1>10, <1>11 DEF CdrInv

LEMMA CdrStep ==
    ASSUME CdrInv, [Next]_vars
    PROVE  CdrInv'
<1>1. CASE Write
  BY <1>1, WriteKeeps
<1>2. CASE WriteThrows /\ UNCHANGED marks
  BY <1>2, WriteThrowsKeeps
<1>3. CASE Transmit /\ UNCHANGED marks
  BY <1>3, TransmitKeeps
<1>4. CASE ReadIt /\ UNCHANGED marks
  BY <1>4, ReadKeeps
<1>5. CASE UNCHANGED vars
  <2>1. UNCHANGED <<layout, phase, todo, items, off, lim, pos, out, marks>>
    BY <1>5 DEF vars
  <2>2. TypeInv' /\ ItemsInv'
    BY <2>1 DEF CdrInv, TypeInv, ItemsInv
  <2>3. MarksInv'
    BY <2>1 DEF CdrInv, MarksInv, Mark
  <2>4. InBounds' /\ RoundTrip'
    BY <2>1 DEF CdrInv, InBounds, RoundTrip, HasEmpty
  <2>5. ReadInv'
    BY <2>1 DEF CdrInv, ReadInv, HasEmpty, AtMark, InString
  <2> QED
    BY <2>2, <2>3, <2>4, <2>5 DEF CdrInv
<1> QED
  BY <1>1, <1>2, <1>3, <1>4, <1>5 DEF Next

THEOREM CdrIsInvariant == Spec => []CdrInv
<1>1. Init => CdrInv
  BY CdrInit
<1>2. CdrInv /\ [Next]_vars => CdrInv'
  BY CdrStep
<1> QED
  BY <1>1, <1>2, PTL DEF Spec

\* What one client publishes another one reads, every value in its place: the
\* serialize and deserialize functions of translate.cpp and serdes.hpp agree on
\* the members, their order and their alignment for every message type that
\* holds no empty one; and every message that was cut short is noticed.
THEOREM AlwaysRoundTrip == Spec => []RoundTrip
<1>1. CdrInv => RoundTrip
  BY DEF CdrInv
<1> QED
  BY <1>1, CdrIsInvariant, PTL

\* cycdeser reads nothing past the end of what arrived, empty messages or not.
THEOREM AlwaysInBounds == Spec => []InBounds
<1>1. CdrInv => InBounds
  BY DEF CdrInv
<1> QED
  BY <1>1, CdrIsInvariant, PTL
=============================================================================
