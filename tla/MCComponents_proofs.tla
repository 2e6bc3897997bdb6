------------------------- MODULE MCComponents_proofs -------------------------
(***************************************************************************)
(* Theorems about the input line, the stream of a provider and the         *)
(* requests to it, one section each and for any values of their constants; *)
(* and then what the theorems about all components say of the              *)
(* specification that TLC runs, which takes the steps of one component     *)
(* while the others stay as they are.                                      *)
(***************************************************************************)
EXTENDS MCComponents, Components_proofs

(***************************************************************************)
(* The input line.                                                         *)
(***************************************************************************)

Triggers == {"none", "Slash", "Agent", "File", "Model", "SwitchAgent"}

\* What a list offers, a later Enter puts in the line.
Offered ==
  /\ list.trigger \in Triggers
  /\ (list.trigger = "none") <=> (list.items = {})
  /\ list.trigger = "Slash" => list.items \subseteq SlashCommand
  /\ list.trigger = "Agent" => list.items \subseteq Known
  /\ list.trigger = "File" => list.items \subseteq File

\* What a turn that begins has been asked.
Asked == (asked # NoTurn => busy) /\ TurnGetsItsLine

LineInv ==
  /\ input \in Seq(Byte) /\ loading \in BOOLEAN /\ busy \in BOOLEAN
  /\ OnBoundary(input, 0) /\ OnBoundary(input, cursor)
  /\ Offered /\ Asked

LEMMA NothingAsked ==
  ASSUME asked' = NoTurn
  PROVE  Asked'
  BY DEF Asked, TurnGetsItsLine

\* A part of a text.
LEMMA SliceProperties ==
  ASSUME NEW text \in Seq(Byte), NEW from \in 0 .. Len(text), NEW to \in from .. Len(text)
  PROVE  /\ Slice(text, from, to) \in Seq(Byte)
         /\ Len(Slice(text, from, to)) = to - from
         /\ \A i \in 1 .. to - from : Slice(text, from, to)[i] = text[from + i]
<1>1. Len(text) \in Nat /\ from \in Int /\ to \in Int /\ from + 1 \in Int
  OBVIOUS
<1>2. \A i \in from + 1 .. to : text[i] \in Byte
  BY <1>1
<1>3. /\ SubSeq(text, from + 1, to) \in Seq(Byte)
      /\ Len(SubSeq(text, from + 1, to)) = IF from + 1 <= to THEN to - (from + 1) + 1 ELSE 0
      /\ \A i \in 1 .. to - (from + 1) + 1 : SubSeq(text, from + 1, to)[i] = text[from + 1 + i - 1]
  BY <1>1, <1>2, SubSeqProperties
<1>4. (IF from + 1 <= to THEN to - (from + 1) + 1 ELSE 0) = to - from /\ to - (from + 1) + 1 = to - from
  BY <1>1
<1>5. \A i \in 1 .. to - from : from + 1 + i - 1 = from + i
  BY <1>1
<1>6. QED
  BY <1>3, <1>4, <1>5 DEF Slice

\* Both parts of a text that is cut between characters begin with one.
LEMMA CutOnBoundary ==
  ASSUME NEW text \in Seq(Byte), NEW pos, OnBoundary(text, 0), OnBoundary(text, pos)
  PROVE  /\ pos \in 0 .. Len(text)
         /\ Slice(text, 0, pos) \in Seq(Byte) /\ Len(Slice(text, 0, pos)) = pos
         /\ OnBoundary(Slice(text, 0, pos), 0)
         /\ Slice(text, pos, Len(text)) \in Seq(Byte)
         /\ OnBoundary(Slice(text, pos, Len(text)), 0)
<1>1. pos \in 0 .. Len(text) /\ Len(text) \in Nat /\ 0 \in 0 .. Len(text) /\ pos \in 0 .. Len(text)
  BY DEF OnBoundary
<1>2. /\ Slice(text, 0, pos) \in Seq(Byte) /\ Len(Slice(text, 0, pos)) = pos - 0
      /\ \A i \in 1 .. pos - 0 : Slice(text, 0, pos)[i] = text[0 + i]
  BY <1>1, SliceProperties
<1>3. Len(text) \in pos .. Len(text)
  BY <1>1
<1>4. /\ Slice(text, pos, Len(text)) \in Seq(Byte)
      /\ Len(Slice(text, pos, Len(text))) = Len(text) - pos
      /\ \A i \in 1 .. Len(text) - pos : Slice(text, pos, Len(text))[i] = text[pos + i]
  BY <1>1, <1>3, SliceProperties
<1>5. OnBoundary(Slice(text, 0, pos), 0)
  <2>1. SUFFICES ASSUME 0 < pos PROVE Slice(text, 0, pos)[0 + 1] # "w2"
    BY <1>1, <1>2 DEF OnBoundary, ByteAt
  <2>2. Slice(text, 0, pos)[1] = text[1]
    BY <1>1, <1>2, <2>1
  <2>3. QED
    BY <1>1, <2>1, <2>2 DEF OnBoundary, ByteAt
<1>6. OnBoundary(Slice(text, pos, Len(text)), 0)
  <2>1. SUFFICES ASSUME pos < Len(text) PROVE Slice(text, pos, Len(text))[0 + 1] # "w2"
    BY <1>1, <1>4 DEF OnBoundary, ByteAt
  <2>2. Slice(text, pos, Len(text))[1] = text[pos + 1]
    BY <1>1, <1>4, <2>1
  <2>3. QED
    BY <1>1, <2>1, <2>2 DEF OnBoundary, ByteAt
<1>7. QED
  BY <1>1, <1>2, <1>4, <1>5, <1>6

\* Two texts that begin with a character, one after the other.
LEMMA JoinOnBoundary ==
  ASSUME NEW a \in Seq(Byte), NEW b \in Seq(Byte), OnBoundary(a, 0), OnBoundary(b, 0)
  PROVE  /\ a \o b \in Seq(Byte) /\ Len(a \o b) = Len(a) + Len(b)
         /\ OnBoundary(a \o b, 0) /\ OnBoundary(a \o b, Len(a))
<1>1. Len(a) \in Nat /\ Len(b) \in Nat
  OBVIOUS
<1>2. /\ a \o b \in Seq(Byte) /\ Len(a \o b) = Len(a) + Len(b)
      /\ \A i \in 1 .. Len(a) + Len(b) : (a \o b)[i] = IF i <= Len(a) THEN a[i] ELSE b[i - Len(a)]
  BY ConcatProperties
<1>3. OnBoundary(a \o b, 0)
  <2>1. SUFFICES ASSUME 0 < Len(a) + Len(b) PROVE (a \o b)[0 + 1] # "w2"
    BY <1>1, <1>2 DEF OnBoundary, ByteAt
  <2>2. (a \o b)[1] = IF 1 <= Len(a) THEN a[1] ELSE b[1 - Len(a)]
    BY <1>1, <1>2, <2>1
  <2>3. CASE 1 <= Len(a)
    BY <1>1, <2>2, <2>3 DEF OnBoundary, ByteAt
  <2>4. CASE Len(a) = 0
    BY <1>1, <2>1, <2>2, <2>4 DEF OnBoundary, ByteAt
  <2>5. Len(a) = 0 \/ 1 <= Len(a)
    BY <1>1
  <2>6. QED
    BY <2>3, <2>4, <2>5
<1>4. OnBoundary(a \o b, Len(a))
  <2>1. SUFFICES ASSUME 0 < Len(b) PROVE (a \o b)[Len(a) + 1] # "w2"
    BY <1>1, <1>2 DEF OnBoundary, ByteAt
  <2>2. Len(a) + 1 \in 1 .. Len(a) + Len(b) /\ ~ (Len(a) + 1 <= Len(a)) /\ Len(a) + 1 - Len(a) = 1
    BY <1>1, <2>1
  <2>3. (a \o b)[Len(a) + 1] = b[1]
    BY <1>2, <2>2
  <2>4. QED
    BY <1>1, <2>1, <2>3 DEF OnBoundary, ByteAt
<1>5. QED
  BY <1>2, <1>3, <1>4

\* A set of numbers up to n that is not empty has its extremes.
LEMMA Extremes ==
  ASSUME NEW n \in Nat, NEW S, S \subseteq 0 .. n, S # {}
  PROVE  /\ Min(S) \in S /\ \A y \in S : Min(S) <= y
         /\ Max(S) \in S /\ \A y \in S : Max(S) >= y
<1>1. S \subseteq Nat
  OBVIOUS
<1>2. PICK x \in S : \A y \in S : x <= y
  BY <1>1, LeastNumber
<1>3. Min(S) \in S /\ \A y \in S : Min(S) <= y
  BY <1>2 DEF Min
<1> DEFINE T == {z \in 0 .. n : n - z \in S}
<1>4. T \subseteq Nat /\ T # {}
  <2>1. PICK s \in S : TRUE
    OBVIOUS
  <2>2. s \in 0 .. n
    OBVIOUS
  <2>3. n - s \in 0 .. n /\ n - (n - s) = s
    BY <2>2
  <2>4. n - s \in T
    BY <2>1, <2>3
  <2>5. T \subseteq Nat
    OBVIOUS
  <2> HIDE DEF T
  <2>6. QED
    BY <2>4, <2>5
<1>5. PICK x2 \in T : \A y \in T : x2 <= y
  BY <1>4, LeastNumber
<1>6. n - x2 \in S /\ x2 \in 0 .. n
  BY <1>5
<1>7. ASSUME NEW y \in S PROVE n - x2 >= y
  <2>1. y \in 0 .. n
    OBVIOUS
  <2>2. n - y \in 0 .. n /\ n - (n - y) = y
    BY <2>1
  <2>3. n - y \in T
    BY <2>2
  <2>4. x2 <= n - y
    BY <1>5, <2>3
  <2>5. QED
    BY <1>6, <2>1, <2>4
<1>8. Max(S) \in S /\ \A y \in S : Max(S) >= y
  <2> HIDE DEF T
  <2>1. QED
    BY <1>6, <1>7 DEF Max
<1>9. QED
  BY <1>3, <1>8

\* The characters next to a position, and the end of a mention, are found.
LEMMA BeforeIsBoundary ==
  ASSUME NEW text \in Seq(Byte), NEW pos \in 1 .. Len(text), OnBoundary(text, 0)
  PROVE  OnBoundary(text, Before(text, pos)) /\ Before(text, pos) < pos
<1> DEFINE S == {n \in 0 .. pos - 1 : OnBoundary(text, n)}
<1>1. pos - 1 \in Nat /\ 0 \in S /\ S \subseteq 0 .. pos - 1
  OBVIOUS
<1>2. Before(text, pos) = Max(S)
  BY DEF Before
<1> HIDE DEF S
<1>3. Max(S) \in S
  BY <1>1, Extremes
<1>4. QED
  BY <1>2, <1>3 DEF S

LEMMA AfterIsBoundary ==
  ASSUME NEW text \in Seq(Byte), NEW pos \in 0 .. Len(text), pos < Len(text)
  PROVE  OnBoundary(text, After(text, pos)) /\ pos < After(text, pos)
<1> DEFINE S == {n \in pos + 1 .. Len(text) : OnBoundary(text, n)}
<1>1. Len(text) \in Nat /\ Len(text) \in S /\ S \subseteq 0 .. Len(text)
  BY DEF OnBoundary
<1>2. After(text, pos) = Min(S)
  BY DEF After
<1> HIDE DEF S
<1>3. Min(S) \in S
  BY <1>1, Extremes
<1>4. QED
  BY <1>2, <1>3 DEF S

LEMMA MentionEndIsBoundary ==
  ASSUME NEW text \in Seq(Byte), NEW from \in 0 .. Len(text)
  PROVE  /\ OnBoundary(text, MentionEnd(text, from)) /\ MentionEnd(text, from) \in from .. Len(text)
         /\ \A n \in from .. MentionEnd(text, from) - 1 : ByteAt(text, n) # Space
<1> DEFINE S == {n \in from .. Len(text) - 1 : ByteAt(text, n) = Space} \cup {Len(text)}
<1>1. Len(text) \in Nat /\ Len(text) \in S /\ S \subseteq 0 .. Len(text)
  OBVIOUS
<1>2. MentionEnd(text, from) = Min(S)
  BY DEF MentionEnd
<1>3. ASSUME NEW n \in S
      PROVE  n \in from .. Len(text) /\ OnBoundary(text, n)
  <2>1. CASE n = Len(text)
    BY <1>1, <2>1 DEF OnBoundary
  <2>2. CASE n \in from .. Len(text) - 1 /\ ByteAt(text, n) = Space
    <3>1. n \in from .. Len(text) /\ n \in 0 .. Len(text)
      BY <1>1, <2>2
    <3>2. ByteAt(text, n) # "w2"
      BY <2>2 DEF Space
    <3>3. QED
      BY <3>1, <3>2 DEF OnBoundary
  <2>3. QED
    BY <2>1, <2>2
<1>4. \A n \in from .. Len(text) - 1 : ByteAt(text, n) = Space => n \in S
  OBVIOUS
<1> HIDE DEF S
<1>5. Min(S) \in S /\ \A y \in S : Min(S) <= y
  BY <1>1, Extremes
<1>6. Min(S) \in from .. Len(text)
  BY <1>3, <1>5
<1>7. ASSUME NEW n \in from .. Min(S) - 1
      PROVE  ByteAt(text, n) # Space
  <2>1. n \in from .. Len(text) - 1 /\ ~ (Min(S) <= n)
    BY <1>1, <1>6
  <2>2. QED
    BY <1>4, <1>5, <2>1
<1>8. QED
  BY <1>2, <1>3, <1>5, <1>6, <1>7

LEMMA ActiveMentionIsBoundary ==
  ASSUME NEW text, NEW pos, NEW start \in ActiveMention(text, pos)
  PROVE  start \in Mentions(text) /\ OnBoundary(text, start)
<1>1. start \in Mentions(text)
  BY DEF ActiveMention
<1>2. QED
  BY <1>1 DEF Mentions, OnBoundary

LEMMA SuggestedList ==
  ASSUME NEW text, NEW pos, NEW l, l = Suggested(text, pos)
  PROVE  /\ l.trigger \in Triggers /\ ((l.trigger = "none") <=> (l.items = {}))
         /\ l.trigger = "Slash" => l.items \subseteq SlashCommand
         /\ l.trigger = "Agent" => l.items \subseteq Known
         /\ l.trigger = "File" => l.items \subseteq File
<1> DEFINE typed == {Slice(text, start, pos) : start \in ActiveMention(text, pos)}
           commands == {c \in SlashCommand : text # <<>> /\ text[1] = "/" /\ ContainsText(c, text)}
           agents == {a \in Known : \E t \in typed : StartsWith(a, t)}
           files == {f \in File : \E t \in typed : ContainsText(f, Tail(t))}
<1>1. commands \subseteq SlashCommand /\ agents \subseteq Known /\ files \subseteq File
  OBVIOUS
<1>2. l = CASE commands # {} -> [trigger |-> "Slash", items |-> commands]
            [] commands = {} /\ agents # {} -> [trigger |-> "Agent", items |-> agents]
            [] commands = {} /\ agents = {} /\ files # {} -> [trigger |-> "File", items |-> files]
            [] OTHER -> NoList
  BY Zenon DEF Suggested
<1> HIDE DEF typed, commands, agents, files
<1>3. CASE commands # {}
  <2>1. l = [trigger |-> "Slash", items |-> commands]
    BY <1>2, <1>3, Zenon
  <2>2. QED
    BY <1>1, <1>3, <2>1 DEF Triggers
<1>4. CASE commands = {} /\ agents # {}
  <2>1. l = [trigger |-> "Agent", items |-> agents]
    BY <1>2, <1>4, Zenon
  <2>2. QED
    BY <1>1, <1>4, <2>1 DEF Triggers
<1>5. CASE commands = {} /\ agents = {} /\ files # {}
  <2>1. l = [trigger |-> "File", items |-> files]
    BY <1>2, <1>5, Zenon
  <2>2. QED
    BY <1>1, <1>5, <2>1 DEF Triggers
<1>6. CASE commands = {} /\ agents = {} /\ files = {}
  <2>1. l = NoList
    BY <1>2, <1>6, Zenon
  <2>2. QED
    BY <2>1 DEF NoList, Triggers
<1>7. QED
  BY <1>3, <1>4, <1>5, <1>6

\* A label is text that begins with a character.
LEMMA LabelText ==
  ASSUME NEW label, label \in SlashCommand \cup Known \cup File
  PROVE  /\ Append(label, Space) \in Seq(Byte) /\ Len(Append(label, Space)) = Len(label) + 1
         /\ Len(label) \in Nat
         /\ OnBoundary(Append(label, Space), 0)
         /\ label \in Seq(Byte) /\ OnBoundary(label, 0) /\ OnBoundary(label, Len(label))
<1>1. label \in Seq(Byte) /\ label # <<>> /\ label[1] # "w2"
  BY LineBounds DEF Labels
<1>2. Space \in Byte
  BY DEF Byte
<1>3. Len(label) \in Nat /\ Len(label) # 0
  BY <1>1
<1>4. /\ Append(label, Space) \in Seq(Byte) /\ Len(Append(label, Space)) = Len(label) + 1
      /\ Append(label, Space)[1] = label[1]
  BY <1>1, <1>2, <1>3
<1>5. QED
  BY <1>1, <1>3, <1>4 DEF OnBoundary, ByteAt

LEMMA EditKeeps ==
  ASSUME LineInv, NEW text \in Seq(Byte), NEW pos, Edit(text, pos),
         OnBoundary(text, 0), OnBoundary(text, pos)
  PROVE  LineInv'
<1>1. /\ input' = text /\ cursor' = pos /\ list' = Suggested(text, pos) /\ UNCHANGED <<loading, busy>>
      /\ Asked'
  BY NothingAsked DEF Edit
<1>2. /\ list'.trigger \in Triggers /\ ((list'.trigger = "none") <=> (list'.items = {}))
      /\ list'.trigger = "Slash" => list'.items \subseteq SlashCommand
      /\ list'.trigger = "Agent" => list'.items \subseteq Known
      /\ list'.trigger = "File" => list'.items \subseteq File
  BY <1>1, SuggestedList
<1>3. Offered'
  BY <1>2 DEF Offered
<1>4. QED
  BY <1>1, <1>3 DEF LineInv, OnBoundary, ByteAt

\* An empty line, and no list or one that offers no text for it.
LEMMA ClearedKeeps ==
  ASSUME LineInv, input' = <<>>, cursor' = 0, loading' \in BOOLEAN, busy' \in BOOLEAN,
         list' = NoList \/ list' = Agents, Asked'
  PROVE  LineInv'
<1>1. Offered'
  <2>1. CASE list' = NoList
    BY <2>1 DEF Offered, NoList, Triggers
  <2>2. CASE list' = Agents /\ list' # NoList
    <3>1. Explicit # {} /\ list' = [trigger |-> "SwitchAgent", items |-> Explicit]
      BY <2>2 DEF Agents
    <3>2. QED
      BY <3>1 DEF Offered, Triggers
  <2>3. QED
    BY <2>1, <2>2
<1>2. OnBoundary(<<>>, 0)
  BY DEF OnBoundary
<1>3. <<>> \in Seq(Byte)
  OBVIOUS
<1>4. QED
  BY <1>1, <1>2, <1>3 DEF LineInv, OnBoundary, ByteAt

\* The line as it is, the list closed.
LEMMA ClosedKeeps ==
  ASSUME LineInv, list' = NoList, asked' = NoTurn, UNCHANGED <<input, cursor, loading, busy>>
  PROVE  LineInv'
<1>1. Offered' /\ Asked'
  BY NothingAsked DEF Offered, NoList, Triggers
<1>2. QED
  BY <1>1 DEF LineInv, OnBoundary, ByteAt

LEMMA MoveKeeps ==
  ASSUME LineInv, NEW pos, MoveTo(pos), OnBoundary(input, pos)
  PROVE  LineInv'
<1>1. Asked'
  BY NothingAsked DEF MoveTo
<1>2. QED
  BY <1>1 DEF LineInv, Offered, MoveTo, OnBoundary, ByteAt

LEMMA TypeCharKeeps ==
  ASSUME LineInv, NEW c \in Char, TypeChar(c)
  PROVE  LineInv'
<1> DEFINE a == Slice(input, 0, cursor)
           b == Slice(input, cursor, Len(input))
<1>1. input \in Seq(Byte) /\ OnBoundary(input, 0) /\ OnBoundary(input, cursor)
  BY DEF LineInv
<1>2. /\ a \in Seq(Byte) /\ Len(a) = cursor /\ OnBoundary(a, 0)
      /\ b \in Seq(Byte) /\ OnBoundary(b, 0)
  BY <1>1, CutOnBoundary
<1>3. c \in Seq(Byte) /\ OnBoundary(c, 0)
  <2>1. c = WideLetter \/ \E b1 \in {Space, "@", "/", "a"} : c = <<b1>>
    BY DEF Char
  <2>2. /\ WideLetter \in Seq(Byte) /\ Len(WideLetter) = 2
        /\ WideLetter[1] # "w2"
    BY DEF WideLetter, Byte
  <2>3. ASSUME NEW b1 \in {Space, "@", "/", "a"}
        PROVE  <<b1>> \in Seq(Byte) /\ Len(<<b1>>) = 1 /\ <<b1>>[1] # "w2"
    <3>1. b1 \in Byte /\ b1 # "w2"
      BY DEF Byte, Space
    <3>2. QED
      BY <3>1
  <2>4. c \in Seq(Byte) /\ Len(c) \in Nat /\ c[1] # "w2"
    BY <2>1, <2>2, <2>3
  <2>5. QED
    BY <2>4 DEF OnBoundary, ByteAt
<1>4. Edit(a \o c \o b, cursor + Len(c))
  BY DEF TypeChar
<1> HIDE DEF a, b
<1>5. a \o c \in Seq(Byte) /\ Len(a \o c) = cursor + Len(c) /\ OnBoundary(a \o c, 0)
  BY <1>2, <1>3, JoinOnBoundary
<1>6. /\ a \o c \o b \in Seq(Byte) /\ OnBoundary(a \o c \o b, 0)
      /\ OnBoundary(a \o c \o b, cursor + Len(c))
  BY <1>2, <1>5, JoinOnBoundary
<1>7. QED
  BY <1>4, <1>6, EditKeeps

\* What is between two positions goes.
LEMMA CutKeeps ==
  ASSUME LineInv, NEW from, NEW to, OnBoundary(input, from), OnBoundary(input, to),
         Edit(Slice(input, 0, from) \o Slice(input, to, Len(input)), from)
  PROVE  LineInv'
<1> DEFINE a == Slice(input, 0, from)
           b == Slice(input, to, Len(input))
<1>1. input \in Seq(Byte) /\ OnBoundary(input, 0)
  BY DEF LineInv
<1>2. /\ a \in Seq(Byte) /\ Len(a) = from /\ OnBoundary(a, 0)
      /\ b \in Seq(Byte) /\ OnBoundary(b, 0)
  BY <1>1, CutOnBoundary
<1> HIDE DEF a, b
<1>3. a \o b \in Seq(Byte) /\ OnBoundary(a \o b, 0) /\ OnBoundary(a \o b, from)
  BY <1>2, JoinOnBoundary
<1>4. Edit(a \o b, from)
  BY DEF a, b
<1>5. QED
  BY <1>3, <1>4, EditKeeps

LEMMA TakeMentionKeeps ==
  ASSUME LineInv, NEW label \in list.items, TakeMention(label)
  PROVE  LineInv'
<1>1. input \in Seq(Byte) /\ OnBoundary(input, 0)
  BY DEF LineInv
<1>2. label \in Known \cup File
  BY DEF TakeMention, LineInv, Offered
<1>3. CASE ActiveMention(input, cursor) = {}
  BY <1>3, ClosedKeeps DEF TakeMention
<1>4. CASE ActiveMention(input, cursor) # {}
  <2> DEFINE new == Append(label, Space)
  <2>1. PICK start \in ActiveMention(input, cursor) :
          /\ input' = Slice(input, 0, start) \o new
                        \o Slice(input, MentionEnd(input, start), Len(input))
          /\ cursor' = start + Len(label) + 1
    BY <1>4 DEF TakeMention
  <2>2. start \in 0 .. Len(input) /\ OnBoundary(input, start)
    BY ActiveMentionIsBoundary DEF OnBoundary
  <2>3. OnBoundary(input, MentionEnd(input, start))
    BY <1>1, <2>2, MentionEndIsBoundary
  <2>4. /\ new \in Seq(Byte) /\ Len(new) = Len(label) + 1 /\ OnBoundary(new, 0)
        /\ Len(label) \in Nat
    BY <1>2, LabelText
  <2> DEFINE a == Slice(input, 0, start)
             b == Slice(input, MentionEnd(input, start), Len(input))
  <2>5. a \in Seq(Byte) /\ Len(a) = start /\ OnBoundary(a, 0)
    BY <1>1, <2>2, CutOnBoundary
  <2>6. b \in Seq(Byte) /\ OnBoundary(b, 0)
    BY <1>1, <2>3, CutOnBoundary
  <2>7. input' = a \o new \o b /\ cursor' = start + Len(label) + 1
    BY <2>1
  <2> HIDE DEF a, b, new
  <2>8. a \o new \in Seq(Byte) /\ Len(a \o new) = start + (Len(label) + 1) /\ OnBoundary(a \o new, 0)
    BY <2>4, <2>5, JoinOnBoundary
  <2>9. /\ a \o new \o b \in Seq(Byte) /\ OnBoundary(a \o new \o b, 0)
        /\ OnBoundary(a \o new \o b, start + (Len(label) + 1))
    BY <2>6, <2>8, JoinOnBoundary
  <2>10. start + (Len(label) + 1) = start + Len(label) + 1
    BY <2>2, <2>4
  <2>11. input' \in Seq(Byte) /\ OnBoundary(input, 0)' /\ OnBoundary(input, cursor)'
    BY <2>7, <2>9, <2>10 DEF OnBoundary, ByteAt
  <2>12. list' = NoList /\ Asked' /\ UNCHANGED <<loading, busy>>
    BY NothingAsked DEF TakeMention
  <2>13. Offered'
    BY <2>12 DEF Offered, NoList, Triggers
  <2>14. QED
    BY <2>11, <2>12, <2>13 DEF LineInv
<1>5. QED
  BY <1>3, <1>4

LEMMA TakeCommandKeeps ==
  ASSUME LineInv, NEW label \in list.items, TakeCommand(label)
  PROVE  LineInv'
<1>1. label \in SlashCommand
  BY DEF TakeCommand, LineInv, Offered
<1>2. /\ Append(label, Space) \in Seq(Byte) /\ Len(Append(label, Space)) = Len(label) + 1
      /\ OnBoundary(Append(label, Space), 0) /\ Len(label) + 1 \in Nat
  BY <1>1, LabelText
<1>3. /\ input' = Append(label, Space) /\ cursor' = Len(label) + 1
      /\ list' = NoList /\ Asked' /\ UNCHANGED <<loading, busy>>
  BY NothingAsked DEF TakeCommand
<1>4. Offered'
  BY <1>3 DEF Offered, NoList, Triggers
<1>5. OnBoundary(Append(label, Space), Len(label) + 1)
  BY <1>2 DEF OnBoundary
<1>6. QED
  BY <1>2, <1>3, <1>4, <1>5 DEF LineInv, OnBoundary, ByteAt

LEMMA FillCommandKeeps ==
  ASSUME LineInv, NEW label \in list.items, FillCommand(label)
  PROVE  LineInv'
<1>1. label \in SlashCommand
  BY DEF FillCommand, LineInv, Offered
<1>2. label \in Seq(Byte) /\ OnBoundary(label, 0) /\ OnBoundary(label, Len(label))
  BY <1>1, LabelText
<1>3. /\ input' = label /\ cursor' = Len(label)
      /\ list' = NoList /\ Asked' /\ UNCHANGED <<loading, busy>>
  BY NothingAsked DEF FillCommand
<1>4. Offered'
  BY <1>3 DEF Offered, NoList, Triggers
<1>5. QED
  BY <1>2, <1>3, <1>4 DEF LineInv, OnBoundary, ByteAt

------------------------------------------------------------------------------
(***************************************************************************)
(* What is submitted: the segments of a text are the text, and without the *)
(* agent what is around it.                                                *)
(***************************************************************************)

\* Sequences put together, one after the other.
LEMMA FlattenUnfolds ==
  ASSUME NEW n \in Nat \ {0}, NEW parts \in [1 .. n -> Seq(Byte)], NEW f,
         f[1] = parts[1], \A i \in 2 .. n : f[i] = f[i - 1] \o parts[i]
  PROVE  FlattenSeq(parts) = f[n]
<1> DEFINE unfold(g) == [i \in 1 .. n |-> IF i = 1 THEN parts[i] ELSE g[i - 1] \o parts[i]]
           h == [i \in 1 .. n |-> f[i]]
           flat == CHOOSE g : g = unfold(g)
<1>1. parts \in Seq(Seq(Byte)) /\ Len(parts) = n
  OBVIOUS
<1>2. FlattenSeq(parts) = flat[n]
  BY <1>1, Zenon DEF FlattenSeq
<1>3. h = unfold(h)
  <2>1. ASSUME NEW i \in 1 .. n
        PROVE  f[i] = IF i = 1 THEN parts[i] ELSE h[i - 1] \o parts[i]
    <3>1. CASE i = 1
      BY <3>1
    <3>2. CASE i # 1
      <4>1. i \in 2 .. n /\ i - 1 \in 1 .. n
        BY <3>2
      <4>2. f[i] = f[i - 1] \o parts[i] /\ h[i - 1] = f[i - 1]
        BY <4>1
      <4>3. QED
        BY <3>2, <4>2
    <3>3. QED
      BY <3>1, <3>2
  <2>2. QED
    BY <2>1
<1>4. flat = unfold(flat)
  <2> HIDE DEF unfold, h
  <2>1. QED
    BY <1>3, Zenon
<1> HIDE DEF flat
<1>5. \A i \in 1 .. n : flat[i] = IF i = 1 THEN parts[i] ELSE flat[i - 1] \o parts[i]
  BY <1>4, Zenon
<1> HIDE DEF unfold, h
<1> DEFINE S == {i \in 0 .. n : i = 0 \/ flat[i] = f[i]}
<1>6. 0 \in S
  OBVIOUS
<1>7. ASSUME NEW i \in Nat, i < n, i \in S
      PROVE  i + 1 \in S
  <2>1. i + 1 \in 1 .. n /\ (i + 1) - 1 = i /\ i + 1 \in 0 .. n
    BY <1>7
  <2>2. flat[i + 1] = IF i + 1 = 1 THEN parts[i + 1] ELSE flat[i] \o parts[i + 1]
    BY <1>5, <2>1
  <2>3. CASE i = 0
    BY <2>1, <2>2, <2>3
  <2>4. CASE i # 0
    <3>1. i + 1 # 1 /\ i + 1 \in 2 .. n /\ flat[i] = f[i]
      BY <1>7, <2>1, <2>4
    <3>2. f[i + 1] = f[i] \o parts[i + 1]
      BY <2>1, <3>1
    <3>3. QED
      BY <2>1, <2>2, <3>1, <3>2
  <2>5. QED
    BY <2>3, <2>4
<1> HIDE DEF S
<1>8. n \in S
  <2>1. \A i \in 0 .. n : i \in S
    BY <1>6, <1>7, SetInduction
  <2>2. QED
    BY <2>1
<1>9. QED
  BY <1>2, <1>8 DEF S

\* Two parts of a text that follow each other.
LEMMA SlicesJoin ==
  ASSUME NEW text \in Seq(Byte), NEW k \in 0 .. Len(text), NEW l \in k .. Len(text),
         NEW m \in l .. Len(text)
  PROVE  Slice(text, k, l) \o Slice(text, l, m) = Slice(text, k, m)
<1>1. Len(text) \in Nat /\ k + 1 \in 1 .. Len(text) + 1 /\ l \in (k + 1) - 1 .. Len(text)
  OBVIOUS
<1>2. SubSeq(text, k + 1, l) \o SubSeq(text, l + 1, m) = SubSeq(text, k + 1, m)
  BY <1>1, ConcatAdjacentSubSeq
<1>3. QED
  BY <1>2, Zenon DEF Slice

LEMMA JoinsRegroup ==
  ASSUME NEW u \in Seq(Byte), NEW v \in Seq(Byte), NEW w \in Seq(Byte)
  PROVE  (u \o v) \o w = u \o (v \o w)
  BY ConcatAssociative

LEMMA EmptySlice ==
  ASSUME NEW text \in Seq(Byte), NEW k \in 0 .. Len(text)
  PROVE  Slice(text, k, k) = <<>>
<1>1. Slice(text, k, k) \in Seq(Byte) /\ Len(Slice(text, k, k)) = 0
  BY SliceProperties
<1>2. QED
  BY <1>1

\* Ends of parts that follow each other are in order.
LEMMA EndsAscend ==
  ASSUME NEW n \in Nat, NEW m \in Nat, NEW ends \in [0 .. n -> 0 .. m],
         \A k \in 1 .. n : ends[k - 1] <= ends[k], NEW k \in 0 .. n
  PROVE  \A i \in k .. n : ends[k] <= ends[i]
<1> DEFINE S == {i \in 0 .. n : i < k \/ ends[k] <= ends[i]}
<1>1. 0 \in S
  OBVIOUS
<1>2. ASSUME NEW i \in Nat, i < n, i \in S
      PROVE  i + 1 \in S
  <2>1. i + 1 \in 1 .. n /\ (i + 1) - 1 = i /\ i + 1 \in 0 .. n /\ i \in 0 .. n
    BY <1>2
  <2>2. ends[i] <= ends[i + 1] /\ ends[i] \in Nat /\ ends[i + 1] \in Nat /\ ends[k] \in Nat
    BY <2>1
  <2>3. CASE i + 1 < k
    BY <2>1, <2>3
  <2>4. CASE i + 1 = k
    BY <2>1, <2>2, <2>4
  <2>5. CASE i + 1 > k
    BY <1>2, <2>1, <2>2, <2>5
  <2>6. QED
    BY <2>1, <2>3, <2>4, <2>5
<1> HIDE DEF S
<1>3. \A i \in 0 .. n : i \in S
  BY <1>1, <1>2, SetInduction
<1>4. QED
  BY <1>3 DEF S

\* Parts of a text that follow each other, put together: all of them, or all but the k-th.
LEMMA PartsMakeTheText ==
  ASSUME NEW text \in Seq(Byte), NEW n \in Nat \ {0}, NEW ends \in [0 .. n -> 0 .. Len(text)],
         ends[0] = 0, ends[n] = Len(text),
         \A k \in 1 .. n : ends[k - 1] <= ends[k],
         NEW parts, parts = [k \in 1 .. n |-> Slice(text, ends[k - 1], ends[k])]
  PROVE  FlattenSeq(parts) = text
<1> DEFINE f == [i \in 1 .. n |-> Slice(text, 0, ends[i])]
<1>1. ASSUME NEW k \in 1 .. n
      PROVE  /\ parts[k] \in Seq(Byte)
             /\ Slice(text, 0, ends[k]) = Slice(text, 0, ends[k - 1]) \o parts[k]
  <2>1. /\ 0 \in 0 .. Len(text) /\ ends[k - 1] \in 0 .. Len(text)
        /\ ends[k] \in ends[k - 1] .. Len(text) /\ parts[k] = Slice(text, ends[k - 1], ends[k])
    OBVIOUS
  <2>2. QED
    BY <2>1, SliceProperties, SlicesJoin
<1>2. parts \in [1 .. n -> Seq(Byte)]
  BY <1>1
<1>3. f[1] = parts[1]
  OBVIOUS
<1>4. ASSUME NEW i \in 2 .. n PROVE f[i] = f[i - 1] \o parts[i]
  <2>1. i \in 1 .. n /\ i - 1 \in 1 .. n
    OBVIOUS
  <2>2. f[i] = Slice(text, 0, ends[i]) /\ f[i - 1] = Slice(text, 0, ends[i - 1])
    BY <2>1
  <2>3. QED
    BY <1>1, <2>1, <2>2
<1>5. f[n] = Slice(text, 0, Len(text))
  OBVIOUS
<1> HIDE DEF f
<1>6. FlattenSeq(parts) = f[n]
  BY <1>2, <1>3, <1>4, FlattenUnfolds
<1>7. SubSeq(text, 1, Len(text)) = text /\ 0 + 1 = 1
  BY SubSeqFull
<1>8. QED
  BY <1>5, <1>6, <1>7, Zenon DEF Slice

LEMMA PartsWithoutOne ==
  ASSUME NEW text \in Seq(Byte), NEW n \in Nat \ {0}, NEW ends \in [0 .. n -> 0 .. Len(text)],
         ends[0] = 0, ends[n] = Len(text),
         \A i \in 1 .. n : ends[i - 1] <= ends[i], NEW k \in 2 .. n,
         NEW parts, parts = [i \in 1 .. n |-> parts[i]], parts[k] = <<>>,
         \A i \in 1 .. n : i # k => parts[i] = Slice(text, ends[i - 1], ends[i])
  PROVE  FlattenSeq(parts) = Slice(text, 0, ends[k - 1]) \o Slice(text, ends[k], Len(text))
<1> DEFINE f == [i \in 1 .. n |->
                  IF i < k THEN Slice(text, 0, ends[i])
                  ELSE Slice(text, 0, ends[k - 1]) \o Slice(text, ends[k], ends[i])]
<1>0. Len(text) \in Nat /\ 0 \in 0 .. Len(text) /\ k \in 0 .. n
  OBVIOUS
<1>1. ASSUME NEW i \in 1 .. n
      PROVE  /\ ends[i - 1] \in 0 .. Len(text) /\ ends[i] \in ends[i - 1] .. Len(text)
             /\ Slice(text, ends[i - 1], ends[i]) \in Seq(Byte)
             /\ Slice(text, 0, ends[i]) = Slice(text, 0, ends[i - 1]) \o Slice(text, ends[i - 1], ends[i])
  <2>1. ends[i - 1] \in 0 .. Len(text) /\ ends[i] \in ends[i - 1] .. Len(text)
    OBVIOUS
  <2>2. QED
    BY <1>0, <2>1, SliceProperties, SlicesJoin
<1>2. \A i \in k .. n : ends[k] <= ends[i]
  BY <1>0, EndsAscend
<1>3. parts \in [1 .. n -> Seq(Byte)]
  <2>1. ASSUME NEW i \in 1 .. n PROVE parts[i] \in Seq(Byte)
    <3>1. CASE i = k
      BY <3>1
    <3>2. CASE i # k
      BY <1>1, <3>2
    <3>3. QED
      BY <3>1, <3>2
  <2>2. QED
    BY <2>1
<1>4. Slice(text, 0, ends[k - 1]) \in Seq(Byte)
  <2>1. k \in 1 .. n
    OBVIOUS
  <2>2. ends[k - 1] \in 0 .. Len(text)
    BY <1>1, <2>1
  <2>3. QED
    BY <1>0, <2>2, SliceProperties
<1>5. f[1] = parts[1]
  <2>1. f[1] = Slice(text, 0, ends[1]) /\ parts[1] = Slice(text, ends[0], ends[1])
    <3>1. 1 \in 1 .. n /\ 1 < k /\ 1 # k /\ 1 - 1 = 0
      OBVIOUS
    <3>2. QED
      BY <3>1
  <2>2. QED
    BY <2>1
<1>6. ASSUME NEW i \in 2 .. n PROVE f[i] = f[i - 1] \o parts[i]
  <2>1. i \in 1 .. n /\ i - 1 \in 1 .. n /\ k - 1 \in 1 .. n
    OBVIOUS
  <2>2. CASE i < k
    <3>1. /\ f[i] = Slice(text, 0, ends[i]) /\ f[i - 1] = Slice(text, 0, ends[i - 1])
          /\ parts[i] = Slice(text, ends[i - 1], ends[i])
      BY <2>1, <2>2
    <3>2. QED
      BY <1>1, <2>1, <3>1
  <2>3. CASE i = k
    <3>1. /\ f[i] = Slice(text, 0, ends[k - 1]) \o Slice(text, ends[k], ends[k])
          /\ f[i - 1] = Slice(text, 0, ends[k - 1]) /\ parts[i] = <<>>
      BY <2>1, <2>3
    <3>2. Slice(text, ends[k], ends[k]) = <<>>
      BY <1>0, EmptySlice
    <3>3. QED
      BY <3>1, <3>2
  <2>4. CASE i > k
    <3>1. /\ f[i] = Slice(text, 0, ends[k - 1]) \o Slice(text, ends[k], ends[i])
          /\ f[i - 1] = Slice(text, 0, ends[k - 1]) \o Slice(text, ends[k], ends[i - 1])
          /\ parts[i] = Slice(text, ends[i - 1], ends[i])
      <4>1. ~ (i < k) /\ ~ (i - 1 < k) /\ i # k
        BY <2>4
      <4>2. QED
        BY <2>1, <4>1
    <3>2. PICK a, b, c : a = ends[k] /\ b = ends[i - 1] /\ c = ends[i]
      OBVIOUS
    <3>3. a \in 0 .. Len(text) /\ b \in a .. Len(text) /\ c \in b .. Len(text)
      <4>1. i - 1 \in k .. n
        BY <2>4
      <4>2. ends[k] <= ends[i - 1] /\ ends[k] \in 0 .. Len(text)
        BY <1>0, <1>2, <4>1
      <4>3. ends[i - 1] \in 0 .. Len(text) /\ ends[i] \in ends[i - 1] .. Len(text)
        BY <1>1, <2>1
      <4>4. QED
        BY <3>2, <4>2, <4>3
    <3>4. Slice(text, a, b) \o Slice(text, b, c) = Slice(text, a, c)
      BY <3>3, SlicesJoin
    <3>5. Slice(text, a, b) \in Seq(Byte) /\ Slice(text, b, c) \in Seq(Byte)
      <4>1. b \in 0 .. Len(text)
        BY <3>3
      <4>2. QED
        BY <3>3, <4>1, SliceProperties
    <3>6. PICK u, v, w : u = Slice(text, 0, ends[k - 1]) /\ v = Slice(text, a, b) /\ w = Slice(text, b, c)
      OBVIOUS
    <3>7. (u \o v) \o w = u \o (v \o w)
      <4>1. u \in Seq(Byte) /\ v \in Seq(Byte) /\ w \in Seq(Byte)
        BY <1>4, <3>5, <3>6
      <4>2. QED
        BY <4>1, JoinsRegroup
    <3>8. QED
      BY <3>1, <3>2, <3>4, <3>6, <3>7
  <2>5. i < k \/ i = k \/ i > k
    OBVIOUS
  <2> HIDE DEF f
  <2>6. QED
    BY <2>2, <2>3, <2>4, <2>5
<1>7. f[n] = Slice(text, 0, ends[k - 1]) \o Slice(text, ends[k], Len(text))
  <2>1. n \in 1 .. n /\ ~ (n < k)
    OBVIOUS
  <2>2. QED
    BY <2>1
<1> HIDE DEF f
<1>8. QED
  BY <1>3, <1>5, <1>6, <1>7, FlattenUnfolds

Sorted(s) == \A m, n \in DOMAIN s : m < n => s[m] < s[n]

\* The numbers of a set can be put in order.
LEMMA InOrderSorts ==
  ASSUME NEW n \in Nat, NEW S, S \subseteq 0 .. n
  PROVE  /\ Cardinality(S) \in Nat /\ IsFiniteSet(S)
         /\ InOrder(S) \in [1 .. Cardinality(S) -> S] /\ Sorted(InOrder(S))
<1> DEFINE Below(m) == {x \in S : x < m}
           T == {m \in 0 .. n + 1 : /\ IsFiniteSet(Below(m))
                                    /\ \E s \in [1 .. Cardinality(Below(m)) -> Below(m)] : Sorted(s)}
<1>0. \A x \in S : x \in Nat /\ x < n + 1 /\ ~ (x < 0)
  OBVIOUS
<1>1. 0 \in T
  <2>0. 0 \in 0 .. n + 1
    OBVIOUS
  <2>1. Below(0) = {}
    BY <1>0
  <2>2. IsFiniteSet({}) /\ Cardinality({}) = 0
    BY FS_EmptySet
  <2>3. <<>> \in [1 .. 0 -> {}] /\ Sorted(<<>>)
    BY DEF Sorted
  <2> HIDE DEF Below
  <2>4. QED
    BY <2>0, <2>1, <2>2, <2>3
<1>2. ASSUME NEW m \in Nat, m < n + 1, m \in T
      PROVE  m + 1 \in T
  <2>1. IsFiniteSet(Below(m)) /\ m + 1 \in 0 .. n + 1
    BY <1>2
  <2>2. PICK s \in [1 .. Cardinality(Below(m)) -> Below(m)] : Sorted(s)
    BY <1>2
  <2>3. Cardinality(Below(m)) \in Nat
    BY <2>1, FS_CardinalityType
  <2>4. CASE m \notin S
    <3>1. \A x \in S : x < m + 1 <=> x < m
      BY <1>0, <1>2, <2>4
    <3>2. Below(m + 1) = Below(m)
      BY <3>1
    <3> HIDE DEF Below
    <3>3. QED
      BY <2>1, <2>2, <3>2
  <2>5. CASE m \in S
    <3>0. (\A x \in S : x < m + 1 <=> (x < m \/ x = m)) /\ ~ (m < m)
      BY <1>0, <1>2
    <3>1. Below(m + 1) = Below(m) \cup {m} /\ m \notin Below(m) /\ \A x \in Below(m) : x < m
      BY <2>5, <3>0
    <3>2. PICK c \in Nat : c = Cardinality(Below(m))
      BY <2>3
    <3> HIDE DEF Below
    <3>3. IsFiniteSet(Below(m + 1)) /\ Cardinality(Below(m + 1)) = c + 1
      BY <2>1, <3>1, <3>2, FS_AddElement
    <3> DEFINE r == [k \in 1 .. c + 1 |-> IF k = c + 1 THEN m ELSE s[k]]
    <3>4. \A k \in 1 .. c + 1 : k = c + 1 \/ (k \in 1 .. c /\ s[k] \in Below(m))
      BY <2>2, <3>2
    <3>5. r \in [1 .. c + 1 -> Below(m + 1)]
      BY <3>1, <3>4
    <3>6. ASSUME NEW i \in 1 .. c + 1, NEW j \in 1 .. c + 1, i < j
          PROVE  r[i] < r[j]
      <4>1. i \in 1 .. c /\ i # c + 1
        BY <3>6
      <4>2. CASE j = c + 1
        BY <3>1, <3>4, <4>1, <4>2
      <4>3. CASE j # c + 1
        <5>1. j \in 1 .. c
          BY <4>3
        <5>2. DOMAIN s = 1 .. c
          BY <2>2, <3>2
        <5>3. s[i] < s[j]
          BY <2>2, <3>6, <4>1, <5>1, <5>2 DEF Sorted
        <5>4. QED
          BY <4>1, <4>3, <5>3
      <4>4. QED
        BY <4>2, <4>3
    <3>7. Sorted(r)
      <4>1. DOMAIN r = 1 .. c + 1
        OBVIOUS
      <4> HIDE DEF r
      <4>2. QED
        BY <3>6, <4>1 DEF Sorted
    <3> HIDE DEF r
    <3>8. QED
      BY <2>1, <3>3, <3>5, <3>7
  <2>6. QED
    BY <2>4, <2>5
<1> HIDE DEF T
<1>3. n + 1 \in T
  <2>1. \A m \in 0 .. n + 1 : m \in T
    BY <1>1, <1>2, SetInduction
  <2>2. QED
    BY <2>1
<1>4. Below(n + 1) = S
  BY <1>0
<1> HIDE DEF Below
<1>5. IsFiniteSet(S) /\ \E s \in [1 .. Cardinality(S) -> S] : Sorted(s)
  BY <1>3, <1>4 DEF T
<1>6. Cardinality(S) \in Nat
  BY <1>5, FS_CardinalityType
<1>7. InOrder(S) \in [1 .. Cardinality(S) -> S] /\ Sorted(InOrder(S))
  BY <1>5, Zenon DEF InOrder, Sorted
<1>8. QED
  BY <1>5, <1>6, <1>7

\* None of them is left out.
LEMMA InOrderHasAll ==
  ASSUME NEW n \in Nat, NEW S, S \subseteq 0 .. n, NEW x \in S
  PROVE  \E j \in 1 .. Cardinality(S) : InOrder(S)[j] = x
<1>1. PICK c, s : c = Cardinality(S) /\ s = InOrder(S)
  OBVIOUS
<1>2. c \in Nat /\ IsFiniteSet(S) /\ s \in [1 .. c -> S] /\ Sorted(s)
  BY <1>1, InOrderSorts
<1>3. ASSUME NEW i \in 1 .. c, NEW j \in 1 .. c, s[i] = s[j]
      PROVE  i = j
  <2>1. s[i] \in Int /\ s[j] \in Int /\ DOMAIN s = 1 .. c
    <3>1. s[i] \in S /\ s[j] \in S /\ DOMAIN s = 1 .. c
      BY <1>2
    <3>2. \A z \in S : z \in Int
      OBVIOUS
    <3>3. QED
      BY <3>1, <3>2
  <2>2. (i < j => s[i] < s[j]) /\ (j < i => s[j] < s[i])
    BY <2>1, <1>2 DEF Sorted
  <2>3. QED
    BY <1>2, <1>3, <2>1, <2>2
<1>4. s \in Injection(1 .. c, S)
  <2>1. \A i, j \in 1 .. c : s[i] = s[j] => i = j
    BY <1>3
  <2>2. QED
    BY <1>2, <2>1, Fun_IsInj
<1>5. Cardinality(1 .. c) = c
  BY <1>2, FS_Interval
<1>6. s \in Surjection(1 .. c, S)
  BY <1>1, <1>2, <1>4, <1>5, FS_Injection
<1>7. QED
  <2>1. \A t \in S : \E j \in 1 .. c : s[j] = t
    BY ONLY <1>6 DEF Surjection
  <2>2. QED
    BY <1>1, <2>1

\* The k-th number is odd or even.
LEMMA Parity ==
  ASSUME NEW k \in Nat
  PROVE  \/ k % 2 = 0 /\ k % 2 # 1 /\ \E j \in Nat : k = 2 * j /\ k \div 2 = j
         \/ k % 2 = 1 /\ k % 2 # 0 /\ \E j \in Nat : k + 1 = 2 * j /\ (k + 1) \div 2 = j
<1>1. k % 2 \in 0 .. 1 /\ k = 2 * (k \div 2) + (k % 2) /\ k \div 2 \in Nat
  OBVIOUS
<1>2. CASE k % 2 = 0
  BY <1>1, <1>2
<1>3. CASE k % 2 = 1
  <2>1. k + 1 = 2 * (k \div 2 + 1)
    BY <1>1, <1>3
  <2>2. (k + 1) \div 2 = k \div 2 + 1
    BY <1>1, <1>3
  <2>3. QED
    BY <1>1, <1>3, <2>1, <2>2
<1>4. QED
  BY <1>1, <1>2, <1>3

\* A mention ends before the next begins.
LEMMA MentionsApart ==
  ASSUME NEW text \in Seq(Byte), NEW m \in Mentions(text), NEW n \in Mentions(text), m < n
  PROVE  MentionEnd(text, m) <= n
<1>1. Len(text) \in Nat /\ m \in 0 .. Len(text) - 1 /\ n \in 0 .. Len(text) - 1 /\ m \in 0 .. Len(text)
  BY DEF Mentions
<1>2. ByteAt(text, m) = "@" /\ IsMentionBoundary(text, n)
  BY DEF Mentions
<1>3. ByteAt(text, n - 1) = Space /\ n - 1 # m
  <2>1. n # 0
    BY <1>1
  <2>2. ByteAt(text, n - 1) = Space
    BY <1>2, <2>1 DEF IsMentionBoundary
  <2>3. QED
    BY <1>2, <2>2 DEF Space
<1>4. /\ MentionEnd(text, m) \in m .. Len(text)
      /\ \A i \in m .. MentionEnd(text, m) - 1 : ByteAt(text, i) # Space
  BY <1>1, MentionEndIsBoundary
<1>5. n - 1 \notin m .. MentionEnd(text, m) - 1
  BY <1>3, <1>4
<1>6. QED
  BY <1>1, <1>4, <1>5

\* What the ends of the segments are: the mentions that start, where those end, in order.
Cuts(text, starts, ends) ==
  /\ Len(starts) \in Nat /\ starts \in [1 .. Len(starts) -> Mentions(text)] /\ Sorted(starts)
  /\ ends \in [0 .. 2 * Len(starts) + 1 -> 0 .. Len(text)]
  /\ ends[0] = 0 /\ ends[2 * Len(starts) + 1] = Len(text)
  /\ \A j \in 1 .. Len(starts) : /\ ends[2 * j - 1] = starts[j]
                                 /\ ends[2 * j] = MentionEnd(text, starts[j])
  /\ \A k \in 1 .. 2 * Len(starts) + 1 : ends[k - 1] <= ends[k]

LEMMA EndsProperties ==
  ASSUME NEW text \in Seq(Byte), NEW starts, starts = InOrder(Mentions(text)),
         NEW ends, ends = SegmentEnds(text, starts)
  PROVE  Cuts(text, starts, ends)
<1>1. Len(text) \in Nat /\ Mentions(text) \subseteq 0 .. Len(text)
  <2>1. Len(text) \in Nat
    OBVIOUS
  <2>2. QED
    BY <2>1 DEF Mentions
<1>2. PICK c \in Nat : c = Cardinality(Mentions(text))
  BY <1>1, InOrderSorts
<1>3. starts \in [1 .. c -> Mentions(text)] /\ Sorted(starts)
  BY <1>1, <1>2, InOrderSorts
<1>4. Len(starts) = c
  BY <1>2, <1>3
<1>5. PICK last \in Nat : last = 2 * c + 1
  BY <1>2
<1>6. \A j \in 1 .. c : /\ starts[j] \in Mentions(text) /\ starts[j] \in 0 .. Len(text)
                        /\ MentionEnd(text, starts[j]) \in starts[j] .. Len(text)
                        /\ MentionEnd(text, starts[j]) \in 0 .. Len(text)
  <2> SUFFICES ASSUME NEW j \in 1 .. c
               PROVE  /\ starts[j] \in Mentions(text) /\ starts[j] \in 0 .. Len(text)
                      /\ MentionEnd(text, starts[j]) \in starts[j] .. Len(text)
                      /\ MentionEnd(text, starts[j]) \in 0 .. Len(text)
    OBVIOUS
  <2>1. starts[j] \in Mentions(text) /\ starts[j] \in 0 .. Len(text)
    BY <1>1, <1>3
  <2>2. MentionEnd(text, starts[j]) \in starts[j] .. Len(text)
    BY <2>1, MentionEndIsBoundary
  <2>3. QED
    BY <1>1, <2>1, <2>2
<1>5a. 2 * Len(starts) + 1 = last
  BY <1>4, <1>5
<1>7. \A k \in 0 .. last : ends[k] = CASE k = 0 -> 0
                                       [] k = last -> Len(text)
                                       [] k % 2 = 1 /\ k < last -> starts[(k + 1) \div 2]
                                       [] OTHER -> MentionEnd(text, starts[k \div 2])
  <2>1. ends = [k \in 0 .. last |->
                 CASE k = 0 -> 0
                   [] k = last -> Len(text)
                   [] k % 2 = 1 /\ k < last -> starts[(k + 1) \div 2]
                   [] OTHER -> MentionEnd(text, starts[k \div 2])]
    BY <1>5a DEF SegmentEnds
  <2>2. QED
    BY <2>1, Zenon
<1>8. DOMAIN ends = 0 .. last /\ ends = [k \in 0 .. last |-> ends[k]]
  BY <1>4, <1>5 DEF SegmentEnds
<1>9. ends[0] = 0
  <2>1. 0 \in 0 .. last /\ 0 # last /\ ~ (0 % 2 = 1 /\ 0 < last)
    BY <1>2, <1>5
  <2>2. QED
    BY <1>7, <2>1, Zenon
<1>10. ends[last] = Len(text)
  <2>1. last \in 0 .. last /\ 0 # last /\ ~ (last < last)
    BY <1>2, <1>5
  <2>2. QED
    BY <1>7, <2>1, Zenon
<1>11. ASSUME NEW j \in 1 .. c
       PROVE  ends[2 * j - 1] = starts[j] /\ ends[2 * j] = MentionEnd(text, starts[j])
  <2>1. PICK k \in Nat : k = 2 * j - 1
    BY <1>2
  <2>2. k \in 0 .. last /\ k # 0 /\ k # last /\ k < last
    BY <1>2, <1>5, <2>1
  <2>3. k % 2 = 1 /\ (k + 1) \div 2 = j
    BY <2>1
  <2>4. ends[k] = starts[j]
    BY <1>7, <2>2, <2>3, Zenon
  <2>5. PICK l \in Nat : l = 2 * j
    BY <1>2
  <2>6. l \in 0 .. last /\ l # 0 /\ l # last
    BY <1>2, <1>5, <2>5
  <2>7. l % 2 # 1 /\ l \div 2 = j
    BY <2>5
  <2>8. ends[l] = MentionEnd(text, starts[j])
    BY <1>7, <2>6, <2>7, Zenon
  <2>9. QED
    BY <2>1, <2>4, <2>5, <2>8
<1>12. \A k \in 0 .. last : \/ k = 0 \/ k = last
                            \/ \E j \in 1 .. c : k = 2 * j - 1
                            \/ \E j \in 1 .. c : k = 2 * j
  <2> SUFFICES ASSUME NEW k \in 0 .. last, k # 0, k # last
               PROVE  \E j \in 1 .. c : k = 2 * j - 1 \/ k = 2 * j
    OBVIOUS
  <2>1. k \in Nat
    OBVIOUS
  <2>2. PICK j \in Nat : k = 2 * j \/ k + 1 = 2 * j
    BY <2>1, Parity
  <2>3. j \in 1 .. c
    BY <1>2, <1>5, <2>1, <2>2
  <2>4. k = 2 * j - 1 \/ k = 2 * j
    BY <2>1, <2>2
  <2>5. QED
    BY <2>3, <2>4
<1>13. ASSUME NEW k \in 0 .. last
       PROVE  ends[k] \in 0 .. Len(text)
  <2>1. 0 \in 0 .. Len(text) /\ Len(text) \in 0 .. Len(text)
    BY <1>1
  <2>2. QED
    BY <1>6, <1>9, <1>10, <1>11, <1>12, <2>1
<1>14. ASSUME NEW k \in 1 .. last
       PROVE  ends[k - 1] <= ends[k]
  <2>1. k \in 0 .. last /\ k - 1 \in 0 .. last /\ k # 0 /\ k - 1 # last
    BY <1>5
  <2>2. ends[k] \in 0 .. Len(text) /\ ends[k - 1] \in 0 .. Len(text)
    BY <1>13, <2>1
  <2>3. CASE k - 1 = 0
    BY <1>1, <1>9, <2>2, <2>3
  <2>4. CASE k = last
    BY <1>1, <1>10, <2>2, <2>4
  <2>5. ASSUME k - 1 # 0, NEW j \in 1 .. c, k = 2 * j - 1
        PROVE  ends[k - 1] <= ends[k]
    <3>1. j - 1 \in 1 .. c /\ k - 1 = 2 * (j - 1) /\ j - 1 < j
      BY <1>2, <2>1, <2>5
    <3>2. ends[k - 1] = MentionEnd(text, starts[j - 1]) /\ ends[k] = starts[j]
      BY <1>11, <2>5, <3>1
    <3>3. starts[j - 1] < starts[j]
      BY <1>3, <3>1 DEF Sorted
    <3>4. QED
      BY <1>6, <3>1, <3>2, <3>3, MentionsApart
  <2>6. ASSUME NEW j \in 1 .. c, k = 2 * j
        PROVE  ends[k - 1] <= ends[k]
    <3>1. ends[k - 1] = starts[j] /\ ends[k] = MentionEnd(text, starts[j])
      BY <1>11, <2>6
    <3>2. QED
      BY <1>1, <1>6, <3>1
  <2>7. QED
    BY <1>12, <2>1, <2>3, <2>4, <2>5, <2>6
<1>15. ends \in [0 .. last -> 0 .. Len(text)]
  BY <1>8, <1>13
<1>16. QED
  BY <1>3, <1>4, <1>5, <1>9, <1>10, <1>11, <1>14, <1>15 DEF Cuts

LEMMA SegmentsProperties ==
  ASSUME NEW text, NEW starts, starts = InOrder(Mentions(text)), Len(starts) \in Nat,
         NEW ends, ends = SegmentEnds(text, starts), NEW segments, segments = Segments(text)
  PROVE  /\ DOMAIN segments = 1 .. 2 * Len(starts) + 1
         /\ \A k \in DOMAIN segments :
              /\ segments[k].bytes = Slice(text, ends[k - 1], ends[k])
              /\ segments[k].kind = "agent" <=> (k % 2 = 0 /\ segments[k].bytes \in Explicit)
<1>1. PICK last \in Nat : last = 2 * Len(starts) + 1
  OBVIOUS
<1> DEFINE bytes == [k \in 1 .. last |-> Slice(text, ends[k - 1], ends[k])]
           kindOf(k) == CASE k % 2 = 1 -> "text"
                        [] k % 2 = 0 /\ bytes[k] \in Explicit -> "agent"
                        [] OTHER -> "file"
<1>2. segments = [k \in 1 .. last |-> [kind |-> kindOf(k), bytes |-> bytes[k]]]
  BY <1>1 DEF Segments
<1>3. DOMAIN segments = 1 .. last
  BY <1>2
<1>4. ASSUME NEW k \in 1 .. last
      PROVE  /\ segments[k].bytes = Slice(text, ends[k - 1], ends[k])
             /\ segments[k].kind = "agent" <=> (k % 2 = 0 /\ segments[k].bytes \in Explicit)
  <2>1. segments[k].bytes = bytes[k] /\ segments[k].kind = kindOf(k)
    <3> HIDE DEF bytes, kindOf
    <3>1. QED
      BY <1>2
  <2>2. bytes[k] = Slice(text, ends[k - 1], ends[k])
    OBVIOUS
  <2> HIDE DEF bytes
  <2>3. kindOf(k) = "agent" <=> (k % 2 = 0 /\ bytes[k] \in Explicit)
    <3>1. CASE k % 2 = 1
      <4>1. k % 2 # 0
        BY <3>1
      <4>2. kindOf(k) = "text"
        BY <3>1, <4>1, Zenon
      <4>3. QED
        BY <4>2
    <3>2. CASE k % 2 = 0 /\ bytes[k] \in Explicit
      BY <3>2
    <3>3. CASE k % 2 # 1 /\ ~ (k % 2 = 0 /\ bytes[k] \in Explicit)
      <4>1. kindOf(k) = "file"
        BY <3>3, Zenon
      <4>2. QED
        BY <4>1
    <3>4. QED
      BY <3>1, <3>2, <3>3
  <2> HIDE DEF kindOf
  <2>4. QED
    BY <2>1, <2>2, <2>3
<1>5. QED
  BY <1>1, <1>3, <1>4

LEMMA OneInSmallSet ==
  ASSUME NEW S, IsFiniteSet(S), ~ (Cardinality(S) > 1), NEW x \in S, NEW y \in S
  PROVE  x = y
<1>1. Cardinality(S) \in Nat /\ Cardinality(S) # 0
  BY FS_CardinalityType, FS_EmptySet
<1>2. Cardinality(S) = 1
  BY <1>1
<1>3. PICK z : S = {z}
  BY <1>2, FS_Singleton
<1>4. QED
  BY <1>3

\* Any text that is not refused goes in full to the turn it begins, but for one agent.
LEMMA TextGoesToTurn ==
  ASSUME NEW text \in Seq(Byte), ~ Refused(text), NEW segments, segments = Segments(text),
         NEW named, named = Named(text), NEW given, given = AgentsIn(segments)
  PROVE  \/ named = {} /\ given = {} /\ PromptText(segments) = Trimmed(text)
         \/ \E n \in named : /\ named = {n} /\ given = {MentionAt(text, n)}
                             /\ PromptText(segments) = Trimmed(Without(text, n))
<1>1. PICK M, starts, ends :
        M = Mentions(text) /\ starts = InOrder(M) /\ ends = SegmentEnds(text, starts)
  OBVIOUS
<1>2. /\ Len(starts) \in Nat /\ starts \in [1 .. Len(starts) -> M] /\ Sorted(starts)
      /\ ends \in [0 .. 2 * Len(starts) + 1 -> 0 .. Len(text)]
      /\ ends[0] = 0 /\ ends[2 * Len(starts) + 1] = Len(text)
      /\ \A j \in 1 .. Len(starts) : /\ ends[2 * j - 1] = starts[j]
                                     /\ ends[2 * j] = MentionEnd(text, starts[j])
      /\ \A k \in 1 .. 2 * Len(starts) + 1 : ends[k - 1] <= ends[k]
  <2>1. starts = InOrder(Mentions(text)) /\ ends = SegmentEnds(text, starts)
    BY <1>1
  <2>2. Cuts(text, starts, ends)
    BY <2>1, EndsProperties
  <2>3. QED
    BY <1>1, <2>2 DEF Cuts
<1>3. /\ DOMAIN segments = 1 .. 2 * Len(starts) + 1
      /\ \A k \in DOMAIN segments :
           /\ segments[k].bytes = Slice(text, ends[k - 1], ends[k])
           /\ segments[k].kind = "agent" <=> (k % 2 = 0 /\ segments[k].bytes \in Explicit)
  <2>1. starts = InOrder(Mentions(text)) /\ ends = SegmentEnds(text, starts) /\ Len(starts) \in Nat
    BY <1>1, <1>2
  <2>2. QED
    BY ONLY segments = Segments(text), <2>1, SegmentsProperties
<1>4. PICK agents, parts :
        /\ agents = {k \in DOMAIN segments : segments[k].kind = "agent"}
        /\ parts = [k \in DOMAIN segments |->
                      IF segments[k].kind = "agent" THEN <<>> ELSE segments[k].bytes]
  OBVIOUS
<1>5. given = {segments[k].bytes : k \in agents} /\ PromptText(segments) = Trimmed(FlattenSeq(parts))
  BY <1>4 DEF AgentsIn, PromptText
<1>6. PICK last \in Nat \ {0} : last = 2 * Len(starts) + 1
  BY <1>2
<1>7. Len(text) \in Nat /\ M \subseteq 0 .. Len(text) /\ named \subseteq M
  BY <1>1 DEF Mentions, Named
<1>8. IsFiniteSet(named) /\ ~ (Cardinality(named) > 1)
  <2>1. IsFiniteSet(named)
    BY <1>7, InOrderSorts
  <2>2. QED
    BY <2>1 DEF Refused
\* The agents are the mentions that name one.
<1>9. ASSUME NEW k \in agents
      PROVE  \E j \in 1 .. Len(starts) : k = 2 * j /\ starts[j] \in named
  <2>1. k \in 1 .. last /\ k \in DOMAIN segments /\ k % 2 = 0 /\ segments[k].bytes \in Explicit
    BY <1>3, <1>4, <1>6
  <2>2. PICK j \in Nat : k = 2 * j
    BY <2>1, Parity
  <2>3. j \in 1 .. Len(starts)
    BY <1>2, <1>6, <2>1, <2>2
  <2>4. segments[k].bytes = Slice(text, ends[k - 1], ends[k])
    BY <1>3, <2>1
  <2>5. ends[k - 1] = starts[j] /\ ends[k] = MentionEnd(text, starts[j])
    BY <1>2, <2>2, <2>3
  <2>6. MentionAt(text, starts[j]) \in Explicit
    BY <2>1, <2>4, <2>5 DEF MentionAt
  <2>7. starts[j] \in M
    BY <1>2, <2>3
  <2>8. QED
    BY <1>1, <2>2, <2>3, <2>6, <2>7 DEF Named
<1>10. ASSUME NEW n \in named
       PROVE  \E k \in agents : k \in 2 .. last /\ ends[k - 1] = n /\ ends[k] = MentionEnd(text, n)
  <2>1. PICK j \in 1 .. Cardinality(M) : starts[j] = n
    BY <1>1, <1>7, InOrderHasAll
  <2>2. Cardinality(M) = Len(starts)
    <3>1. starts \in [1 .. Cardinality(M) -> M] /\ Cardinality(M) \in Nat
      BY <1>1, <1>7, InOrderSorts
    <3>2. QED
      BY <3>1
  <2>3. PICK k \in Nat : k = 2 * j
    BY <1>2, <2>2
  <2>4. k \in 2 .. last /\ k \in 1 .. last /\ k % 2 = 0
    BY <1>2, <1>6, <2>2, <2>3
  <2>5. ends[k - 1] = n /\ ends[k] = MentionEnd(text, n)
    BY <1>2, <2>1, <2>2, <2>3
  <2>6. k \in DOMAIN segments /\ segments[k].bytes = MentionAt(text, n)
    BY <1>3, <1>6, <2>4, <2>5 DEF MentionAt
  <2>7. segments[k].kind = "agent"
    <3>1. MentionAt(text, n) \in Explicit
      BY DEF Named
    <3>2. QED
      BY <1>3, <2>4, <2>6, <3>1
  <2>8. QED
    BY <1>4, <2>4, <2>5, <2>6, <2>7
<1>11. CASE named = {}
  <2>1. agents = {}
    BY <1>9, <1>11
  <2>2. \A k \in DOMAIN segments : segments[k].kind # "agent"
    BY <1>4, <2>1
  <2>3. parts = [k \in 1 .. last |-> Slice(text, ends[k - 1], ends[k])]
    BY <1>3, <1>4, <1>6, <2>2
  <2>4. FlattenSeq(parts) = text
    BY <1>2, <1>6, <2>3, PartsMakeTheText
  <2>5. given = {}
    BY <1>5, <2>1
  <2>6. QED
    BY <1>5, <1>11, <2>4, <2>5
<1>12. ASSUME NEW n \in named
       PROVE  /\ named = {n} /\ given = {MentionAt(text, n)}
              /\ PromptText(segments) = Trimmed(Without(text, n))
  <2>1. named = {n}
    <3>1. ASSUME NEW m \in named PROVE m = n
      BY <1>8, OneInSmallSet
    <3>2. QED
      BY <3>1
  <2>2. PICK k \in agents : k \in 2 .. last /\ ends[k - 1] = n /\ ends[k] = MentionEnd(text, n)
    BY <1>10
  <2>3. agents = {k}
    <3>1. ASSUME NEW l \in agents PROVE l = k
      <4>1. PICK i \in 1 .. Len(starts) : l = 2 * i /\ starts[i] \in named
        BY <1>9
      <4>2. PICK j \in 1 .. Len(starts) : k = 2 * j /\ starts[j] \in named
        BY <1>9
      <4>3. starts[i] = n /\ starts[j] = n /\ n \in Int
        BY <1>7, <2>1, <4>1, <4>2
      <4>4. DOMAIN starts = 1 .. Len(starts) /\ ~ (n < n)
        BY <1>2, <4>3
      <4>5. ~ (i < j) /\ ~ (j < i)
        <5>1. (i < j => starts[i] < starts[j]) /\ (j < i => starts[j] < starts[i])
          BY <1>2, <4>4 DEF Sorted
        <5>2. QED
          BY <4>3, <4>4, <5>1
      <4>6. i = j
        BY <1>2, <4>5
      <4>7. QED
        BY <4>1, <4>2, <4>6
    <3>2. QED
      BY <3>1
  <2>4. k \in DOMAIN segments /\ segments[k].bytes = MentionAt(text, n)
    BY <1>3, <1>4, <2>2 DEF MentionAt
  <2>5. given = {MentionAt(text, n)}
    BY <1>5, <2>3, <2>4
  <2>6. \A i \in 1 .. last : segments[i].kind = "agent" <=> i = k
    BY <1>3, <1>4, <1>6, <2>3
  <2>7. /\ parts = [i \in 1 .. last |-> parts[i]] /\ parts[k] = <<>>
        /\ \A i \in 1 .. last : i # k => parts[i] = Slice(text, ends[i - 1], ends[i])
    BY <1>3, <1>4, <1>6, <2>2, <2>6
  <2>8. FlattenSeq(parts) = Slice(text, 0, ends[k - 1]) \o Slice(text, ends[k], Len(text))
    <3>1. /\ ends \in [0 .. last -> 0 .. Len(text)] /\ ends[0] = 0 /\ ends[last] = Len(text)
          /\ \A i \in 1 .. last : ends[i - 1] <= ends[i]
      BY <1>2, <1>6
    <3>2. text \in Seq(Byte) /\ last \in Nat \ {0} /\ k \in 2 .. last
      BY <2>2
    <3>3. QED
      BY ONLY <2>7, <3>1, <3>2, PartsWithoutOne
  <2>9. QED
    BY <1>5, <2>1, <2>2, <2>5, <2>8 DEF Without
<1>13. QED
  BY <1>11, <1>12

------------------------------------------------------------------------------
LEMMA EnterKeeps ==
  ASSUME LineInv, NEW text \in Seq(Byte), Enter(text)
  PROVE  LineInv'
<1>1. input' = <<>> /\ cursor' = 0
  BY DEF Enter
<1>2. loading \in BOOLEAN /\ busy \in BOOLEAN
  BY DEF LineInv
<1>3. loading' \in BOOLEAN /\ busy' \in BOOLEAN /\ (list' = NoList \/ list' = Agents)
  <2>1. CASE IsSlash(text)
    BY <1>2, <2>1 DEF Enter, Dispatch
  <2>2. CASE ~ IsSlash(text)
    BY <1>2, <2>2 DEF Enter, BeginTurn
  <2>3. QED
    BY <2>1, <2>2
<1>4. CASE asked' = NoTurn
  BY <1>1, <1>3, <1>4, ClearedKeeps, NothingAsked
<1>5. CASE asked' # NoTurn
  <2>1. ~ IsSlash(text) /\ ~ Refused(text) /\ BeginTurn(text)
    BY <1>5 DEF Enter, Dispatch
  <2>2. PICK segments, given : segments = Segments(text) /\ given = AgentsIn(segments)
    OBVIOUS
  <2>3. /\ busy'
        /\ asked' = [line |-> text, prompt |-> PromptText(segments), agent |-> given]
    BY <1>5, <2>1, <2>2 DEF BeginTurn
  <2>4. asked'.line = text /\ asked'.prompt = PromptText(segments) /\ asked'.agent = given
    BY <2>3
  <2>5. PICK named : named = Named(text)
    OBVIOUS
  <2>6. \/ named = {} /\ given = {} /\ PromptText(segments) = Trimmed(text)
        \/ \E n \in named : /\ named = {n} /\ given = {MentionAt(text, n)}
                            /\ PromptText(segments) = Trimmed(Without(text, n))
    <3>1. text \in Seq(Byte)
      OBVIOUS
    <3>2. QED
      BY ONLY <2>1, <2>2, <2>5, <3>1, TextGoesToTurn
  <2>7. TurnGetsItsLine'
    BY <2>4, <2>5, <2>6 DEF TurnGetsItsLine
  <2>8. Asked'
    BY <2>3, <2>7 DEF Asked
  <2>9. QED
    BY <1>1, <1>3, <2>8, ClearedKeeps
<1>6. QED
  BY <1>4, <1>5

LEMMA LineStep == LineInv /\ [LineNext]_lineVars => LineInv'
<1> SUFFICES ASSUME LineInv, [LineNext]_lineVars PROVE LineInv'
  OBVIOUS
<1>1. input \in Seq(Byte) /\ OnBoundary(input, 0) /\ OnBoundary(input, cursor)
  BY DEF LineInv
<1>2. cursor \in 0 .. Len(input) /\ Len(input) \in Nat
  BY <1>1 DEF OnBoundary
<1>3. ASSUME NEW c \in Char, TypeChar(c) PROVE LineInv'
  BY <1>3, TypeCharKeeps
<1>4. CASE Backspace
  <2>1. cursor \in 1 .. Len(input)
    BY <1>2, <1>4 DEF Backspace
  <2>2. PICK prev : prev = Before(input, cursor)
    OBVIOUS
  <2>3. OnBoundary(input, prev) /\ prev < cursor
    BY <1>1, <2>1, <2>2, BeforeIsBoundary
  <2>4. prev \in 0 .. Len(input) /\ prev < Len(input)
    BY <1>2, <2>3 DEF OnBoundary
  <2>5. OnBoundary(input, After(input, prev))
    BY <1>1, <2>4, AfterIsBoundary
  <2>6. Edit(Slice(input, 0, prev) \o Slice(input, After(input, prev), Len(input)), prev)
    BY <1>4, <2>2 DEF Backspace
  <2>7. QED
    BY <2>3, <2>5, <2>6, CutKeeps
<1>5. CASE Delete
  <2>1. OnBoundary(input, After(input, cursor))
    BY <1>1, <1>2, <1>5, AfterIsBoundary DEF Delete
  <2>2. QED
    BY <1>1, <1>5, <2>1, CutKeeps DEF Delete
<1>6. CASE Left
  <2>1. cursor \in 1 .. Len(input)
    BY <1>2, <1>6 DEF Left
  <2>2. OnBoundary(input, Before(input, cursor))
    BY <1>1, <2>1, BeforeIsBoundary
  <2>3. QED
    BY <1>6, <2>2, MoveKeeps DEF Left
<1>7. CASE Right
  <2>1. OnBoundary(input, After(input, cursor))
    BY <1>1, <1>2, <1>7, AfterIsBoundary DEF Right
  <2>2. QED
    BY <1>7, <2>1, MoveKeeps DEF Right
<1>8. CASE CloseList
  BY <1>8, ClosedKeeps DEF CloseList
<1>9. ASSUME NEW label \in list.items, TakeCommand(label) PROVE LineInv'
  BY <1>9, TakeCommandKeeps
<1>10. ASSUME NEW label \in list.items, TakeMention(label) PROVE LineInv'
  BY <1>10, TakeMentionKeeps
<1>11. ASSUME NEW label \in list.items, TakeAndSubmit(label) PROVE LineInv'
  <2>1. label \in SlashCommand /\ Enter(label)
    BY <1>11 DEF TakeAndSubmit, LineInv, Offered
  <2>2. label \in Seq(Byte)
    BY <2>1, LabelText
  <2>3. QED
    BY <2>1, <2>2, EnterKeeps
<1>12. CASE TakeChoice
  BY <1>12, ClearedKeeps, NothingAsked DEF TakeChoice, LineInv
<1>13. CASE ModelsArrive
  <2>1. Offered'
    <3>1. CASE list' = NoList
      BY <3>1 DEF Offered, NoList, Triggers
    <3>2. CASE list' = list
      BY <3>2 DEF LineInv, Offered
    <3>3. CASE list' = [trigger |-> "Model", items |-> {<<"model">>}]
      BY <3>3 DEF Offered, Triggers
    <3>4. QED
      BY <1>13, <3>1, <3>2, <3>3 DEF ModelsArrive
  <2>2. Asked'
    BY <1>13, NothingAsked DEF ModelsArrive
  <2>3. QED
    BY <1>13, <2>1, <2>2 DEF ModelsArrive, LineInv, OnBoundary, ByteAt
<1>14. CASE SubmitLine
  BY <1>1, <1>14, EnterKeeps DEF SubmitLine
<1>15. CASE TurnOver
  <2>1. Asked'
    BY <1>15, NothingAsked DEF TurnOver
  <2>2. QED
    BY <1>15, <2>1 DEF TurnOver, LineInv, Offered, OnBoundary, ByteAt
<1>16. CASE UNCHANGED lineVars
  <2>1. Asked'
    BY <1>16 DEF lineVars, LineInv, Asked, TurnGetsItsLine
  <2>2. QED
    BY <1>16, <2>1 DEF lineVars, LineInv, Offered, OnBoundary, ByteAt
<1>17. ASSUME NEW label \in list.items, FillCommand(label) PROVE LineInv'
  BY <1>17, FillCommandKeeps
<1>18. QED
  BY <1>3, <1>4, <1>5, <1>6, <1>7, <1>8, <1>9, <1>10, <1>11, <1>12, <1>13, <1>14, <1>15, <1>16,
     <1>17 DEF LineNext

LEMMA LineInvariant == LineSpec => []LineInv
<1>1. LineInit => LineInv
  <2> SUFFICES ASSUME LineInit PROVE LineInv
    OBVIOUS
  <2>1. Offered
    BY DEF LineInit, Offered, NoList, Triggers
  <2>2. <<>> \in Seq(Byte) /\ OnBoundary(<<>>, 0) /\ Asked
    BY DEF OnBoundary, LineInit, Asked, TurnGetsItsLine
  <2>3. QED
    BY <2>1, <2>2 DEF LineInit, LineInv
<1>2. QED
  BY <1>1, LineStep, PTL DEF LineSpec

\* The cursor is between two characters of the text.
THEOREM CursorKeepsToCharacters == LineSpec => []CursorOnBoundary
  BY LineInvariant, PTL DEF LineInv, CursorOnBoundary

\* A turn that begins has all of the line but the agent that it names.
THEOREM TurnsGetTheirLine == LineSpec => []TurnGetsItsLine
  BY LineInvariant, PTL DEF LineInv, Asked
------------------------------------------------------------------------------
(***************************************************************************)
(* The stream of an answer.  s is the script, p how many of its events     *)
(* have been taken from the buffer.                                        *)
(***************************************************************************)

Pieces == [event : Nat, half : 0 .. 2, whole : BOOLEAN]

EventsIn(s, type, calls, n) ==
  LET upTo[i \in 0 .. n] ==
        IF i = 0 THEN <<>>
        ELSE IF s[i].type = type /\ s[i].call \in calls THEN Append(upTo[i - 1], i)
        ELSE upTo[i - 1]
  IN  upTo[n]

Begun(s, i, p) == \E n \in 1 .. p : s[n].type = "start" /\ s[n].call = i
Stopped(s, i, p) == \E n \in 1 .. p : s[n].type = "stop" /\ s[n].call = i

\* What the server keeps to (MayFollow), of the whole script.
WellFormed(s) ==
  \A n \in 1 .. Len(s) :
    /\ s[n].type = "done" => n = Len(s)
    /\ s[n].type = "start" => ~ Begun(s, s[n].call, n - 1)
    /\ s[n].type \in {"args", "stop"} => Begun(s, s[n].call, n - 1) /\ ~ Stopped(s, s[n].call, n - 1)

\* What the first p events make: the text, the calls, and those still open.
TextIs(s, p, text) ==
  LET said == EventsIn(s, "text", {0}, p) IN
  /\ Len(text) = Len(said)
  /\ \A k \in 1 .. Len(text) : text[k] = said[k] \/ (text[k] = Garbled /\ s[said[k]].wide)
CallsAre(s, mixed, p, calls) ==
  LET starts == EventsIn(s, "start", Call, p) IN
  /\ Len(calls) = Len(starts)
  /\ \A k \in 1 .. Len(calls) :
       /\ calls[k].id = s[starts[k]].call
       /\ ~ mixed => calls[k].args = EventsIn(s, "args", {calls[k].id}, p)
StillOpen(s, p) == {i \in Call : Begun(s, i, p) /\ ~ Stopped(s, i, p)}
NotOver(s, p) == \A n \in 1 .. p : s[n].type # "done"

Assembled(s, mixed, p, a) ==
  /\ TextIs(s, p, a.text)
  /\ CallsAre(s, mixed, p, a.calls)
  /\ a.ended = "no" => a.open = StillOpen(s, p) /\ NotOver(s, p)

\* The h-th piece of the e-th event, as sent and as decoded.
Sent(e, h) == IF h <= 2 THEN Piece(e, h) ELSE EndOfLine
Decoded(s, q, e, h) ==
  \/ q = Sent(e, h)
  \/ h <= 2 /\ s[e].wide /\ q = [event |-> e, half |-> h, whole |-> FALSE]

\* Of the event after p, r pieces are gone from the buffer; an event is l pieces.
Place(l, p, r, e, h) == l * (e - p - 1) + h - r
Comes(s, l, p, r, b, w) ==
  \A e \in p + 1 .. Len(s), h \in 1 .. l :
    LET j == Place(l, p, r, e, h) IN
    /\ j \in 1 .. Len(b) => Decoded(s, b[j], e, h)
    /\ j - Len(b) \in 1 .. Len(w) => w[j - Len(b)] = Sent(e, h)

Collected(s, l, p, r, d) ==
  \/ r = 0 /\ d = <<>>
  \/ r = 3 /\ l = 4 /\ Len(d) = 2 /\ Decoded(s, d[1], p + 1, 1) /\ Decoded(s, d[2], p + 1, 2)

IsOver(s) == s # <<>> /\ s[Len(s)].type = "done"

Taken(s, l, p, r, b, w, d) ==
  /\ p \in 0 .. Len(s) /\ r \in {0, 3}
  /\ Len(b) + Len(w) + r <= l * (Len(s) - p)
  /\ IsOver(s) => Len(b) + Len(w) + r = l * (Len(s) - p)
  /\ Comes(s, l, p, r, b, w)
  /\ Collected(s, l, p, r, d)

NothingSaid == [text |-> <<>>, calls |-> <<>>, open |-> {}, ended |-> "no"]

PerEvent == IF api = "anthropic" THEN 4 ELSE 3

StreamShape ==
  /\ api \in Api \cup {"none"} /\ connected \in BOOLEAN
  /\ script \in Seq(Event) /\ Len(script) <= MaxEvents
  /\ wire \in Seq(Pieces) /\ buffer \in Seq(Pieces) /\ data \in Seq(Pieces)
  /\ answer \in Answer

ServerPart ==
  /\ WellFormed(script)
  /\ connected => /\ buffer = <<>> /\ Len(wire) = PerEvent * Len(script)
                  /\ answer = NothingSaid
  /\ api = "none" => script = <<>>

AnswerPart ==
  /\ answer.ended = "no" =>
       \E p \in 0 .. Len(script), r \in {0, 3} :
         /\ Taken(script, PerEvent, p, r, buffer, wire, data)
         /\ Assembled(script, Mixed, p, answer)
  /\ answer.ended # "no" =>
       \E p \in 0 .. Len(script) :
         /\ Assembled(script, Mixed, p, answer)
         /\ answer.ended = "done" /\ IsOver(script) => p = Len(script)

StreamInv == StreamShape /\ ServerPart /\ AnswerPart

\* EventsIn is recursive: f[m] is what it is of the first m events.
IsEvents(f, s, type, calls) ==
  /\ f \in [0 .. Len(s) -> Seq(1 .. Len(s))]
  /\ \A m \in 0 .. Len(s) : EventsIn(s, type, calls, m) = f[m]
  /\ f[0] = <<>>
  /\ \A i \in 1 .. Len(s) : f[i] = IF s[i].type = type /\ s[i].call \in calls
                                    THEN Append(f[i - 1], i) ELSE f[i - 1]

LEMMA EventsUnfold ==
  ASSUME NEW s \in Seq(Event), NEW type, NEW calls
  PROVE  \E f : IsEvents(f, s, type, calls)
<1> DEFINE n == Len(s)
           V == Seq(1 .. n)
           fits(i) == s[i].type = type /\ s[i].call \in calls
           go == [i \in 1 .. n |-> [t \in V |-> IF fits(i) THEN Append(t, i) ELSE t]]
<1>1. n \in Nat /\ <<>> \in V /\ go \in [1 .. n -> [V -> V]]
  <2>1. n \in Nat /\ <<>> \in V
    OBVIOUS
  <2>2. \A i \in 1 .. n, t \in V : Append(t, i) \in V
    OBVIOUS
  <2> HIDE DEF V, fits
  <2>3. go \in [1 .. n -> [V -> V]]
    BY <2>2
  <2>4. QED
    BY <2>1, <2>3
<1>2. \A i \in 1 .. n, t \in V : go[i][t] = IF fits(i) THEN Append(t, i) ELSE t
  OBVIOUS
<1> HIDE DEF V, go
<1>3. PICK f \in [0 .. n -> V] : Follows(f, <<>>, go, n)
  BY <1>1, Recursion
<1>4. \A i \in 1 .. n : i - 1 \in 0 .. n /\ i # 0 /\ i \in 0 .. n
  BY <1>1
<1>5. f[0] = <<>> /\ \A i \in 1 .. n : f[i] = IF fits(i) THEN Append(f[i - 1], i) ELSE f[i - 1]
  <2>1. \A i \in 1 .. n : f[i - 1] \in V
    BY <1>4
  <2>2. QED
    BY <1>2, <1>3, <2>1 DEF Follows
<1>6. ASSUME NEW m \in 0 .. n
      PROVE  EventsIn(s, type, calls, m) = f[m]
  <2> DEFINE unfolded(g) == [i \in 0 .. m |-> IF i = 0 THEN <<>>
                                              ELSE IF s[i].type = type /\ s[i].call \in calls
                                              THEN Append(g[i - 1], i) ELSE g[i - 1]]
             upTo == CHOOSE g : g = unfolded(g)
  <2>1. EventsIn(s, type, calls, m) = upTo[m]
    BY DEF EventsIn
  <2> DEFINE h == [i \in 0 .. m |-> f[i]]
  <2>2. m \in Nat /\ \A i \in 0 .. m : i = 0 \/ (i \in 1 .. n /\ i - 1 \in 0 .. m)
    BY <1>1
  <2>3. h = unfolded(h)
    <3>1. ASSUME NEW i \in 0 .. m
          PROVE  f[i] = IF i = 0 THEN <<>>
                         ELSE IF s[i].type = type /\ s[i].call \in calls
                         THEN Append(h[i - 1], i) ELSE h[i - 1]
      <4>1. CASE i = 0
        BY <1>5, <4>1
      <4>2. CASE i \in 1 .. n /\ i - 1 \in 0 .. m /\ i # 0
        <5>1. h[i - 1] = f[i - 1]
          BY <4>2
        <5>2. QED
          BY <1>5, <4>2, <5>1
      <4>3. QED
        BY <1>1, <2>2, <4>1, <4>2
    <3>2. QED
      BY <3>1
  <2>4. upTo = unfolded(upTo)
    <3> HIDE DEF unfolded, h
    <3>1. QED
      BY <2>3, Zenon
  <2> HIDE DEF upTo
  <2>5. \A i \in 0 .. m : upTo[i] = IF i = 0 THEN <<>>
                                     ELSE IF s[i].type = type /\ s[i].call \in calls
                                     THEN Append(upTo[i - 1], i) ELSE upTo[i - 1]
    BY <2>4, Zenon
  <2> HIDE DEF unfolded
  <2> DEFINE S == {i \in 0 .. m : upTo[i] = f[i]}
  <2>6. 0 \in S
    <3>1. 0 \in 0 .. m
      BY <2>2
    <3>2. QED
      BY <1>5, <2>5, <3>1
  <2>7. ASSUME NEW i \in Nat, i < m, i \in S
        PROVE  i + 1 \in S
    <3>1. i + 1 \in 0 .. m /\ i + 1 \in 1 .. n /\ (i + 1) - 1 = i /\ i + 1 # 0
      BY <1>1, <2>7
    <3>2. upTo[i + 1] = IF s[i + 1].type = type /\ s[i + 1].call \in calls
                        THEN Append(upTo[i], i + 1) ELSE upTo[i]
      BY <2>5, <3>1
    <3>3. f[i + 1] = IF fits(i + 1) THEN Append(f[i], i + 1) ELSE f[i]
      BY <1>5, <3>1
    <3>4. QED
      BY <2>7, <3>1, <3>2, <3>3
  <2> HIDE DEF S
  <2>8. m \in S
    <3>1. \A i \in 0 .. m : i \in S
      BY <2>2, <2>6, <2>7, SetInduction
    <3>2. QED
      BY <2>2, <3>1
  <2>9. QED
    BY <2>1, <2>8 DEF S
<1>7. f \in [0 .. n -> Seq(1 .. n)]
  BY DEF V
<1>8. IsEvents(f, s, type, calls)
  BY <1>5, <1>6, <1>7 DEF IsEvents
<1>9. QED
  BY <1>8

LEMMA EventsType ==
  ASSUME NEW s \in Seq(Event), NEW type, NEW calls, NEW p \in 0 .. Len(s)
  PROVE  EventsIn(s, type, calls, p) \in Seq(1 .. Len(s)) /\ EventsIn(s, type, calls, 0) = <<>>
<1>1. PICK f : IsEvents(f, s, type, calls)
  BY EventsUnfold
<1>2. Len(s) \in Nat /\ 0 \in 0 .. Len(s)
  OBVIOUS
<1>3. QED
  BY <1>1, <1>2 DEF IsEvents

\* One event more.
LEMMA OneEventMore ==
  ASSUME NEW s \in Seq(Event), NEW type, NEW calls, NEW p \in 1 .. Len(s)
  PROVE  EventsIn(s, type, calls, p) =
           IF s[p].type = type /\ s[p].call \in calls
           THEN Append(EventsIn(s, type, calls, p - 1), p) ELSE EventsIn(s, type, calls, p - 1)
<1>1. PICK f : IsEvents(f, s, type, calls)
  BY EventsUnfold
<1>2. p \in 0 .. Len(s) /\ p - 1 \in 0 .. Len(s)
  OBVIOUS
<1>3. EventsIn(s, type, calls, p) = f[p] /\ EventsIn(s, type, calls, p - 1) = f[p - 1]
  BY <1>1, <1>2 DEF IsEvents
<1>4. QED
  BY <1>1, <1>3 DEF IsEvents

\* The events of the beginning of a script begin those of all of it.
LEMMA EventsGrow ==
  ASSUME NEW s \in Seq(Event), NEW type, NEW calls, NEW p \in 0 .. Len(s)
  PROVE  /\ Len(EventsIn(s, type, calls, p)) <= Len(EventsIn(s, type, calls, Len(s)))
         /\ \A k \in 1 .. Len(EventsIn(s, type, calls, p)) :
              EventsIn(s, type, calls, Len(s))[k] = EventsIn(s, type, calls, p)[k]
<1> DEFINE ev(m) == EventsIn(s, type, calls, m)
           begins(m) == Len(ev(p)) <= Len(ev(m)) /\ \A k \in 1 .. Len(ev(p)) : ev(m)[k] = ev(p)[k]
           n == Len(s)
           S == {d \in 0 .. n - p : begins(p + d)}
<1>1. n \in Nat /\ p \in Nat /\ n - p \in Nat /\ p + 0 = p /\ p + (n - p) = n /\ 0 \in 0 .. n - p
  OBVIOUS
<1>2. \A m \in 0 .. n : ev(m) \in Seq(1 .. n)
  BY EventsType
<1>3. 0 \in S
  <2>1. Len(ev(p)) \in Nat
    BY <1>2
  <2> HIDE DEF ev
  <2>2. QED
    BY <1>1, <2>1
<1>4. ASSUME NEW d \in Nat, d < n - p, d \in S
      PROVE  d + 1 \in S
  <2>1. PICK m : m = p + d
    OBVIOUS
  <2>2. m \in 0 .. n /\ m + 1 \in 1 .. n /\ m + 1 \in 0 .. n /\ p + (d + 1) = m + 1 /\ d + 1 \in 0 .. n - p
    BY <1>1, <1>4, <2>1
  <2>3. ev(m + 1) = ev(m) \/ ev(m + 1) = Append(ev(m), m + 1)
    <3>1. ev(m + 1) = IF s[m + 1].type = type /\ s[m + 1].call \in calls
                      THEN Append(ev(m), m + 1) ELSE ev(m)
      <4>1. PICK q \in 1 .. n : q = m + 1 /\ q - 1 = m
        BY <2>2
      <4>2. ev(q) = IF s[q].type = type /\ s[q].call \in calls THEN Append(ev(q - 1), q) ELSE ev(q - 1)
        BY OneEventMore
      <4>3. QED
        BY <4>1, <4>2, Zenon
    <3>2. QED
      BY <3>1, Zenon
  <2>4. ev(m) \in Seq(1 .. n) /\ ev(p) \in Seq(1 .. n) /\ begins(m)
    BY <1>2, <1>4, <2>1, <2>2
  <2> HIDE DEF ev
  <2>5. PICK a \in Seq(1 .. n), b \in Seq(1 .. n) : a = ev(m) /\ b = ev(p)
    BY <2>4
  <2>6. Len(b) <= Len(a) /\ \A k \in 1 .. Len(b) : a[k] = b[k]
    BY <2>4, <2>5
  <2>7. /\ Len(b) <= Len(Append(a, m + 1))
        /\ \A k \in 1 .. Len(b) : Append(a, m + 1)[k] = b[k]
    <3>1. Len(a) \in Nat /\ Len(b) \in Nat /\ Len(Append(a, m + 1)) = Len(a) + 1
      OBVIOUS
    <3>2. \A k \in 1 .. Len(a) : Append(a, m + 1)[k] = a[k]
      OBVIOUS
    <3>3. QED
      BY <2>6, <3>1, <3>2
  <2>8. begins(m + 1)
    BY <2>3, <2>5, <2>6, <2>7
  <2>9. QED
    BY <2>2, <2>8
<1> HIDE DEF S, begins
<1>5. n - p \in S
  <2>1. \A d \in 0 .. n - p : d \in S
    BY <1>1, <1>3, <1>4, SetInduction
  <2>2. QED
    BY <1>1, <2>1
<1>6. begins(n)
  BY <1>1, <1>5 DEF S
<1>7. QED
  BY <1>6 DEF begins

\* A sequence with an element more.
LEMMA Appended ==
  ASSUME NEW T, NEW f \in Seq(T), NEW x \in T
  PROVE  /\ Append(f, x) \in Seq(T) /\ Len(Append(f, x)) = Len(f) + 1 /\ Len(f) \in Nat
         /\ Append(f, x)[Len(f) + 1] = x /\ \A k \in 1 .. Len(f) : Append(f, x)[k] = f[k]
  OBVIOUS

LEMMA AppendedAt ==
  ASSUME NEW T, NEW f \in Seq(T), NEW x \in T, NEW k \in DOMAIN Append(f, x)
  PROVE  \/ k = Len(f) + 1 /\ Append(f, x)[k] = x
         \/ k \in DOMAIN f /\ k \in 1 .. Len(f) /\ Append(f, x)[k] = f[k]
<1>1. DOMAIN Append(f, x) = 1 .. Len(f) + 1 /\ DOMAIN f = 1 .. Len(f) /\ Len(f) \in Nat
  OBVIOUS
<1>2. k = Len(f) + 1 \/ k \in 1 .. Len(f)
  BY <1>1
<1>3. QED
  BY <1>1, <1>2

\* They are events of the type and the calls.
LEMMA EventsAre ==
  ASSUME NEW s \in Seq(Event), NEW type, NEW calls, NEW p \in 0 .. Len(s)
  PROVE  \A k \in DOMAIN EventsIn(s, type, calls, p) :
           LET n == EventsIn(s, type, calls, p)[k]
           IN  n \in 1 .. p /\ s[n].type = type /\ s[n].call \in calls
<1> DEFINE is(f, m) == \A k \in DOMAIN f : /\ f[k] \in 1 .. m
                                           /\ s[f[k]].type = type /\ s[f[k]].call \in calls
           S == {m \in 0 .. Len(s) : is(EventsIn(s, type, calls, m), m)}
<1>1. 0 \in S
  <2>1. EventsIn(s, type, calls, 0) = <<>> /\ 0 \in 0 .. Len(s)
    BY EventsType
  <2>2. QED
    BY <2>1
<1>2. ASSUME NEW m \in Nat, m < Len(s), m \in S
      PROVE  m + 1 \in S
  <2>1. PICK q : q = m + 1
    OBVIOUS
  <2>2. q \in 1 .. Len(s) /\ q \in 0 .. Len(s) /\ q - 1 = m
    BY <1>2, <2>1
  <2>3. PICK f : f = EventsIn(s, type, calls, m)
    OBVIOUS
  <2>4. f \in Seq(1 .. Len(s))
    BY <1>2, <2>3, EventsType
  <2>5. is(f, m)
    BY <1>2, <2>3
  <2>6. EventsIn(s, type, calls, q) = IF s[q].type = type /\ s[q].call \in calls
                                      THEN Append(f, q) ELSE f
    BY <2>2, <2>3, OneEventMore
  <2>7. is(f, q)
    BY <1>2, <2>1, <2>5
  <2>8. ASSUME s[q].type = type /\ s[q].call \in calls
        PROVE  is(Append(f, q), q)
    <3>1. ASSUME NEW k \in DOMAIN Append(f, q)
          PROVE  Append(f, q)[k] = q \/ (k \in DOMAIN f /\ Append(f, q)[k] = f[k])
      <4>1. PICK T : T = 1 .. Len(s)
        OBVIOUS
      <4>2. f \in Seq(T) /\ q \in T
        BY <2>2, <2>4, <4>1
      <4>3. QED
        BY ONLY <4>2, <3>1, AppendedAt
    <3>2. q \in 1 .. q
      BY <2>2
    <3>3. QED
      BY <2>7, <2>8, <3>1, <3>2
  <2> HIDE DEF is
  <2>9. is(EventsIn(s, type, calls, q), q)
    BY <2>6, <2>7, <2>8
  <2>10. QED
    BY <2>1, <2>2, <2>9
<1> HIDE DEF S, is
<1>3. p \in S
  <2>1. Len(s) \in Nat /\ \A m \in 0 .. Len(s) : m \in S
    BY <1>1, <1>2, SetInduction
  <2>2. QED
    BY <2>1
<1>4. QED
  BY <1>3 DEF S, is

LEMMA BegunStep ==
  ASSUME NEW s, NEW i, NEW p \in Nat \ {0}
  PROVE  /\ Begun(s, i, p) <=> Begun(s, i, p - 1) \/ (s[p].type = "start" /\ s[p].call = i)
         /\ Stopped(s, i, p) <=> Stopped(s, i, p - 1) \/ (s[p].type = "stop" /\ s[p].call = i)
<1>1. \A n : n \in 1 .. p <=> n \in 1 .. p - 1 \/ n = p
  OBVIOUS
<1>2. QED
  BY <1>1 DEF Begun, Stopped

\* What has begun or stopped stays so.
LEMMA BegunGrows ==
  ASSUME NEW s, NEW i, NEW p \in Nat, NEW q \in Nat, p <= q
  PROVE  (Begun(s, i, p) => Begun(s, i, q)) /\ (Stopped(s, i, p) => Stopped(s, i, q))
<1>1. \A n \in 1 .. p : n \in 1 .. q
  OBVIOUS
<1>2. QED
  BY <1>1 DEF Begun, Stopped

\* NothingSaid is heard of a call before it starts.
LEMMA SilentBeforeStart ==
  ASSUME NEW s \in Seq(Event), WellFormed(s), NEW p \in 0 .. Len(s), NEW i, ~ Begun(s, i, p)
  PROVE  ~ Stopped(s, i, p) /\ EventsIn(s, "args", {i}, p) = <<>>
<1>1. Len(s) \in Nat /\ p \in Nat
  OBVIOUS
<1>2. ASSUME NEW n \in 1 .. p, s[n].type \in {"args", "stop"}, s[n].call = i
      PROVE  FALSE
  <2>1. n \in 1 .. Len(s) /\ n - 1 \in Nat /\ n - 1 <= p
    BY <1>1
  <2>2. Begun(s, i, n - 1)
    BY <1>2, <2>1 DEF WellFormed
  <2>3. QED
    BY <1>1, <2>1, <2>2, BegunGrows
<1>3. ~ Stopped(s, i, p)
  BY <1>2 DEF Stopped
<1>4. PICK f : f = EventsIn(s, "args", {i}, p)
  OBVIOUS
<1>5. f \in Seq(1 .. Len(s))
  BY <1>4, EventsType
<1>6. ASSUME f # <<>> PROVE FALSE
  <2>1. 1 \in DOMAIN f
    BY <1>5, <1>6
  <2>2. f[1] \in 1 .. p /\ s[f[1]].type = "args" /\ s[f[1]].call \in {i}
    BY <1>4, <2>1, EventsAre
  <2>3. QED
    BY <1>2, <2>2
<1>7. QED
  BY <1>3, <1>4, <1>6

\* The fields of an event.
LEMMA EventFields ==
  ASSUME NEW e \in Event
  PROVE  /\ e.type \in {"text", "start", "args", "stop", "done"} /\ e.wide \in BOOLEAN
         /\ e.type = "text" => e.call = 0
         /\ e.type \in {"start", "args", "stop"} => e.call \in Call
<1>1. CASE e \in [type : {"text"}, wide : BOOLEAN, call : {0}]
  BY <1>1
<1>2. CASE e \in [type : {"start", "args", "stop"}, wide : {FALSE}, call : Call]
  BY <1>2
<1>3. CASE e \in [type : {"done"}, wide : {FALSE}, call : {0}]
  BY <1>3
<1>4. QED
  BY <1>1, <1>2, <1>3 DEF Event

Calls == [id : Call, args : Seq(1 .. MaxEvents)]

LEMMA AnswerFields ==
  ASSUME NEW a \in Answer
  PROVE  /\ a.text \in Seq(0 .. MaxEvents) /\ a.calls \in Seq(Calls)
         /\ a.open \in SUBSET Call /\ a.ended \in {"no", "done", "error"}
  BY DEF Answer, Calls

LEMMA AnswerType ==
  ASSUME NEW text \in Seq(0 .. MaxEvents), NEW calls \in Seq(Calls), NEW open \in SUBSET Call,
         NEW ended \in {"no", "done", "error"}
  PROVE  [text |-> text, calls |-> calls, open |-> open, ended |-> ended] \in Answer
  BY DEF Answer, Calls

\* An event of another type leaves what is said of a type as it was.
LEMMA OtherEvent ==
  ASSUME NEW s \in Seq(Event), NEW type, NEW calls, NEW p \in 1 .. Len(s),
         s[p].type # type \/ s[p].call \notin calls
  PROVE  EventsIn(s, type, calls, p) = EventsIn(s, type, calls, p - 1)
  BY OneEventMore

LEMMA OwnEvent ==
  ASSUME NEW s \in Seq(Event), NEW type, NEW calls, NEW p \in 1 .. Len(s),
         s[p].type = type, s[p].call \in calls
  PROVE  EventsIn(s, type, calls, p) = Append(EventsIn(s, type, calls, p - 1), p)
  BY OneEventMore

\* The text goes on with a text, and with nothing else.
LEMMA TextGoesOn ==
  ASSUME NEW s \in Seq(Event), NEW p \in 1 .. Len(s), NEW text \in Seq(0 .. MaxEvents),
         Len(s) <= MaxEvents, TextIs(s, p - 1, text)
  PROVE  /\ s[p].type # "text" => TextIs(s, p, text)
         /\ s[p].type = "text" => \A x : x = p \/ (x = Garbled /\ s[p].wide) =>
              Append(text, x) \in Seq(0 .. MaxEvents) /\ TextIs(s, p, Append(text, x))
<1>1. Len(s) \in Nat /\ p - 1 \in 0 .. Len(s) /\ p \in 0 .. MaxEvents /\ 0 \in 0 .. MaxEvents
  BY StreamBounds
<1>2. PICK f : f = EventsIn(s, "text", {0}, p - 1)
  OBVIOUS
<1>3. f \in Seq(1 .. Len(s))
  BY <1>1, <1>2, EventsType
<1>4. /\ Len(text) = Len(f)
      /\ \A k \in 1 .. Len(text) : text[k] = f[k] \/ (text[k] = Garbled /\ s[f[k]].wide)
  BY <1>2 DEF TextIs
<1>5. ASSUME s[p].type # "text" PROVE TextIs(s, p, text)
  <2>1. EventsIn(s, "text", {0}, p) = f
    BY <1>2, <1>5, OtherEvent
  <2>2. QED
    BY <1>4, <2>1 DEF TextIs
<1>6. ASSUME s[p].type = "text", NEW x, x = p \/ (x = Garbled /\ s[p].wide)
      PROVE  Append(text, x) \in Seq(0 .. MaxEvents) /\ TextIs(s, p, Append(text, x))
  <2>1. s[p] \in Event /\ s[p].call = 0
    BY <1>6, EventFields
  <2>2. EventsIn(s, "text", {0}, p) = Append(f, p)
    <3>1. s[p].call \in {0}
      BY <2>1
    <3>2. QED
      BY <1>2, <1>6, <3>1, OwnEvent
  <2>3. x \in 0 .. MaxEvents
    BY <1>1, <1>6 DEF Garbled
  <2>4. Append(text, x) \in Seq(0 .. MaxEvents)
    BY <2>3
  <2>5. /\ Len(Append(text, x)) = Len(text) + 1 /\ Len(text) \in Nat
        /\ Append(text, x)[Len(text) + 1] = x /\ \A k \in 1 .. Len(text) : Append(text, x)[k] = text[k]
    BY <2>3
  <2>6. /\ Len(Append(f, p)) = Len(f) + 1 /\ Append(f, p)[Len(f) + 1] = p
        /\ \A k \in 1 .. Len(f) : Append(f, p)[k] = f[k]
    BY <1>3
  <2>7. PICK g, h : g = Append(text, x) /\ h = Append(f, p)
    OBVIOUS
  <2>8. ASSUME NEW k \in 1 .. Len(g)
        PROVE  g[k] = h[k] \/ (g[k] = Garbled /\ s[h[k]].wide)
    <3>1. k = Len(text) + 1 \/ k \in 1 .. Len(text)
      BY <2>5, <2>7
    <3>2. CASE k = Len(text) + 1
      <4>1. g[k] = x /\ h[k] = p
        BY <1>4, <2>5, <2>6, <2>7, <3>2
      <4>2. QED
        BY <1>6, <4>1
    <3>3. CASE k \in 1 .. Len(text)
      <4>1. g[k] = text[k] /\ h[k] = f[k]
        BY <1>4, <2>5, <2>6, <2>7, <3>3
      <4>2. QED
        BY <1>4, <3>3, <4>1, Zenon
    <3>4. QED
      BY <3>1, <3>2, <3>3
  <2>9. Len(g) = Len(h)
    BY <1>4, <2>5, <2>6, <2>7
  <2>10. TextIs(s, p, g)
    BY <2>2, <2>7, <2>8, <2>9 DEF TextIs
  <2>11. QED
    BY <2>4, <2>7, <2>10
<1>7. QED
  BY <1>5, <1>6

\* Which calls are open.
LEMMA OpenGoesOn ==
  ASSUME NEW s \in Seq(Event), NEW p \in 1 .. Len(s), NotOver(s, p - 1)
  PROVE  /\ s[p].type # "done" => NotOver(s, p)
         /\ s[p].type \in {"text", "args"} => StillOpen(s, p) = StillOpen(s, p - 1)
         /\ s[p].type = "stop" => StillOpen(s, p) = StillOpen(s, p - 1) \ {s[p].call}
<1>1. p \in Nat \ {0}
  OBVIOUS
<1>2. \A n \in 1 .. p : n = p \/ n \in 1 .. p - 1
  OBVIOUS
<1>3. s[p].type # "done" => NotOver(s, p)
  BY <1>2 DEF NotOver
<1>4. \A i : /\ Begun(s, i, p) <=> Begun(s, i, p - 1) \/ (s[p].type = "start" /\ s[p].call = i)
             /\ Stopped(s, i, p) <=> Stopped(s, i, p - 1) \/ (s[p].type = "stop" /\ s[p].call = i)
  BY <1>1, BegunStep
<1>5. ASSUME s[p].type \in {"text", "args"}
      PROVE  StillOpen(s, p) = StillOpen(s, p - 1)
  <2>1. \A i : (Begun(s, i, p) <=> Begun(s, i, p - 1)) /\ (Stopped(s, i, p) <=> Stopped(s, i, p - 1))
    BY <1>4, <1>5
  <2>2. QED
    BY <2>1 DEF StillOpen
<1>6. ASSUME s[p].type = "stop"
      PROVE  StillOpen(s, p) = StillOpen(s, p - 1) \ {s[p].call}
  <2>1. \A i : /\ Begun(s, i, p) <=> Begun(s, i, p - 1)
               /\ Stopped(s, i, p) <=> Stopped(s, i, p - 1) \/ i = s[p].call
    BY <1>4, <1>6
  <2>2. QED
    BY <2>1 DEF StillOpen
<1>7. QED
  BY <1>3, <1>5, <1>6

\* The calls stay as they were with a text, a stop or the end.
LEMMA CallsStay ==
  ASSUME NEW s \in Seq(Event), NEW p \in 1 .. Len(s), NEW calls, NEW mixed,
         CallsAre(s, mixed, p - 1, calls), s[p].type \notin {"start", "args"}
  PROVE  CallsAre(s, mixed, p, calls)
<1>1. EventsIn(s, "start", Call, p) = EventsIn(s, "start", Call, p - 1)
  BY OtherEvent
<1>2. \A i : EventsIn(s, "args", {i}, p) = EventsIn(s, "args", {i}, p - 1)
  BY OtherEvent
<1>3. QED
  BY <1>1, <1>2 DEF CallsAre

\* The calls have started, and are different.
LEMMA CallsHaveBegun ==
  ASSUME NEW s \in Seq(Event), NEW p \in 0 .. Len(s), NEW calls \in Seq(Calls), NEW mixed,
         CallsAre(s, mixed, p, calls)
  PROVE  \A k \in 1 .. Len(calls) : calls[k].id \in Call /\ Begun(s, calls[k].id, p)
<1>1. PICK f : f = EventsIn(s, "start", Call, p)
  OBVIOUS
<1>2. f \in Seq(1 .. Len(s))
  BY <1>1, EventsType
<1>3. ASSUME NEW k \in 1 .. Len(calls)
      PROVE  calls[k].id \in Call /\ Begun(s, calls[k].id, p)
  <2>1. Len(calls) = Len(f) /\ calls[k].id = s[f[k]].call
    BY <1>1 DEF CallsAre
  <2>2. k \in DOMAIN f
    BY <1>2, <2>1
  <2>3. f[k] \in 1 .. p /\ s[f[k]].type = "start" /\ s[f[k]].call \in Call
    BY <1>1, <2>2, EventsAre
  <2>4. QED
    BY <2>1, <2>3 DEF Begun
<1>4. QED
  BY <1>3

\* A call starts.
LEMMA CallStarts ==
  ASSUME NEW s \in Seq(Event), WellFormed(s), NEW p \in 1 .. Len(s), NEW calls \in Seq(Calls),
         NEW mixed, CallsAre(s, mixed, p - 1, calls), NotOver(s, p - 1), s[p].type = "start",
         NEW c, c = [id |-> s[p].call, args |-> <<>>]
  PROVE  /\ Append(calls, c) \in Seq(Calls) /\ CallsAre(s, mixed, p, Append(calls, c))
         /\ StillOpen(s, p) = StillOpen(s, p - 1) \cup {s[p].call} /\ s[p].call \in Call
<1>1. Len(s) \in Nat /\ p - 1 \in 0 .. Len(s) /\ p \in Nat \ {0}
  OBVIOUS
<1>2. s[p] \in Event /\ s[p].call \in Call
  BY EventFields
<1>3. c \in Calls
  BY <1>2 DEF Calls
<1>4. PICK f : f = EventsIn(s, "start", Call, p - 1)
  OBVIOUS
<1>5. f \in Seq(1 .. Len(s))
  BY <1>1, <1>4, EventsType
<1>6. EventsIn(s, "start", Call, p) = Append(f, p)
  BY <1>2, <1>4, OwnEvent
<1>7. \A i : EventsIn(s, "args", {i}, p) = EventsIn(s, "args", {i}, p - 1)
  BY OtherEvent
<1>8. ~ Begun(s, s[p].call, p - 1)
  BY DEF WellFormed
<1>9. ~ Stopped(s, s[p].call, p - 1) /\ EventsIn(s, "args", {s[p].call}, p - 1) = <<>>
  BY <1>1, <1>8, SilentBeforeStart
<1>10. PICK g, h : g = Append(calls, c) /\ h = Append(f, p)
  OBVIOUS
<1>11. /\ g \in Seq(Calls) /\ Len(g) = Len(calls) + 1 /\ Len(calls) \in Nat
       /\ g[Len(calls) + 1] = c /\ \A k \in 1 .. Len(calls) : g[k] = calls[k]
  BY <1>3, <1>10
<1>12. /\ Len(h) = Len(f) + 1 /\ h[Len(f) + 1] = p /\ \A k \in 1 .. Len(f) : h[k] = f[k]
  BY <1>5, <1>10
<1>13. /\ Len(calls) = Len(f)
       /\ \A k \in 1 .. Len(calls) :
            /\ calls[k].id = s[f[k]].call
            /\ ~ mixed => calls[k].args = EventsIn(s, "args", {calls[k].id}, p - 1)
  BY <1>4 DEF CallsAre
<1>14. ASSUME NEW k \in 1 .. Len(g)
       PROVE  /\ g[k].id = s[h[k]].call
              /\ ~ mixed => g[k].args = EventsIn(s, "args", {g[k].id}, p)
  <2>1. k = Len(calls) + 1 \/ k \in 1 .. Len(calls)
    BY <1>11
  <2>2. CASE k = Len(calls) + 1
    <3>1. g[k] = c /\ h[k] = p
      BY <1>11, <1>12, <1>13, <2>2
    <3>2. c.id = s[p].call /\ c.args = <<>>
      OBVIOUS
    <3>3. QED
      BY <1>7, <1>9, <3>1, <3>2
  <2>3. CASE k \in 1 .. Len(calls)
    <3>1. g[k] = calls[k] /\ h[k] = f[k]
      BY <1>11, <1>12, <1>13, <2>3
    <3>2. QED
      BY <1>7, <1>13, <2>3, <3>1
  <2>4. QED
    BY <2>1, <2>2, <2>3
<1>15. Len(g) = Len(h)
  BY <1>11, <1>12, <1>13
<1>16. CallsAre(s, mixed, p, g)
  BY <1>6, <1>10, <1>14, <1>15 DEF CallsAre
<1>17. \A i : /\ Begun(s, i, p) <=> Begun(s, i, p - 1) \/ s[p].call = i
              /\ Stopped(s, i, p) <=> Stopped(s, i, p - 1)
  BY <1>1, BegunStep
<1>18. StillOpen(s, p) = StillOpen(s, p - 1) \cup {s[p].call}
  BY <1>2, <1>9, <1>17 DEF StillOpen
<1>19. QED
  BY <1>2, <1>10, <1>11, <1>16, <1>18

\* A part of the arguments comes to a call: with its own calls it is in its place.
LEMMA ArgsGoOn ==
  ASSUME NEW s \in Seq(Event), Len(s) <= MaxEvents, NEW p \in 1 .. Len(s), NEW calls \in Seq(Calls),
         NEW mixed, CallsAre(s, mixed, p - 1, calls), s[p].type = "args",
         NEW i, ~ mixed => i = s[p].call,
         NEW c, c = WithArgs(calls, i, p)
  PROVE  c \in Seq(Calls) /\ CallsAre(s, mixed, p, c)
<1>1. Len(s) \in Nat /\ p \in 1 .. MaxEvents /\ DOMAIN calls = 1 .. Len(calls) /\ Len(calls) \in Nat
  BY StreamBounds
<1>2. s[p] \in Event /\ s[p].call \in Call
  BY EventFields
<1>3. ASSUME NEW k \in DOMAIN calls
      PROVE  /\ c[k] \in Calls /\ c[k].id = calls[k].id
             /\ c[k].args = IF calls[k].id = i THEN Append(calls[k].args, p) ELSE calls[k].args
  <2>1. calls[k] \in Calls
    OBVIOUS
  <2>2. calls[k].args \in Seq(1 .. MaxEvents) /\ calls[k].id \in Call
    BY <2>1 DEF Calls
  <2>3. Append(calls[k].args, p) \in Seq(1 .. MaxEvents)
    BY <1>1, <2>2
  <2>4. CASE calls[k].id = i
    <3>1. c[k] = [calls[k] EXCEPT !.args = Append(@, p)]
      BY <2>4 DEF WithArgs
    <3>2. QED
      BY <2>1, <2>2, <2>3, <2>4, <3>1 DEF Calls
  <2>5. CASE calls[k].id # i
    <3>1. c[k] = calls[k]
      BY <2>5 DEF WithArgs
    <3>2. QED
      BY <2>1, <2>5, <3>1
  <2>6. QED
    BY <2>4, <2>5
<1>4. DOMAIN c = 1 .. Len(calls) /\ c = [k \in 1 .. Len(calls) |-> c[k]]
  BY <1>1 DEF WithArgs
<1>5. c \in Seq(Calls) /\ Len(c) = Len(calls)
  <2>1. c \in [1 .. Len(calls) -> Calls]
    BY <1>1, <1>3, <1>4
  <2>2. PICK n \in Nat : n = Len(calls)
    BY <1>1
  <2>3. c \in [1 .. n -> Calls]
    BY <2>1, <2>2
  <2>4. c \in Seq(Calls) /\ Len(c) = n
    BY <2>3
  <2>5. QED
    BY <2>2, <2>4
<1>6. PICK f : f = EventsIn(s, "start", Call, p - 1)
  OBVIOUS
<1>7. EventsIn(s, "start", Call, p) = f
  BY <1>6, OtherEvent
<1>8. /\ Len(calls) = Len(f)
      /\ \A k \in 1 .. Len(calls) :
           /\ calls[k].id = s[f[k]].call
           /\ ~ mixed => calls[k].args = EventsIn(s, "args", {calls[k].id}, p - 1)
  BY <1>6 DEF CallsAre
<1>9. ASSUME NEW k \in 1 .. Len(calls), ~ mixed
      PROVE  c[k].args = EventsIn(s, "args", {c[k].id}, p)
  <2>1. PICK j : j = calls[k].id
    OBVIOUS
  <2>2. calls[k].args = EventsIn(s, "args", {j}, p - 1) /\ c[k].id = j
    BY <1>1, <1>3, <1>8, <1>9, <2>1
  <2>3. CASE j = i
    <3>1. s[p].call \in {j}
      BY <1>9, <2>3
    <3>2. EventsIn(s, "args", {j}, p) = Append(EventsIn(s, "args", {j}, p - 1), p)
      BY <3>1, OwnEvent
    <3>3. c[k].args = Append(calls[k].args, p)
      BY <1>1, <1>3, <2>1, <2>3
    <3>4. QED
      BY <2>2, <3>2, <3>3
  <2>4. CASE j # i
    <3>1. s[p].call \notin {j}
      BY <1>9, <2>4
    <3>2. EventsIn(s, "args", {j}, p) = EventsIn(s, "args", {j}, p - 1)
      BY <3>1, OtherEvent
    <3>3. c[k].args = calls[k].args
      BY <1>1, <1>3, <2>1, <2>4
    <3>4. QED
      BY <2>2, <3>2, <3>3
  <2>5. QED
    BY <2>3, <2>4
<1>10. \A k \in 1 .. Len(c) : /\ c[k].id = s[f[k]].call
                              /\ ~ mixed => c[k].args = EventsIn(s, "args", {c[k].id}, p)
  BY <1>1, <1>3, <1>5, <1>8, <1>9
<1>11. CallsAre(s, mixed, p, c)
  BY <1>5, <1>7, <1>8, <1>10 DEF CallsAre
<1>12. QED
  BY <1>5, <1>11

\* Two calls that are open at once are mixed.
LEMMA OpenTogether ==
  ASSUME NEW s \in Seq(Event), s = script, NEW p \in 0 .. Len(s), api = "responses",
         NEW i \in StillOpen(s, p), NEW j \in StillOpen(s, p), i # j
  PROVE  Mixed
<1>1. PICK n \in 1 .. p : s[n].type = "start" /\ s[n].call = i
  BY DEF StillOpen, Begun
<1>2. PICK m \in 1 .. p : s[m].type = "start" /\ s[m].call = j
  BY DEF StillOpen, Begun
<1>3. n < m \/ m < n
  BY <1>1, <1>2
<1>4. \A k \in 1 .. p : ~ (s[k].type = "stop" /\ (s[k].call = i \/ s[k].call = j))
  BY DEF StillOpen, Stopped
<1>5. (\A k \in n .. m : k \in 1 .. p) /\ (\A k \in m .. n : k \in 1 .. p)
  OBVIOUS
<1>6. n \in DOMAIN script /\ m \in DOMAIN script
  OBVIOUS
<1>7. CASE n < m
  BY <1>1, <1>2, <1>4, <1>5, <1>6, <1>7 DEF Mixed
<1>8. CASE m < n
  BY <1>1, <1>2, <1>4, <1>5, <1>6, <1>8 DEF Mixed
<1>9. QED
  BY <1>3, <1>7, <1>8

\* The parts of an answer.
LEMMA AssembledParts ==
  ASSUME NEW s, NEW mixed, NEW p, NEW a \in Answer, NEW text \in Seq(0 .. MaxEvents),
         NEW calls \in Seq(Calls), NEW open \in SUBSET Call, NEW ended \in {"no", "done", "error"},
         a.text = text, a.calls = calls, a.open = open, a.ended = ended
  PROVE  Assembled(s, mixed, p, a) <=>
           /\ TextIs(s, p, text) /\ CallsAre(s, mixed, p, calls)
           /\ ended = "no" => open = StillOpen(s, p) /\ NotOver(s, p)
  BY DEF Assembled

\* An event of the server makes of what its predecessors make what it makes with them.
LEMMA EventAssembled ==
  ASSUME NEW s \in Seq(Event), s = script, WellFormed(s), Len(s) <= MaxEvents, NEW p \in 1 .. Len(s),
         NEW mixed, mixed = Mixed, NEW a \in Answer, a.ended = "no", Assembled(s, mixed, p - 1, a),
         NEW whole \in BOOLEAN, whole \/ s[p].wide, NEW b \in AfterEvent(p, whole, a)
  PROVE  /\ b \in Answer /\ Assembled(s, mixed, p, b)
         /\ b.ended = IF s[p].type = "done" THEN "done" ELSE "no"
<1>1. PICK text, calls, open : text = a.text /\ calls = a.calls /\ open = a.open
  OBVIOUS
<1>2. text \in Seq(0 .. MaxEvents) /\ calls \in Seq(Calls) /\ open \in SUBSET Call
  BY <1>1, AnswerFields
<1>3. TextIs(s, p - 1, text) /\ CallsAre(s, mixed, p - 1, calls) /\ open = StillOpen(s, p - 1) /\ NotOver(s, p - 1)
  BY <1>1 DEF Assembled
<1>4. s[p] \in Event /\ s[p].type \in {"text", "start", "args", "stop", "done"}
  BY EventFields
<1>5. a = [text |-> text, calls |-> calls, open |-> open, ended |-> "no"]
  BY <1>1 DEF Answer
<1>6. \A t \in Seq(0 .. MaxEvents), c \in Seq(Calls), o \in SUBSET Call, e \in {"no", "done"} :
        b = [text |-> t, calls |-> c, open |-> o, ended |-> e] =>
          /\ b \in Answer /\ b.ended = e
          /\ TextIs(s, p, t) /\ CallsAre(s, mixed, p, c)
             /\ (e = "no" => o = StillOpen(s, p) /\ NotOver(s, p)) => Assembled(s, mixed, p, b)
  <2>1. ASSUME NEW t \in Seq(0 .. MaxEvents), NEW c \in Seq(Calls), NEW o \in SUBSET Call,
               NEW e \in {"no", "done"}, b = [text |-> t, calls |-> c, open |-> o, ended |-> e]
        PROVE  /\ b \in Answer /\ b.ended = e
               /\ TextIs(s, p, t) /\ CallsAre(s, mixed, p, c)
                  /\ (e = "no" => o = StillOpen(s, p) /\ NotOver(s, p)) => Assembled(s, mixed, p, b)
    <3>1. b \in Answer
      BY <2>1, AnswerType
    <3>2. b.text = t /\ b.calls = c /\ b.open = o /\ b.ended = e
      BY <2>1
    <3>3. QED
      BY <3>1, <3>2 DEF Assembled
  <2>2. QED
    BY <2>1
<1>7. CASE s[p].type = "text"
  <2>1. PICK x : x = (IF whole THEN p ELSE Garbled)
    OBVIOUS
  <2>2. x = p \/ (x = Garbled /\ s[p].wide)
    BY <2>1, Zenon
  <2>3. Append(text, x) \in Seq(0 .. MaxEvents) /\ TextIs(s, p, Append(text, x))
    BY <1>2, <1>3, <1>7, <2>2, TextGoesOn
  <2>4. CallsAre(s, mixed, p, calls)
    BY <1>2, <1>3, <1>7, CallsStay
  <2>5. StillOpen(s, p) = open /\ NotOver(s, p)
    BY <1>3, <1>7, OpenGoesOn
  <2>6. b = [a EXCEPT !.text = Append(@, x)]
    BY <1>7, <2>1 DEF AfterEvent
  <2>7. b = [text |-> Append(text, x), calls |-> calls, open |-> open, ended |-> "no"]
    BY <1>5, <2>6
  <2>8. QED
    BY <1>2, <1>6, <1>7, <2>3, <2>4, <2>5, <2>7
<1>8. CASE s[p].type = "start"
  <2>1. PICK c : c = [id |-> s[p].call, args |-> <<>>]
    OBVIOUS
  <2>2. /\ Append(calls, c) \in Seq(Calls) /\ CallsAre(s, mixed, p, Append(calls, c))
        /\ StillOpen(s, p) = open \cup {s[p].call} /\ s[p].call \in Call
    BY <1>2, <1>3, <1>8, <2>1, CallStarts
  <2>3. TextIs(s, p, text) /\ NotOver(s, p)
    BY <1>2, <1>3, <1>8, TextGoesOn, OpenGoesOn
  <2>4. b = [a EXCEPT !.open = @ \cup {s[p].call}, !.calls = Append(@, c)]
    BY <1>8, <2>1 DEF AfterEvent
  <2>5. b = [text |-> text, calls |-> Append(calls, c), open |-> open \cup {s[p].call}, ended |-> "no"]
    BY <1>5, <2>4
  <2>6. open \cup {s[p].call} \in SUBSET Call
    BY <1>2, <2>2
  <2>7. QED
    BY <1>2, <1>6, <1>8, <2>2, <2>3, <2>5, <2>6
<1>9. CASE s[p].type = "args"
  <2>1. PICK i : i = s[p].call
    OBVIOUS
  <2>2. i \in Call
    BY <1>4, <1>9, <2>1, EventFields
  <2>3. i \in open
    BY <1>3, <1>9, <2>1, <2>2 DEF WellFormed, StillOpen
  <2>4. i \in CallOf(i, a)
    BY <1>1, <2>3 DEF CallOf
  <2>5. PICK j \in CallOf(i, a) : b = [a EXCEPT !.calls = WithArgs(@, j, p)]
    BY <1>9, <2>1, <2>4 DEF AfterEvent
  <2>6. ASSUME ~ mixed PROVE j = i
    <3>1. CASE api = "responses"
      <4>1. j \in open
        BY <1>1, <2>5, <3>1 DEF CallOf
      <4>2. p - 1 \in 0 .. Len(s) /\ Len(s) \in Nat
        OBVIOUS
      <4>3. QED
        BY <1>3, <2>3, <2>6, <3>1, <4>1, <4>2, OpenTogether
    <3>2. CASE api # "responses"
      BY <2>5, <3>2 DEF CallOf
    <3>3. QED
      BY <3>1, <3>2
  <2>7. PICK c : c = WithArgs(calls, j, p)
    OBVIOUS
  <2>8. c \in Seq(Calls) /\ CallsAre(s, mixed, p, c)
    BY <1>2, <1>3, <1>9, <2>1, <2>6, <2>7, ArgsGoOn
  <2>9. TextIs(s, p, text) /\ NotOver(s, p) /\ StillOpen(s, p) = open
    BY <1>2, <1>3, <1>9, TextGoesOn, OpenGoesOn
  <2>10. b = [text |-> text, calls |-> c, open |-> open, ended |-> "no"]
    BY <1>1, <1>5, <2>5, <2>7
  <2>11. QED
    BY <1>2, <1>6, <1>9, <2>8, <2>9, <2>10
<1>10. CASE s[p].type = "stop"
  <2>1. b = [text |-> text, calls |-> calls, open |-> open \ {s[p].call}, ended |-> "no"]
    <3>1. b = [a EXCEPT !.open = @ \ {s[p].call}]
      BY <1>10 DEF AfterEvent
    <3>2. QED
      BY <1>5, <3>1
  <2>2. CallsAre(s, mixed, p, calls) /\ TextIs(s, p, text)
    BY <1>2, <1>3, <1>10, CallsStay, TextGoesOn
  <2>3. StillOpen(s, p) = open \ {s[p].call} /\ NotOver(s, p)
    BY <1>3, <1>10, OpenGoesOn
  <2>4. open \ {s[p].call} \in SUBSET Call
    BY <1>2
  <2>5. QED
    BY <1>2, <1>6, <1>10, <2>1, <2>2, <2>3, <2>4
<1>11. CASE s[p].type = "done"
  <2>1. b = [text |-> text, calls |-> calls, open |-> {}, ended |-> "done"]
    <3>1. b = [a EXCEPT !.open = {}, !.ended = "done"]
      BY <1>11 DEF AfterEvent
    <3>2. QED
      BY <1>5, <3>1
  <2>2. CallsAre(s, mixed, p, calls) /\ TextIs(s, p, text)
    BY <1>2, <1>3, <1>11, CallsStay, TextGoesOn
  <2>3. QED
    BY <1>2, <1>6, <1>11, <2>1, <2>2
<1>12. QED
  BY <1>4, <1>7, <1>8, <1>9, <1>10, <1>11

\* Of no event there is nothing.
LEMMA NothingYet ==
  ASSUME NEW s \in Seq(Event), NEW mixed
  PROVE  NothingSaid \in Answer /\ Assembled(s, mixed, 0, NothingSaid)
<1>1. EventsIn(s, "text", {0}, 0) = <<>> /\ EventsIn(s, "start", Call, 0) = <<>>
  <2>1. 0 \in 0 .. Len(s)
    OBVIOUS
  <2>2. QED
    BY <2>1, EventsType
<1>2. TextIs(s, 0, <<>>) /\ CallsAre(s, mixed, 0, <<>>)
  BY <1>1 DEF TextIs, CallsAre
<1>3. {} = StillOpen(s, 0) /\ NotOver(s, 0)
  BY DEF StillOpen, NotOver, Begun
<1>4. <<>> \in Seq(0 .. MaxEvents) /\ <<>> \in Seq(Calls) /\ {} \in SUBSET Call
  OBVIOUS
<1>5. NothingSaid \in Answer
  BY <1>4, AnswerType DEF NothingSaid
<1>6. QED
  BY <1>2, <1>3, <1>5 DEF NothingSaid, Assembled

\* With no script, which calls are mixed makes no difference.
LEMMA NoScript ==
  ASSUME NEW s, s = <<>>, NEW mixed, NEW other, NEW a \in Answer, Assembled(s, mixed, 0, a)
  PROVE  Assembled(s, other, 0, a)
<1>1. s \in Seq(Event) /\ 0 \in 0 .. Len(s)
  OBVIOUS
<1>2. EventsIn(s, "start", Call, 0) = <<>>
  BY <1>1, EventsType
<1>3. PICK calls : calls = a.calls
  OBVIOUS
<1>4. CallsAre(s, mixed, 0, calls)
  BY <1>3 DEF Assembled
<1>5. Len(calls) = 0
  BY <1>2, <1>4 DEF CallsAre
<1>6. CallsAre(s, other, 0, calls)
  BY <1>2, <1>5 DEF CallsAre
<1>7. QED
  BY <1>3, <1>6 DEF Assembled

\* What ended has nothing to be open.
LEMMA EndedAssembled ==
  ASSUME NEW s, NEW mixed, NEW p, NEW a \in Answer, Assembled(s, mixed, p, a),
         NEW open \in SUBSET Call, NEW ended \in {"done", "error"},
         NEW b, b = [text |-> a.text, calls |-> a.calls, open |-> open, ended |-> ended]
  PROVE  b \in Answer /\ b.ended = ended /\ Assembled(s, mixed, p, b)
<1>1. PICK text, calls : text = a.text /\ calls = a.calls
  OBVIOUS
<1>2. text \in Seq(0 .. MaxEvents) /\ calls \in Seq(Calls)
  BY <1>1, AnswerFields
<1>3. b = [text |-> text, calls |-> calls, open |-> open, ended |-> ended]
  BY <1>1
<1>4. b \in Answer
  BY <1>2, <1>3, AnswerType
<1>5. b.text = text /\ b.calls = calls /\ b.ended = ended
  BY <1>3
<1>6. QED
  BY <1>1, <1>4, <1>5 DEF Assembled

\* The pieces of an event.
LEMMA SentType ==
  ASSUME NEW e \in Nat \ {0}, NEW h \in 1 .. 4
  PROVE  /\ Sent(e, h) \in Pieces
         /\ h <= 2 => /\ Sent(e, h) = [event |-> e, half |-> h, whole |-> TRUE]
                      /\ Sent(e, h) # EndOfLine
         /\ h > 2 => Sent(e, h) = EndOfLine
  BY DEF Sent, Piece, EndOfLine, Pieces

LEMMA DecodedIs ==
  ASSUME NEW s \in Seq(Event), NEW e \in 1 .. Len(s), NEW h \in 1 .. 4, NEW q, Decoded(s, q, e, h)
  PROVE  /\ h <= 2 => /\ q # EndOfLine /\ q.event = e /\ q.whole \in BOOLEAN
                      /\ q.whole \/ s[e].wide
         /\ h > 2 => q = EndOfLine
<1>1. e \in Nat \ {0} /\ h \in Nat
  OBVIOUS
<1>2. s[e].wide \in BOOLEAN
  BY EventFields
<1>3. CASE q = Sent(e, h)
  <2>1. CASE h <= 2
    <3>1. q = [event |-> e, half |-> h, whole |-> TRUE] /\ q # EndOfLine
      BY <1>1, <1>3, <2>1, SentType
    <3>2. QED
      BY <1>1, <2>1, <3>1
  <2>2. CASE h > 2
    BY <1>1, <1>3, <2>2, SentType
  <2>3. QED
    BY <1>1, <2>1, <2>2
<1>4. CASE h <= 2 /\ s[e].wide /\ q = [event |-> e, half |-> h, whole |-> FALSE]
  BY <1>1, <1>4 DEF EndOfLine, Piece
<1>5. QED
  BY <1>3, <1>4 DEF Decoded

\* The wire that has brought nothing yet.
AllInPlace(s, l, w) == \A e \in 1 .. Len(s), h \in 1 .. l : w[l * (e - 1) + h] = Sent(e, h)

LEMMA AllToCome ==
  ASSUME NEW s \in Seq(Event), NEW l \in {3, 4}, NEW p, NEW r, NEW w \in Seq(Pieces), NEW d,
         Taken(s, l, p, r, <<>>, w, d), Len(w) = l * Len(s)
  PROVE  /\ p = 0 /\ r = 0 /\ d = <<>>
         /\ AllInPlace(s, l, w)
<1>1. Len(s) \in Nat /\ Len(w) \in Nat /\ p \in 0 .. Len(s) /\ r \in {0, 3} /\ Len(<<>>) = 0
  BY DEF Taken
<1>2. Len(w) + r <= l * (Len(s) - p)
  BY <1>1 DEF Taken
<1>3. p = 0 /\ r = 0
  BY <1>1, <1>2
<1>4. d = <<>>
  BY <1>3 DEF Taken, Collected
<1>5. ASSUME NEW e \in 1 .. Len(s), NEW h \in 1 .. l
      PROVE  w[l * (e - 1) + h] = Sent(e, h)
  <2>1. PICK j : j = l * (e - 1) + h
    OBVIOUS
  <2>2. j \in 1 .. Len(w) /\ Place(l, p, r, e, h) = j /\ j - Len(<<>>) = j /\ e \in p + 1 .. Len(s)
    BY <1>1, <1>3, <2>1 DEF Place
  <2>3. Comes(s, l, p, r, <<>>, w)
    BY DEF Taken
  <2>4. w[j] = Sent(e, h)
    BY <2>2, <2>3 DEF Comes
  <2>5. QED
    BY <2>1, <2>2, <2>4
<1>6. QED
  BY <1>3, <1>4, <1>5 DEF AllInPlace

\* And one more event on it.
LEMMA OneMoreSent ==
  ASSUME NEW s \in Seq(Event), NEW l \in {3, 4}, NEW w \in Seq(Pieces), Len(w) = l * Len(s),
         AllInPlace(s, l, w),
         NEW x \in Event, NEW u \in Seq(Pieces), Len(u) = l, \A h \in 1 .. l : u[h] = Sent(Len(s) + 1, h)
  PROVE  /\ Len(w \o u) = l * Len(Append(s, x))
         /\ Taken(Append(s, x), l, 0, 0, <<>>, w \o u, <<>>)
<1>1. Len(s) \in Nat /\ Len(w) \in Nat
  OBVIOUS
<1>2. PICK t, v : t = Append(s, x) /\ v = w \o u
  OBVIOUS
<1>3. t \in Seq(Event) /\ Len(t) = Len(s) + 1 /\ v \in Seq(Pieces) /\ Len(v) = Len(w) + l
  <2>1. t \in Seq(Event) /\ Len(t) = Len(s) + 1
    BY <1>2
  <2>2. v \in Seq(Pieces) /\ Len(v) = Len(w) + Len(u)
    <3>1. PICK T : T = Pieces
      OBVIOUS
    <3>2. w \in Seq(T) /\ u \in Seq(T)
      BY <3>1
    <3>3. w \o u \in Seq(T) /\ Len(w \o u) = Len(w) + Len(u)
      BY ONLY <3>2
    <3>4. QED
      BY ONLY <1>2, <3>1, <3>3
  <2>3. QED
    BY <2>1, <2>2
<1>4. \A j \in 1 .. Len(w) : v[j] = w[j]
  BY <1>2
<1>5. \A h \in 1 .. l : v[Len(w) + h] = u[h]
  BY <1>1, <1>2
<1>6. Len(v) = l * Len(t)
  BY <1>1, <1>3
<1>7. ASSUME NEW e \in 1 .. Len(t), NEW h \in 1 .. l
      PROVE  v[l * (e - 1) + h] = Sent(e, h)
  <2>1. CASE e = Len(s) + 1
    <3>1. l * (e - 1) + h = Len(w) + h
      BY <1>1, <2>1
    <3>2. QED
      BY <1>5, <2>1, <3>1
  <2>2. CASE e \in 1 .. Len(s)
    <3>1. PICK j : j = l * (e - 1) + h
      OBVIOUS
    <3>2. j \in 1 .. Len(w)
      BY <1>1, <2>2, <3>1
    <3>3. QED
      BY <1>4, <2>2, <3>1, <3>2 DEF AllInPlace
  <2>3. QED
    BY <1>1, <1>3, <2>1, <2>2
<1>8. Comes(t, l, 0, 0, <<>>, v)
  <2>1. ASSUME NEW e \in 0 + 1 .. Len(t), NEW h \in 1 .. l
        PROVE  /\ Place(l, 0, 0, e, h) \notin 1 .. Len(<<>>)
               /\ v[Place(l, 0, 0, e, h) - Len(<<>>)] = Sent(e, h)
    <3>1. PICK j : j = l * (e - 1) + h
      OBVIOUS
    <3>2. e \in 1 .. Len(t) /\ j \in Nat /\ Place(l, 0, 0, e, h) = j /\ j - Len(<<>>) = j /\ j \notin 1 .. Len(<<>>)
      BY <1>1, <1>3, <3>1 DEF Place
    <3>3. QED
      BY <1>7, <3>1, <3>2
  <2>2. QED
    BY <2>1 DEF Comes
<1>9. Taken(t, l, 0, 0, <<>>, v, <<>>)
  BY <1>1, <1>3, <1>6, <1>8 DEF Taken, Collected
<1>10. QED
  BY <1>2, <1>6, <1>9

\* The end of the wire may be lost if the script is not over.
LEMMA EndLost ==
  ASSUME NEW s \in Seq(Event), NEW l \in {3, 4}, NEW p, NEW r, NEW b \in Seq(Pieces),
         NEW w \in Seq(Pieces), NEW d, Taken(s, l, p, r, b, w, d),
         NEW k \in Nat, IsOver(s) => k = 0
  PROVE  LET v == SubSeq(w, 1, Len(w) - k)
         IN  v \in Seq(Pieces) /\ Taken(s, l, p, r, b, v, d)
<1>1. PICK v : v = SubSeq(w, 1, Len(w) - k)
  OBVIOUS
<1>2. v \in Seq(Pieces) /\ Len(v) \in Nat /\ Len(v) <= Len(w) /\ (k = 0 => Len(v) = Len(w))
  BY <1>1
<1>3. \A j \in 1 .. Len(v) : j \in 1 .. Len(w) /\ v[j] = w[j]
  BY <1>1
<1>4. p \in 0 .. Len(s) /\ r \in {0, 3} /\ Len(b) \in Nat /\ Len(w) \in Nat /\ Len(s) \in Nat
  BY DEF Taken
<1>5. Comes(s, l, p, r, b, v)
  BY <1>3 DEF Taken, Comes
<1>6. PICK n : n = l * (Len(s) - p)
  OBVIOUS
<1>7. n \in Int
  BY <1>4, <1>6
<1>8. Len(b) + Len(v) + r <= n
  BY <1>2, <1>4, <1>6, <1>7 DEF Taken
<1>9. IsOver(s) => Len(b) + Len(v) + r = n
  BY <1>2, <1>4, <1>6, <1>7 DEF Taken
<1>10. Taken(s, l, p, r, b, v, d)
  BY <1>4, <1>5, <1>6, <1>8, <1>9 DEF Taken
<1>11. QED
  BY <1>1, <1>2, <1>10

\* Some pieces come from the wire, and a character may break.
LEMMA ChunkTaken ==
  ASSUME NEW s \in Seq(Event), NEW l \in {3, 4}, NEW p, NEW r, NEW b \in Seq(Pieces),
         NEW w \in Seq(Pieces), NEW d, Taken(s, l, p, r, b, w, d),
         NEW n \in 0 .. Len(w), NEW c \in Seq(Pieces), Len(c) = n,
         \A k \in 1 .. n, e \in 1 .. Len(s), h \in 1 .. 4 : w[k] = Sent(e, h) => Decoded(s, c[k], e, h)
  PROVE  Taken(s, l, p, r, b \o c, SubSeq(w, n + 1, Len(w)), d)
<1>1. p \in 0 .. Len(s) /\ r \in {0, 3} /\ Len(b) \in Nat /\ Len(w) \in Nat /\ Len(s) \in Nat /\ n \in Nat
  BY DEF Taken
<1>2. PICK v, q : v = SubSeq(w, n + 1, Len(w)) /\ q = b \o c
  OBVIOUS
<1>3. v \in Seq(Pieces) /\ Len(v) = Len(w) - n /\ \A j \in 1 .. Len(v) : v[j] = w[n + j]
  BY <1>1, <1>2
<1>4. /\ q \in Seq(Pieces) /\ Len(q) = Len(b) + n
      /\ \A j \in 1 .. Len(b) : q[j] = b[j]
      /\ \A j \in 1 .. n : q[Len(b) + j] = c[j]
  <2>1. /\ q \in Seq(Pieces) /\ Len(q) = Len(b) + Len(c)
        /\ \A j \in 1 .. Len(b) : q[j] = b[j]
        /\ \A j \in 1 .. Len(c) : q[Len(b) + j] = c[j]
    <3>1. PICK T : T = Pieces
      OBVIOUS
    <3>2. b \in Seq(T) /\ c \in Seq(T)
      BY <3>1
    <3>3. /\ b \o c \in Seq(T) /\ Len(b \o c) = Len(b) + Len(c)
          /\ \A j \in 1 .. Len(b) : (b \o c)[j] = b[j]
          /\ \A j \in 1 .. Len(c) : (b \o c)[Len(b) + j] = c[j]
      BY ONLY <3>2
    <3>4. QED
      BY ONLY <1>2, <3>1, <3>3
  <2>2. QED
    BY <2>1
<1>5. ASSUME NEW e \in p + 1 .. Len(s), NEW h \in 1 .. l
      PROVE  LET j == Place(l, p, r, e, h) IN
             /\ j \in 1 .. Len(q) => Decoded(s, q[j], e, h)
             /\ j - Len(q) \in 1 .. Len(v) => v[j - Len(q)] = Sent(e, h)
  <2>1. PICK j : j = Place(l, p, r, e, h)
    OBVIOUS
  <2>2. j \in Int /\ e \in 1 .. Len(s) /\ h \in 1 .. 4
    BY <1>1, <2>1 DEF Place
  <2>3. /\ j \in 1 .. Len(b) => Decoded(s, b[j], e, h)
        /\ j - Len(b) \in 1 .. Len(w) => w[j - Len(b)] = Sent(e, h)
    BY <2>1 DEF Taken, Comes
  <2>4. ASSUME j \in 1 .. Len(q) PROVE Decoded(s, q[j], e, h)
    <3>1. CASE j \in 1 .. Len(b)
      BY <1>4, <2>3, <3>1
    <3>2. CASE j \notin 1 .. Len(b)
      <4>1. PICK k : k = j - Len(b)
        OBVIOUS
      <4>2. k \in 1 .. n /\ k \in 1 .. Len(w) /\ j = Len(b) + k
        BY <1>1, <1>4, <2>2, <2>4, <3>2, <4>1
      <4>3. w[k] = Sent(e, h)
        BY <2>3, <4>1, <4>2
      <4>4. q[j] = c[k]
        BY <1>4, <4>2
      <4>5. Decoded(s, c[k], e, h)
        BY <2>2, <4>2, <4>3
      <4>6. QED
        BY <4>4, <4>5
    <3>3. QED
      BY <3>1, <3>2
  <2>5. ASSUME j - Len(q) \in 1 .. Len(v) PROVE v[j - Len(q)] = Sent(e, h)
    <3>1. PICK k, i : k = j - Len(q) /\ i = j - Len(b)
      OBVIOUS
    <3>2. k \in 1 .. Len(v) /\ i = n + k /\ i \in 1 .. Len(w)
      BY <1>1, <1>3, <1>4, <2>2, <2>5, <3>1
    <3>3. QED
      BY <1>3, <2>3, <3>1, <3>2
  <2>6. QED
    BY <2>1, <2>4, <2>5
<1>6. Comes(s, l, p, r, q, v)
  BY <1>5 DEF Comes
<1>7. PICK t : t = l * (Len(s) - p)
  OBVIOUS
<1>8. t \in Int /\ Len(q) + Len(v) + r = Len(b) + Len(w) + r
  BY <1>1, <1>3, <1>4, <1>7
<1>9. Len(q) + Len(v) + r <= t /\ (IsOver(s) => Len(q) + Len(v) + r = t)
  BY <1>7, <1>8 DEF Taken
<1>10. Taken(s, l, p, r, q, v, d)
  BY <1>1, <1>6, <1>7, <1>9 DEF Taken
<1>11. QED
  BY <1>2, <1>10

\* Taking c pieces from the buffer.
LEMMA PiecesTaken ==
  ASSUME NEW s \in Seq(Event), NEW l \in {3, 4}, NEW p, NEW r, NEW b \in Seq(Pieces),
         NEW w \in Seq(Pieces), NEW d, Taken(s, l, p, r, b, w, d),
         NEW c \in 0 .. Len(b), NEW i \in p .. Len(s), NEW t \in {0, 3}, NEW x,
         l * i + t = l * p + r + c, Collected(s, l, i, t, x)
  PROVE  /\ SubSeq(b, c + 1, Len(b)) \in Seq(Pieces)
         /\ Taken(s, l, i, t, SubSeq(b, c + 1, Len(b)), w, x)
<1>1. p \in 0 .. Len(s) /\ r \in {0, 3} /\ Len(b) \in Nat /\ Len(w) \in Nat /\ Len(s) \in Nat /\ c \in Nat
  BY DEF Taken
<1>2. PICK v : v = SubSeq(b, c + 1, Len(b))
  OBVIOUS
<1>3. v \in Seq(Pieces) /\ Len(v) = Len(b) - c /\ \A j \in 1 .. Len(v) : v[j] = b[c + j]
  BY <1>1, <1>2
<1>4. ASSUME NEW e \in i + 1 .. Len(s), NEW h \in 1 .. l
      PROVE  LET j == Place(l, i, t, e, h) IN
             /\ j \in 1 .. Len(v) => Decoded(s, v[j], e, h)
             /\ j - Len(v) \in 1 .. Len(w) => w[j - Len(v)] = Sent(e, h)
  <2>1. PICK j, k : j = Place(l, i, t, e, h) /\ k = Place(l, p, r, e, h)
    OBVIOUS
  <2>2. e \in p + 1 .. Len(s) /\ k \in Int /\ j \in Int /\ k = j + c
    BY <1>1, <2>1 DEF Place
  <2>3. /\ k \in 1 .. Len(b) => Decoded(s, b[k], e, h)
        /\ k - Len(b) \in 1 .. Len(w) => w[k - Len(b)] = Sent(e, h)
    BY <2>1, <2>2 DEF Taken, Comes
  <2>4. ASSUME j \in 1 .. Len(v) PROVE Decoded(s, v[j], e, h)
    <3>1. k \in 1 .. Len(b) /\ v[j] = b[k]
      <4>1. k = c + j
        BY <1>1, <2>2
      <4>2. k \in 1 .. Len(b)
        BY <1>1, <1>3, <2>2, <2>4
      <4>3. v[j] = b[c + j]
        BY <1>3, <2>4
      <4>4. QED
        BY <4>1, <4>2, <4>3
    <3>2. QED
      BY <2>3, <3>1
  <2>5. j - Len(v) = k - Len(b)
    BY <1>1, <1>3, <2>2
  <2>6. QED
    BY <2>1, <2>3, <2>4, <2>5
<1>5. Comes(s, l, i, t, v, w)
  BY <1>4 DEF Comes
<1>6. PICK m, n : m = l * (Len(s) - p) /\ n = l * (Len(s) - i)
  OBVIOUS
<1>7. m \in Int /\ n \in Int /\ m - r - c = n - t
  BY <1>1, <1>6
<1>8. Len(b) + Len(w) + r <= m /\ (IsOver(s) => Len(b) + Len(w) + r = m)
  BY <1>6 DEF Taken
<1>9. Len(v) + Len(w) + t <= n /\ (IsOver(s) => Len(v) + Len(w) + t = n)
  BY <1>1, <1>3, <1>7, <1>8
<1>10. i \in 0 .. Len(s)
  BY <1>1
<1>11. Taken(s, l, i, t, v, w, x)
  BY <1>5, <1>6, <1>9, <1>10 DEF Taken
<1>12. QED
  BY <1>2, <1>3, <1>11

\* What the next pieces of the buffer are.
LEMMA NextPieces ==
  ASSUME NEW s \in Seq(Event), NEW l \in {3, 4}, NEW p, NEW r, NEW b \in Seq(Pieces),
         NEW w \in Seq(Pieces), NEW d, Taken(s, l, p, r, b, w, d)
  PROVE  /\ b # <<>> => p < Len(s)
         /\ r = 0 => \A h \in 1 .. l : h <= Len(b) => Decoded(s, b[h], p + 1, h)
         /\ r = 3 /\ b # <<>> => b[1] = EndOfLine
<1>1. p \in 0 .. Len(s) /\ r \in {0, 3} /\ Len(b) \in Nat /\ Len(w) \in Nat /\ Len(s) \in Nat
  BY DEF Taken
<1>2. b # <<>> => Len(b) >= 1
  OBVIOUS
<1>3. ASSUME Len(b) >= 1 PROVE p < Len(s)
  <2>1. Len(b) + Len(w) + r <= l * (Len(s) - p)
    BY DEF Taken
  <2>2. QED
    BY <1>1, <1>3, <2>1
<1>4. ASSUME NEW h \in 1 .. l, h - r \in 1 .. Len(b)
      PROVE  Decoded(s, b[h - r], p + 1, h) /\ p + 1 \in 1 .. Len(s)
  <2>1. p + 1 \in p + 1 .. Len(s) /\ p + 1 \in 1 .. Len(s)
    BY <1>1, <1>3, <1>4
  <2>2. Place(l, p, r, p + 1, h) = h - r
    BY <1>1 DEF Place
  <2>3. QED
    BY <1>4, <2>1, <2>2 DEF Taken, Comes
<1>5. ASSUME r = 0, NEW h \in 1 .. l, h <= Len(b) PROVE Decoded(s, b[h], p + 1, h)
  <2>1. h - r = h /\ h \in 1 .. Len(b)
    BY <1>1, <1>5
  <2>2. QED
    BY <1>4, <2>1
<1>6. ASSUME r = 3, Len(b) >= 1 PROVE b[1] = EndOfLine
  <2>1. l = 4
    BY <1>6 DEF Taken, Collected
  <2>2. PICK h \in 1 .. l : h = 4 /\ h - r = 1
    BY <1>6, <2>1
  <2>3. Decoded(s, b[1], p + 1, h) /\ p + 1 \in 1 .. Len(s)
    BY <1>1, <1>4, <1>6, <2>2
  <2>4. QED
    BY <2>2, <2>3, DecodedIs
<1>7. QED
  BY <1>2, <1>3, <1>5, <1>6

\* Where the first line ends.
EndsOf(b) == {n \in DOMAIN b : b[n] = EndOfLine}

LEMMA FirstLine ==
  ASSUME NEW s \in Seq(Event), NEW l \in {3, 4}, NEW p, NEW r, NEW b \in Seq(Pieces),
         NEW w \in Seq(Pieces), NEW d, Taken(s, l, p, r, b, w, d)
  PROVE  LET c == IF r = 0 THEN 3 ELSE 1
         IN  /\ EndsOf(b) # {} => Len(b) >= c /\ Min(EndsOf(b)) = c
             /\ EndsOf(b) = {} => Len(b) < c
<1>0. PICK ends : ends = EndsOf(b) /\ ends = {n \in DOMAIN b : b[n] = EndOfLine}
  BY DEF EndsOf
<1>1. p \in 0 .. Len(s) /\ r \in {0, 3} /\ Len(b) \in Nat /\ Len(s) \in Nat /\ DOMAIN b = 1 .. Len(b)
  BY DEF Taken
<1>2. ASSUME NEW m \in ends, \A n \in ends : m <= n
      PROVE  Min(ends) = m
  <2>1. ends \in SUBSET Int
    BY <1>0, <1>1
  <2>2. \A x \in ends : (\A n \in ends : x <= n) => x = m
    BY <1>2, <2>1
  <2>3. QED
    BY <1>2, <2>2 DEF Min
<1>3. CASE r = 3
  <2>1. b # <<>> => 1 \in ends
    BY <1>0, <1>1, <1>3, NextPieces
  <2>2. \A n \in ends : 1 <= n /\ n <= Len(b)
    BY <1>0, <1>1
  <2>3. b = <<>> => ends = {} /\ Len(b) = 0
    BY <1>0
  <2>4. ends # {} => Len(b) >= 1 /\ Min(ends) = 1
    BY <1>1, <1>2, <2>1, <2>2, <2>3
  <2>5. ends = {} => Len(b) < 1
    BY <2>1, <2>3
  <2>6. 3 # 0
    OBVIOUS
  <2>7. QED
    BY <1>0, <1>3, <2>4, <2>5, <2>6
<1>4. CASE r = 0
  <2>1. \A h \in 1 .. l : h <= Len(b) => Decoded(s, b[h], p + 1, h)
    BY <1>4, NextPieces
  <2>2. Len(b) >= 1 => p + 1 \in 1 .. Len(s)
    BY <1>1, NextPieces
  <2>3. ASSUME NEW h \in 1 .. 3, h <= Len(b)
        PROVE  b[h] = EndOfLine <=> h = 3
    <3>1. h \in 1 .. l /\ h \in 1 .. 4 /\ p + 1 \in 1 .. Len(s)
      BY <1>1, <2>2, <2>3
    <3>2. Decoded(s, b[h], p + 1, h)
      BY <2>1, <2>3, <3>1
    <3>3. (h <= 2 => b[h] # EndOfLine) /\ (h > 2 => b[h] = EndOfLine)
      BY <3>1, <3>2, DecodedIs
    <3>4. QED
      BY <2>3, <3>3
  <2>4. \A n \in ends : n >= 3 /\ n <= Len(b)
    BY <1>0, <1>1, <2>3
  <2>5. Len(b) >= 3 => 3 \in ends
    BY <1>0, <1>1, <2>3
  <2>6. ends # {} => Len(b) >= 3 /\ Min(ends) = 3
    <3>1. ASSUME ends # {} PROVE Len(b) >= 3 /\ 3 \in ends
      <4>1. PICK k \in ends : TRUE
        BY <3>1
      <4>2. QED
        BY <1>0, <1>1, <2>4, <2>5, <4>1
    <3>2. QED
      BY <1>2, <2>4, <3>1
  <2>7. QED
    BY <1>0, <1>1, <1>4, <2>5, <2>6
<1>5. QED
  BY <1>1, <1>3, <1>4

\* What the pieces of a line are.
LEMMA LineOfEvent ==
  ASSUME NEW s \in Seq(Event), NEW p \in 0 .. Len(s), p < Len(s), NEW line, Len(line) = 2,
         Decoded(s, line[1], p + 1, 1), Decoded(s, line[2], p + 1, 2)
  PROVE  /\ line[1].event = p + 1 /\ p + 1 \in 1 .. Len(s)
         /\ (line[1].whole /\ line[2].whole) \in BOOLEAN
         /\ (line[1].whole /\ line[2].whole) \/ s[p + 1].wide
<1>1. p + 1 \in 1 .. Len(s) /\ 1 \in 1 .. 4 /\ 2 \in 1 .. 4 /\ 1 <= 2 /\ 2 <= 2
  OBVIOUS
<1>2. /\ line[1].event = p + 1
      /\ (line[1].whole \/ s[p + 1].wide) /\ (line[2].whole \/ s[p + 1].wide)
  BY <1>1, DecodedIs
<1>3. QED
  BY <1>1, <1>2

LEMMA StreamStart == StreamInit => StreamInv
<1> SUFFICES ASSUME StreamInit PROVE StreamInv
  OBVIOUS
<1>1. /\ api = "none" /\ script = <<>> /\ wire = <<>> /\ connected = TRUE
      /\ buffer = <<>> /\ data = <<>> /\ answer = NothingSaid
  BY DEF StreamInit, NothingSaid
<1>2. answer \in Answer /\ Assembled(script, Mixed, 0, answer)
  <2>1. PICK s : s = <<>>
    OBVIOUS
  <2>2. \A m : NothingSaid \in Answer /\ Assembled(s, m, 0, NothingSaid)
    <3>1. s \in Seq(Event)
      BY <2>1
    <3>2. QED
      BY <3>1, NothingYet
  <2>3. QED
    BY <1>1, <2>1, <2>2
<1>3. Taken(script, PerEvent, 0, 0, buffer, wire, data)
  BY <1>1 DEF Taken, Comes, Collected, IsOver, PerEvent
<1>4. StreamShape
  <2>1. script \in Seq(Event) /\ Len(script) <= MaxEvents
    BY <1>1, StreamBounds
  <2>2. wire \in Seq(Pieces) /\ buffer \in Seq(Pieces) /\ data \in Seq(Pieces)
    BY <1>1
  <2>3. QED
    BY <1>1, <1>2, <2>1, <2>2 DEF StreamShape
<1>5. ServerPart
  BY <1>1 DEF ServerPart, WellFormed, PerEvent, NothingSaid
<1>6. AnswerPart
  <2>1. answer.ended = "no" /\ 0 \in 0 .. Len(script) /\ 0 \in {0, 3}
    BY <1>1 DEF NothingSaid
  <2>2. QED
    BY <1>2, <1>3, <2>1 DEF AnswerPart
<1>7. QED
  BY <1>4, <1>5, <1>6 DEF StreamInv

\* An event that may follow keeps the script well formed.
LEMMA MayFollowKeeps ==
  ASSUME NEW s \in Seq(Event), s = script, WellFormed(s), ~ Finished, NEW e \in Event, MayFollow(e)
  PROVE  WellFormed(Append(s, e))
<1>1. PICK t : t = Append(s, e)
  OBVIOUS
<1>2. Len(s) \in Nat /\ Len(t) = Len(s) + 1 /\ t[Len(s) + 1] = e /\ \A n \in 1 .. Len(s) : t[n] = s[n]
  BY <1>1
<1>3. \A i, p : p \in 0 .. Len(s) => (Begun(t, i, p) <=> Begun(s, i, p)) /\ (Stopped(t, i, p) <=> Stopped(s, i, p))
  <2>1. \A p \in 0 .. Len(s) : \A n \in 1 .. p : t[n] = s[n]
    BY <1>2
  <2>2. QED
    BY <2>1 DEF Begun, Stopped
<1>4. ASSUME NEW n \in 1 .. Len(s)
      PROVE  /\ t[n].type # "done"
             /\ t[n].type = "start" => ~ Begun(t, t[n].call, n - 1)
             /\ t[n].type \in {"args", "stop"} => Begun(t, t[n].call, n - 1) /\ ~ Stopped(t, t[n].call, n - 1)
  <2>1. t[n] = s[n] /\ n - 1 \in 0 .. Len(s)
    BY <1>2
  <2>2. s[n].type # "done"
    <3>1. s[n].type = "done" => n = Len(s)
      BY DEF WellFormed
    <3>2. s[Len(s)].type # "done"
      BY DEF Finished, Last
    <3>3. QED
      BY <3>1, <3>2
  <2>3. /\ s[n].type = "start" => ~ Begun(s, s[n].call, n - 1)
        /\ s[n].type \in {"args", "stop"} => Begun(s, s[n].call, n - 1) /\ ~ Stopped(s, s[n].call, n - 1)
    BY DEF WellFormed
  <2>4. QED
    BY <1>3, <2>1, <2>2, <2>3
<1>5. /\ e.type = "start" => ~ Begun(s, e.call, Len(s))
      /\ e.type \in {"args", "stop"} => Begun(s, e.call, Len(s)) /\ ~ Stopped(s, e.call, Len(s))
  <2>1. DOMAIN script = 1 .. Len(s)
    OBVIOUS
  <2>2. \A i : (Did("start", i) <=> Begun(s, i, Len(s))) /\ (Did("stop", i) <=> Stopped(s, i, Len(s)))
    BY <2>1 DEF Did, Begun, Stopped
  <2>3. CASE e.type = "start"
    BY <2>2, <2>3 DEF MayFollow
  <2>4. CASE e.type \in {"args", "stop"}
    <3>1. e.call \in Opened
      BY <2>4 DEF MayFollow
    <3>2. QED
      BY <2>2, <2>4, <3>1 DEF Opened
  <2>5. QED
    BY <2>3, <2>4
<1>6. ASSUME NEW n \in 1 .. Len(t)
      PROVE  /\ t[n].type = "done" => n = Len(t)
             /\ t[n].type = "start" => ~ Begun(t, t[n].call, n - 1)
             /\ t[n].type \in {"args", "stop"} => Begun(t, t[n].call, n - 1) /\ ~ Stopped(t, t[n].call, n - 1)
  <2>1. CASE n \in 1 .. Len(s)
    BY <1>4, <2>1
  <2>2. CASE n = Len(s) + 1
    <3>1. t[n] = e /\ n - 1 = Len(s) /\ n - 1 \in 0 .. Len(s) /\ n = Len(t)
      BY <1>2, <2>2
    <3>2. QED
      BY <1>3, <1>5, <3>1
  <2>3. QED
    BY <1>2, <2>1, <2>2
<1>7. QED
  BY <1>1, <1>6 DEF WellFormed

LEMMA StreamOpens ==
  ASSUME StreamInv, NEW a \in Api, ServerStarts(a)
  PROVE  StreamInv'
<1>1. /\ api = "none" /\ api' \in Api /\ script' = script /\ wire' = wire /\ connected' = connected
      /\ buffer' = buffer /\ data' = data /\ answer' = answer
  BY DEF ServerStarts
<1>2. script = <<>>
  BY <1>1 DEF StreamInv, ServerPart
<1>3. StreamShape'
  BY <1>1 DEF StreamInv, StreamShape
<1>4. ServerPart'
  <2>1. api' # "none"
    BY <1>1, StreamBounds
  <2>2. Len(script) = 0 /\ PerEvent \in Nat /\ PerEvent' \in Nat
    BY <1>2 DEF PerEvent
  <2>3. connected => Len(wire) = PerEvent * 0
    BY <2>2 DEF StreamInv, ServerPart
  <2>4. \A n \in Nat : n * 0 = 0
    OBVIOUS
  <2>5. connected => Len(wire) = 0
    BY <2>2, <2>3, <2>4
  <2>6. PerEvent' * Len(script) = 0
    BY <2>2, <2>4
  <2>7. QED
    BY <1>1, <2>1, <2>5, <2>6 DEF StreamInv, ServerPart, NothingSaid
<1>5. AnswerPart'
  <2>1. PICK s, b, w, d, x : s = script /\ b = buffer /\ w = wire /\ d = data /\ x = answer
    OBVIOUS
  <2>2. s' = s /\ b' = b /\ w' = w /\ d' = d /\ x' = x
    OBVIOUS
  <2>3. Len(s) = 0 /\ x \in Answer
    BY <1>2, <2>1 DEF StreamInv, StreamShape
  <2>4. \E m : Assembled(s, m, 0, x)
    BY <2>1, <2>3 DEF StreamInv, AnswerPart
  <2>5. \A m : Assembled(s, m, 0, x)
    BY <1>2, <2>1, <2>3, <2>4, NoScript
  <2>6. ASSUME x.ended = "no"
        PROVE  Taken(s, 3, 0, 0, b, w, d) /\ Taken(s, 4, 0, 0, b, w, d)
    <3>1. PICK r \in {0, 3} : Taken(s, PerEvent, 0, r, b, w, d)
      BY <2>1, <2>3, <2>6 DEF StreamInv, AnswerPart
    <3>2. b \in Seq(Pieces) /\ w \in Seq(Pieces)
      BY <2>1 DEF StreamInv, StreamShape
    <3>3. Len(b) + Len(w) + r <= PerEvent * 0 /\ PerEvent * 0 = 0
      BY <2>3, <3>1 DEF Taken, PerEvent
    <3>4. Len(b) = 0 /\ Len(w) = 0 /\ r = 0
      BY <3>2, <3>3
    <3>5. d = <<>>
      BY <3>1, <3>4 DEF Taken, Collected
    <3>6. QED
      BY <1>2, <2>1, <2>3, <3>4, <3>5 DEF Taken, Comes, Collected, IsOver
  <2>7. PerEvent' \in {3, 4}
    BY DEF PerEvent
  <2>8. /\ answer.ended = "no" => Taken(script', PerEvent', 0, 0, buffer', wire', data')
        /\ Assembled(script', Mixed', 0, answer') /\ 0 \in 0 .. Len(script') /\ 0 \in {0, 3}
    BY <1>1, <2>1, <2>3, <2>5, <2>6, <2>7
  <2>9. answer.ended = "done" /\ IsOver(script') => 0 = Len(script')
    BY <1>1, <2>1, <2>3
  <2>10. QED
    BY <1>1, <2>8, <2>9 DEF AnswerPart
<1>6. QED
  BY <1>3, <1>4, <1>5 DEF StreamInv

LEMMA EventSent ==
  ASSUME StreamInv, NEW e \in Event, ServerSends(e)
  PROVE  StreamInv'
<1>1. PICK s, w, l : s = script /\ w = wire /\ l = PerEvent
  OBVIOUS
<1>2. /\ s \in Seq(Event) /\ Len(s) \in Nat /\ WellFormed(s) /\ l \in {3, 4} /\ w \in Seq(Pieces)
      /\ connected /\ buffer = <<>> /\ Len(w) = l * Len(s) /\ answer = NothingSaid /\ api # "none"
      /\ Len(s) < MaxEvents
  BY <1>1 DEF StreamInv, StreamShape, ServerPart, ServerSends, PerEvent
<1>3. PICK t, u : t = Append(s, e) /\ u = OnTheWire(Len(s) + 1)
  OBVIOUS
<1>4. /\ script' = t /\ wire' = w \o u /\ api' = api /\ connected' = connected
      /\ buffer' = buffer /\ data' = data /\ answer' = answer
  BY <1>1, <1>3 DEF ServerSends
<1>5. t \in Seq(Event) /\ Len(t) = Len(s) + 1
  BY <1>2, <1>3
<1>6. u \in Seq(Pieces) /\ Len(u) = l /\ \A h \in 1 .. l : u[h] = Sent(Len(s) + 1, h)
  <2>1. PICK n \in Nat \ {0} : n = Len(s) + 1
    BY <1>2
  <2>2. PICK q1, q2, q3 : q1 = Piece(n, 1) /\ q2 = Piece(n, 2) /\ q3 = EndOfLine
    OBVIOUS
  <2>3. q1 \in Pieces /\ q2 \in Pieces /\ q3 \in Pieces
    BY <2>2 DEF Piece, EndOfLine, Pieces
  <2>4. Sent(n, 1) = q1 /\ Sent(n, 2) = q2 /\ Sent(n, 3) = q3 /\ Sent(n, 4) = q3
    BY <2>2 DEF Sent
  <2>5. CASE api = "anthropic"
    <3>1. u = <<q1, q2, q3>> \o <<q3>> /\ l = 4
      BY <1>1, <1>3, <2>1, <2>2, <2>5 DEF OnTheWire, PerEvent
    <3>2. u \in Seq(Pieces) /\ Len(u) = 4 /\ u[1] = q1 /\ u[2] = q2 /\ u[3] = q3 /\ u[4] = q3
      <4>1. PICK T : T = Pieces
        OBVIOUS
      <4>2. q1 \in T /\ q2 \in T /\ q3 \in T
        BY <2>3, <4>1
      <4>3. QED
        BY ONLY <3>1, <4>1, <4>2
    <3>3. \A h \in 1 .. 4 : h = 1 \/ h = 2 \/ h = 3 \/ h = 4
      OBVIOUS
    <3>4. QED
      BY <2>1, <2>4, <3>1, <3>2, <3>3
  <2>6. CASE api # "anthropic"
    <3>1. u = <<q1, q2, q3>> /\ l = 3
      <4>1. u = <<q1, q2, q3>> \o <<>> /\ l = 3
        BY <1>1, <1>3, <2>1, <2>2, <2>6 DEF OnTheWire, PerEvent
      <4>2. <<q1, q2, q3>> \o <<>> = <<q1, q2, q3>>
        BY ONLY TRUE
      <4>3. QED
        BY <4>1, <4>2
    <3>2. u \in Seq(Pieces) /\ Len(u) = 3 /\ u[1] = q1 /\ u[2] = q2 /\ u[3] = q3
      BY ONLY <2>3, <3>1
    <3>3. \A h \in 1 .. 3 : h = 1 \/ h = 2 \/ h = 3
      OBVIOUS
    <3>4. QED
      BY <2>1, <2>4, <3>1, <3>2, <3>3
  <2>7. QED
    BY <2>5, <2>6
<1>7. PICK p \in 0 .. Len(s), r \in {0, 3} : Taken(s, l, p, r, <<>>, w, data)
  <2>1. answer.ended = "no"
    BY <1>2 DEF NothingSaid
  <2>2. QED
    BY <1>1, <1>2, <2>1 DEF StreamInv, AnswerPart
<1>8. /\ data = <<>>
      /\ AllInPlace(s, l, w)
  BY <1>2, <1>7, AllToCome
<1>9. Len(w \o u) = l * Len(t) /\ Taken(t, l, 0, 0, <<>>, w \o u, <<>>)
  BY <1>2, <1>3, <1>6, <1>8, OneMoreSent
<1>10. WellFormed(t)
  BY <1>1, <1>2, <1>3, MayFollowKeeps DEF ServerSends
<1>11. \A m : Assembled(t, m, 0, NothingSaid)
  BY <1>5, NothingYet
<1>12. PerEvent' = l
  BY <1>1, <1>4 DEF PerEvent
<1>13. StreamShape'
  <2>1. w \o u \in Seq(Pieces)
    BY <1>2, <1>6
  <2>2. Len(t) <= MaxEvents
    BY <1>2, <1>5, StreamBounds
  <2>3. QED
    BY <1>4, <1>5, <2>1, <2>2 DEF StreamInv, StreamShape
<1>14. ServerPart'
  BY <1>2, <1>4, <1>9, <1>10, <1>12 DEF ServerPart
<1>15. AnswerPart'
  <2>1. /\ answer'.ended = "no" /\ 0 \in 0 .. Len(script') /\ 0 \in {0, 3}
        /\ Taken(script', PerEvent', 0, 0, buffer', wire', data') /\ Assembled(script', Mixed', 0, answer')
    BY <1>2, <1>4, <1>5, <1>8, <1>9, <1>11, <1>12 DEF NothingSaid
  <2>2. QED
    BY <2>1 DEF AnswerPart
<1>16. QED
  BY <1>13, <1>14, <1>15 DEF StreamInv

LEMMA ServerHasStopped ==
  ASSUME StreamInv, ServerStops
  PROVE  StreamInv'
<1>1. PICK s, w, l, b, d : s = script /\ w = wire /\ l = PerEvent /\ b = buffer /\ d = data
  OBVIOUS
<1>2. s \in Seq(Event) /\ Len(s) \in Nat /\ l \in {3, 4} /\ w \in Seq(Pieces) /\ b \in Seq(Pieces)
  BY <1>1 DEF StreamInv, StreamShape, PerEvent
<1>3. PICK k \in Nat : wire' = SubSeq(w, 1, Len(w) - k) /\ (IsOver(s) => k = 0)
  <2>1. PICK k \in 0 .. (IF Finished THEN 0 ELSE Len(OnTheWire(1))) : wire' = SubSeq(w, 1, Len(w) - k)
    BY <1>1 DEF ServerStops
  <2>2. IsOver(s) => Finished
    BY <1>1 DEF IsOver, Finished, Last
  <2>3. IsOver(s) => k \in 0 .. 0
    BY <2>1, <2>2
  <2>4. k \in Nat
    BY <2>1
  <2>5. QED
    BY <2>1, <2>3, <2>4
<1>4. /\ script' = s /\ api' = api /\ connected' = FALSE /\ buffer' = b /\ data' = d /\ answer' = answer
  BY <1>1 DEF ServerStops
<1>5. PerEvent' = l /\ Mixed' = Mixed
  BY <1>1, <1>4 DEF PerEvent, Mixed
<1>6. StreamShape'
  <2>1. SubSeq(w, 1, Len(w) - k) \in Seq(Pieces)
    BY <1>2
  <2>2. QED
    BY <1>1, <1>3, <1>4, <2>1 DEF StreamInv, StreamShape
<1>7. ServerPart'
  BY <1>1, <1>4 DEF StreamInv, ServerPart
<1>8. AnswerPart'
  <2>1. ASSUME NEW p, NEW r, Taken(s, l, p, r, b, w, d)
        PROVE  Taken(s, l, p, r, b, wire', d)
    BY <1>2, <1>3, <2>1, EndLost
  <2>2. QED
    BY <1>1, <1>4, <1>5, <2>1 DEF StreamInv, AnswerPart
<1>9. QED
  BY <1>6, <1>7, <1>8 DEF StreamInv

LEMMA ChunkReceived ==
  ASSUME StreamInv, NEW n \in 1 .. MaxChunk, ReceiveChunk(n)
  PROVE  StreamInv'
<1>1. PICK s, w, l, b, d : s = script /\ w = wire /\ l = PerEvent /\ b = buffer /\ d = data
  OBVIOUS
<1>2. s \in Seq(Event) /\ Len(s) \in Nat /\ l \in {3, 4} /\ w \in Seq(Pieces) /\ b \in Seq(Pieces)
  BY <1>1 DEF StreamInv, StreamShape, PerEvent
<1>3. n \in 0 .. Len(w) /\ n \in Nat /\ Len(w) \in Nat
  BY <1>1, <1>2, StreamBounds DEF ReceiveChunk
<1>4. PICK u, c : u = SubSeq(w, 1, n) /\ c = Lossy(u)
  OBVIOUS
<1>5. /\ script' = s /\ api' = api /\ connected' = connected /\ ~ connected /\ answer' = answer
      /\ answer.ended = "no" /\ buffer' = b \o c /\ wire' = SubSeq(w, n + 1, Len(w)) /\ data' = d
  BY <1>1, <1>4 DEF ReceiveChunk
<1>6. u \in Seq(Pieces) /\ Len(u) = n /\ \A k \in 1 .. n : u[k] = w[k]
  BY <1>2, <1>3, <1>4
<1>7. /\ c \in Seq(Pieces) /\ Len(c) = n
      /\ \A k \in 1 .. n : \/ c[k] = [u[k] EXCEPT !.whole = TRUE]
                           \/ /\ c[k] = [u[k] EXCEPT !.whole = FALSE]
                              /\ u[k].half \in {1, 2} /\ s[u[k].event].wide
  <2>1. ASSUME NEW k \in 1 .. n
        PROVE  \/ c[k] = [u[k] EXCEPT !.whole = TRUE]
               \/ /\ c[k] = [u[k] EXCEPT !.whole = FALSE]
                  /\ u[k].half \in {1, 2} /\ s[u[k].event].wide
    <3>1. PICK q : q = u[k]
      OBVIOUS
    <3>2. DEFINE broken == ((q.half = 1 /\ k = Len(u)) \/ (q.half = 2 /\ k = 1)) /\ s[q.event].wide
    <3>3. c[k] = [q EXCEPT !.whole = ~ broken]
      <4>1. k \in DOMAIN u
        BY <1>6
      <4>2. c = [i \in DOMAIN u |->
                   [u[i] EXCEPT !.whole =
                     ~ (((u[i].half = 1 /\ i = Len(u)) \/ (u[i].half = 2 /\ i = 1)) /\ s[u[i].event].wide)]]
        BY <1>1, <1>4 DEF Lossy
      <4>3. QED
        BY <3>1, <4>1, <4>2
    <3>4. CASE broken
      <4>1. c[k] = [q EXCEPT !.whole = FALSE]
        BY <3>3, <3>4
      <4>2. QED
        BY <3>1, <3>4, <4>1
    <3>5. CASE ~ broken
      <4>1. c[k] = [q EXCEPT !.whole = TRUE]
        BY <3>3, <3>5
      <4>2. QED
        BY <3>1, <4>1
    <3>6. QED
      BY <3>4, <3>5
  <2>2. \A k \in 1 .. n : c[k] \in Pieces
    <3>1. ASSUME NEW k \in 1 .. n PROVE c[k] \in Pieces
      <4>1. u[k] \in Pieces
        BY <1>6
      <4>2. [u[k] EXCEPT !.whole = TRUE] \in Pieces /\ [u[k] EXCEPT !.whole = FALSE] \in Pieces
        BY <4>1 DEF Pieces
      <4>3. QED
        BY <2>1, <4>2
    <3>2. QED
      BY <3>1
  <2>3. DOMAIN c = 1 .. n /\ c = [k \in 1 .. n |-> c[k]]
    <3>1. DOMAIN u = 1 .. n
      BY <1>3, <1>6
    <3>2. DOMAIN c = DOMAIN u /\ c = [k \in DOMAIN u |-> c[k]]
      <4>1. PICK f : f = [k \in DOMAIN u |-> c[k]]
        OBVIOUS
      <4>2. DOMAIN c = DOMAIN u
        BY ONLY <1>4 DEF Lossy
      <4>3. QED
        BY ONLY <1>4, <4>2 DEF Lossy
    <3>3. QED
      BY <3>1, <3>2
  <2>4. c \in [1 .. n -> Pieces]
    BY <2>2, <2>3
  <2>5. c \in Seq(Pieces) /\ Len(c) = n
    BY <1>3, <2>4
  <2>6. QED
    BY <2>1, <2>5
<1>8. ASSUME NEW k \in 1 .. n, NEW e \in 1 .. Len(s), NEW h \in 1 .. 4, w[k] = Sent(e, h)
      PROVE  Decoded(s, c[k], e, h)
  <2>1. PICK q : q = u[k]
    OBVIOUS
  <2>2. q = Sent(e, h)
    BY <1>6, <1>8, <2>1
  <2>3. PICK i, g : q = [event |-> i, half |-> g, whole |-> TRUE]
    BY <2>2 DEF Sent, Piece, EndOfLine
  <2>4. CASE c[k] = [q EXCEPT !.whole = TRUE]
    <3>1. c[k] = q
      BY <2>3, <2>4
    <3>2. QED
      BY <2>2, <3>1 DEF Decoded
  <2>5. CASE c[k] = [q EXCEPT !.whole = FALSE] /\ q.half \in {1, 2} /\ s[q.event].wide
    <3>1. h <= 2
      BY <2>2, <2>5 DEF Sent, Piece, EndOfLine
    <3>2. q = [event |-> e, half |-> h, whole |-> TRUE]
      BY <2>2, <3>1 DEF Sent, Piece
    <3>3. c[k] = [event |-> e, half |-> h, whole |-> FALSE] /\ s[e].wide
      BY <2>5, <3>2
    <3>4. QED
      BY <3>1, <3>3 DEF Decoded
  <2>6. QED
    BY <1>7, <2>1, <2>4, <2>5
<1>9. PerEvent' = l /\ Mixed' = Mixed
  BY <1>1, <1>5 DEF PerEvent, Mixed
<1>10. StreamShape'
  <2>1. b \o c \in Seq(Pieces) /\ SubSeq(w, n + 1, Len(w)) \in Seq(Pieces)
    BY <1>2, <1>3, <1>7
  <2>2. QED
    BY <1>1, <1>5, <2>1 DEF StreamInv, StreamShape
<1>11. ServerPart'
  BY <1>1, <1>5 DEF StreamInv, ServerPart
<1>12. AnswerPart'
  <2>1. ASSUME NEW p, NEW r, Taken(s, l, p, r, b, w, d)
        PROVE  Taken(s, l, p, r, b \o c, SubSeq(w, n + 1, Len(w)), d)
    BY <1>2, <1>3, <1>7, <1>8, <2>1, ChunkTaken
  <2>2. QED
    BY <1>1, <1>5, <1>9, <2>1 DEF StreamInv, AnswerPart
<1>13. QED
  BY <1>10, <1>11, <1>12 DEF StreamInv

\* An answer that has gone on by an event, or has ended.
LEMMA TransportHasFailed ==
  ASSUME StreamInv, TransportFails
  PROVE  StreamInv'
<1>1. PICK s, a, m : s = script /\ a = answer /\ m = Mixed
  OBVIOUS
<1>2. /\ script' = s /\ api' = api /\ connected' = connected /\ ~ connected
      /\ buffer' = buffer /\ wire' = wire /\ data' = data
      /\ a.ended = "no" /\ answer' = [a EXCEPT !.ended = "error"]
  BY <1>1 DEF TransportFails
<1>3. a \in Answer
  BY <1>1 DEF StreamInv, StreamShape
<1>4. PICK b : b = answer'
  OBVIOUS
<1>5. b = [text |-> a.text, calls |-> a.calls, open |-> a.open, ended |-> "error"]
  BY <1>2, <1>3, <1>4 DEF Answer
<1>6. PICK p \in 0 .. Len(s) : Assembled(s, m, p, a)
  BY <1>1, <1>2 DEF StreamInv, AnswerPart
<1>7. b \in Answer /\ b.ended = "error" /\ Assembled(s, m, p, b)
  <2>1. a.open \in SUBSET Call
    BY <1>3, AnswerFields
  <2>2. QED
    BY <1>3, <1>5, <1>6, <2>1, EndedAssembled
<1>8. Mixed' = Mixed
  BY <1>1, <1>2 DEF Mixed
<1>9. StreamShape'
  BY <1>1, <1>2, <1>4, <1>7 DEF StreamInv, StreamShape
<1>10. ServerPart'
  BY <1>1, <1>2 DEF StreamInv, ServerPart
<1>11. AnswerPart'
  BY <1>1, <1>2, <1>4, <1>7, <1>8 DEF AnswerPart
<1>12. QED
  BY <1>9, <1>10, <1>11 DEF StreamInv

\* The line of the next event.
LEMMA EventHandled ==
  ASSUME NEW s \in Seq(Event), s = script, WellFormed(s), Len(s) <= MaxEvents, NEW p \in 0 .. Len(s),
         p < Len(s), NEW m, m = Mixed, NEW a \in Answer, a.ended = "no", Assembled(s, m, p, a),
         NEW line, line # <<>>, Len(line) = 2,
         Decoded(s, line[1], p + 1, 1), Decoded(s, line[2], p + 1, 2), NEW b \in AfterLine(line, a)
  PROVE  /\ b \in Answer /\ Assembled(s, m, p + 1, b) /\ b.ended \in {"no", "done"}
         /\ b.ended = "done" => p + 1 = Len(s)
<1>1. PICK n : n = p + 1
  OBVIOUS
<1>2. n \in 1 .. Len(s) /\ n - 1 = p
  BY <1>1
<1>3. PICK whole : whole = (line[1].whole /\ line[2].whole)
  OBVIOUS
<1>4. line[1].event = n /\ whole \in BOOLEAN /\ (whole \/ s[n].wide)
  BY <1>1, <1>3, LineOfEvent
<1>5. b \in AfterEvent(n, whole, a)
  BY <1>3, <1>4 DEF AfterLine
<1>6. Assembled(s, m, n - 1, a)
  BY <1>2
<1>7. /\ b \in Answer /\ Assembled(s, m, n, b)
      /\ b.ended = IF s[n].type = "done" THEN "done" ELSE "no"
  BY <1>2, <1>4, <1>5, <1>6, EventAssembled
<1>8. b.ended = "done" => n = Len(s)
  BY <1>2, <1>7 DEF WellFormed
<1>9. QED
  BY <1>1, <1>7, <1>8

LEMMA LineProcessed ==
  ASSUME StreamInv, ProcessLine
  PROVE  StreamInv'
<1>1. PICK s, w, l, b, d, a, m : /\ s = script /\ w = wire /\ l = PerEvent /\ b = buffer /\ d = data
                                 /\ a = answer /\ m = Mixed
  OBVIOUS
<1>2. /\ s \in Seq(Event) /\ Len(s) \in Nat /\ Len(s) <= MaxEvents /\ WellFormed(s) /\ l \in {3, 4}
      /\ w \in Seq(Pieces) /\ b \in Seq(Pieces) /\ Len(b) \in Nat /\ d \in Seq(Pieces) /\ a \in Answer
  BY <1>1 DEF StreamInv, StreamShape, ServerPart, PerEvent
<1>3. /\ script' = s /\ api' = api /\ connected' = connected /\ wire' = w
      /\ a.ended = "no" /\ LineEnds # {}
  BY <1>1 DEF ProcessLine, HasLine
<1>4. PICK c, line : c = Min(LineEnds) /\ line = SubSeq(b, 1, c - 1)
  OBVIOUS
<1>5. /\ buffer' = SubSeq(b, c + 1, Len(b))
      /\ IF api = "anthropic" /\ line # <<>>
         THEN data' = d \o line /\ answer' = a
         ELSE data' = <<>> /\ answer' \in AfterLine(d \o line, a)
  BY <1>1, <1>4 DEF ProcessLine
<1>6. PICK p \in 0 .. Len(s), r \in {0, 3} : Taken(s, l, p, r, b, w, d) /\ Assembled(s, m, p, a)
  BY <1>1, <1>3 DEF StreamInv, AnswerPart
<1>7. LineEnds = EndsOf(b)
  BY <1>1 DEF LineEnds, EndsOf
<1>8. Len(b) >= c /\ c = (IF r = 0 THEN 3 ELSE 1)
  BY <1>2, <1>3, <1>4, <1>6, <1>7, FirstLine
<1>9. p < Len(s)
  <2>1. b # <<>>
    BY <1>2, <1>8
  <2>2. QED
    BY <1>2, <1>6, <2>1, NextPieces
<1>10. PerEvent' = l /\ Mixed' = m
  BY <1>1, <1>3 DEF PerEvent, Mixed
<1>11. ~ connected
  <2>1. connected => buffer = <<>>
    BY DEF StreamInv, ServerPart
  <2>2. b # <<>>
    BY <1>2, <1>8
  <2>3. QED
    BY <1>1, <2>1, <2>2
<1>12. ASSUME answer' \in Answer, data' \in Seq(Pieces),
              answer'.ended = "no" => \E i \in 0 .. Len(s), t \in {0, 3} :
                Taken(s, l, i, t, buffer', w, data') /\ Assembled(s, m, i, answer'),
              answer'.ended # "no" => Assembled(s, m, Len(s), answer')
       PROVE  StreamInv'
  <2>1. buffer' \in Seq(Pieces)
    BY <1>2, <1>5, <1>8
  <2>2. StreamShape'
    BY <1>1, <1>2, <1>3, <1>12, <2>1 DEF StreamInv, StreamShape
  <2>3. ServerPart'
    BY <1>1, <1>2, <1>3, <1>11 DEF StreamInv, ServerPart
  <2>4. Len(s) \in 0 .. Len(s)
    BY <1>2
  <2>5. AnswerPart'
    BY <1>3, <1>10, <1>12, <2>4 DEF AnswerPart
  <2>6. QED
    BY <2>2, <2>3, <2>5 DEF StreamInv
<1>13. PICK v : v = SubSeq(b, c + 1, Len(b))
  OBVIOUS
<1>14. p + 1 \in p .. Len(s) /\ p \in p .. Len(s) /\ c \in 0 .. Len(b) /\ p + 1 \in 0 .. Len(s)
  BY <1>2, <1>8, <1>9
<1>15. ASSUME NEW x \in Seq(Pieces), x # <<>>, Len(x) = 2,
              Decoded(s, x[1], p + 1, 1), Decoded(s, x[2], p + 1, 2),
              data' = <<>>, answer' \in AfterLine(x, a), l = r + c
       PROVE  StreamInv'
  <2>1. PICK y : y = answer'
    OBVIOUS
  <2>2. y \in AfterLine(x, a)
    BY <1>15, <2>1
  <2>3. /\ y \in Answer /\ Assembled(s, m, p + 1, y) /\ y.ended \in {"no", "done"}
        /\ y.ended = "done" => p + 1 = Len(s)
    BY <1>1, <1>2, <1>3, <1>6, <1>9, <1>15, <2>2, EventHandled
  <2>4. Taken(s, l, p + 1, 0, v, w, <<>>)
    <3>1. l * (p + 1) + 0 = l * p + r + c
      <4>1. c \in Nat /\ p \in Nat /\ r \in Nat
        BY <1>6, <1>8
      <4>2. CASE l = 3
        BY <1>15, <4>1, <4>2
      <4>3. CASE l = 4
        BY <1>15, <4>1, <4>3
      <4>4. QED
        BY <1>2, <4>2, <4>3
    <3>2. Collected(s, l, p + 1, 0, <<>>)
      BY DEF Collected
    <3>3. QED
      BY <1>2, <1>6, <1>13, <1>14, <3>1, <3>2, PiecesTaken
  <2>5. data' \in Seq(Pieces)
    BY <1>15
  <2>6. QED
    BY <1>5, <1>12, <1>13, <1>14, <1>15, <2>1, <2>3, <2>4, <2>5
<1>16. CASE r = 0
  <2>1. c = 3 /\ d = <<>>
    BY <1>6, <1>8, <1>16 DEF Taken, Collected
  <2>2. /\ line \in Seq(Pieces) /\ Len(line) = 2 /\ line # <<>> /\ line[1] = b[1] /\ line[2] = b[2]
    <3>1. line = SubSeq(b, 1, 2)
      BY <1>4, <2>1
    <3>2. Len(line) = 2
      BY <1>2, <1>8, <2>1, <3>1
    <3>3. QED
      BY <1>2, <1>8, <2>1, <3>1, <3>2
  <2>3. Decoded(s, line[1], p + 1, 1) /\ Decoded(s, line[2], p + 1, 2)
    <3>1. \A h \in 1 .. l : h <= Len(b) => Decoded(s, b[h], p + 1, h)
      BY <1>2, <1>6, <1>16, NextPieces
    <3>2. 1 \in 1 .. l /\ 2 \in 1 .. l /\ 1 <= Len(b) /\ 2 <= Len(b)
      BY <1>2, <1>8, <2>1
    <3>3. QED
      BY <2>2, <3>1, <3>2
  <2>4. d \o line = line
    BY <2>1, <2>2
  <2>5. CASE api = "anthropic"
    <3>1. l = 4 /\ data' = line /\ answer' = a
      BY <1>1, <1>5, <2>2, <2>4, <2>5 DEF PerEvent
    <3>2. Collected(s, l, p, 3, line)
      BY <2>2, <2>3, <3>1 DEF Collected
    <3>3. Taken(s, l, p, 3, v, w, line)
      <4>1. l * p + 3 = l * p + r + c
        BY <1>2, <1>6, <1>16, <2>1
      <4>2. QED
        BY <1>2, <1>6, <1>13, <1>14, <3>2, <4>1, PiecesTaken
    <3>4. data' \in Seq(Pieces) /\ answer' \in Answer /\ answer'.ended = "no"
      BY <1>2, <1>3, <2>2, <3>1
    <3>5. QED
      BY <1>5, <1>6, <1>12, <1>13, <3>1, <3>3, <3>4
  <2>6. CASE api # "anthropic"
    <3>1. l = 3 /\ data' = <<>> /\ answer' \in AfterLine(line, a)
      BY <1>1, <1>5, <2>4, <2>6 DEF PerEvent
    <3>2. l = r + c
      BY <1>16, <2>1, <3>1
    <3>3. QED
      BY <1>15, <2>2, <2>3, <3>1, <3>2
  <2>7. QED
    BY <2>5, <2>6
<1>17. CASE r = 3
  <2>1. c = 1 /\ l = 4 /\ Len(d) = 2 /\ Decoded(s, d[1], p + 1, 1) /\ Decoded(s, d[2], p + 1, 2)
    BY <1>6, <1>8, <1>17 DEF Taken, Collected
  <2>2. line = <<>>
    BY <1>2, <1>4, <2>1
  <2>3. d \o line = d /\ d # <<>>
    <3>1. d \o <<>> = d
      BY <1>2, ConcatEmptySeq
    <3>2. QED
      BY <2>1, <2>2, <3>1
  <2>4. data' = <<>> /\ answer' \in AfterLine(d, a) /\ l = r + c
    BY <1>5, <1>17, <2>1, <2>2, <2>3
  <2>5. QED
    BY <1>2, <1>15, <2>1, <2>3, <2>4
<1>18. QED
  BY <1>6, <1>16, <1>17

LEMMA StreamHasEnded ==
  ASSUME StreamInv, EndOfStream
  PROVE  StreamInv'
<1>1. PICK s, l, b, d, a, m : /\ s = script /\ l = PerEvent /\ b = buffer /\ d = data
                              /\ a = answer /\ m = Mixed
  OBVIOUS
<1>2. /\ s \in Seq(Event) /\ Len(s) \in Nat /\ Len(s) <= MaxEvents /\ WellFormed(s) /\ l \in {3, 4}
      /\ b \in Seq(Pieces) /\ Len(b) \in Nat /\ d \in Seq(Pieces) /\ a \in Answer
  BY <1>1 DEF StreamInv, StreamShape, ServerPart, PerEvent
<1>3. /\ script' = s /\ api' = api /\ connected' = connected /\ ~ connected /\ wire' = wire
      /\ a.ended = "no" /\ LineEnds = {} /\ wire = <<>> /\ buffer' = <<>> /\ data' = <<>>
  BY <1>1 DEF EndOfStream, HasLine
<1>4. PICK x \in AfterLine(d \o b, a) :
        answer' = IF x.ended = "no" THEN [x EXCEPT !.ended = "done", !.open = {}] ELSE x
  BY <1>1 DEF EndOfStream
<1>5. PICK p \in 0 .. Len(s), r \in {0, 3} : Taken(s, l, p, r, b, <<>>, d) /\ Assembled(s, m, p, a)
  BY <1>1, <1>3 DEF StreamInv, AnswerPart
<1>6. Len(b) < IF r = 0 THEN 3 ELSE 1
  <2>1. LineEnds = EndsOf(b)
    BY <1>1 DEF LineEnds, EndsOf
  <2>2. <<>> \in Seq(Pieces)
    OBVIOUS
  <2>3. QED
    BY <1>2, <1>3, <1>5, <2>1, <2>2, FirstLine
<1>7. Mixed' = m
  BY <1>1, <1>3 DEF Mixed
<1>8. PICK y : y = answer'
  OBVIOUS
<1>9. ASSUME NEW q \in 0 .. Len(s), x \in Answer, Assembled(s, m, q, x), IsOver(s) => q = Len(s)
      PROVE  /\ y \in Answer /\ Assembled(s, m, q, y) /\ y.ended # "no"
             /\ y.ended = "done" /\ IsOver(s) => q = Len(s)
  <2>1. CASE x.ended = "no"
    <3>1. y = [text |-> x.text, calls |-> x.calls, open |-> {}, ended |-> "done"]
      BY <1>4, <1>8, <1>9, <2>1 DEF Answer
    <3>2. {} \in SUBSET Call
      OBVIOUS
    <3>3. y \in Answer /\ Assembled(s, m, q, y) /\ y.ended = "done"
      BY <1>9, <3>1, <3>2, EndedAssembled
    <3>4. QED
      BY <1>9, <3>3
  <2>2. CASE x.ended # "no"
    BY <1>4, <1>8, <1>9, <2>2
  <2>3. QED
    BY <2>1, <2>2
<1>10. ASSUME NEW q \in 0 .. Len(s), y \in Answer, Assembled(s, m, q, y), y.ended # "no",
              y.ended = "done" /\ IsOver(s) => q = Len(s)
       PROVE  StreamInv'
  <2>1. StreamShape'
    BY <1>1, <1>2, <1>3, <1>8, <1>10 DEF StreamInv, StreamShape
  <2>2. ServerPart'
    BY <1>1, <1>2, <1>3 DEF StreamInv, ServerPart
  <2>3. AnswerPart'
    BY <1>3, <1>7, <1>8, <1>10 DEF AnswerPart
  <2>4. QED
    BY <2>1, <2>2, <2>3 DEF StreamInv
<1>11. /\ p \in Nat /\ Len(b) + r <= l * (Len(s) - p)
       /\ IsOver(s) => Len(b) + r = l * (Len(s) - p)
  BY <1>2, <1>5 DEF Taken
<1>12. ASSUME NEW z, z # <<>>, Len(z) = 2, x \in AfterLine(z, a), p < Len(s),
              Decoded(s, z[1], p + 1, 1), Decoded(s, z[2], p + 1, 2), Len(b) + r \in {2, 3},
              Len(b) + r = 2 \/ l = 4
       PROVE  StreamInv'
  <2>1. /\ x \in Answer /\ Assembled(s, m, p + 1, x) /\ x.ended \in {"no", "done"}
    BY <1>1, <1>2, <1>3, <1>5, <1>12, EventHandled
  <2>2. ~ IsOver(s)
    <3>1. l = 3 => Len(b) + r = 2
      BY <1>12
    <3>2. PICK k \in Nat : k = Len(s) - p
      <4>1. p \in 0 .. Len(s) /\ Len(s) \in Nat
        BY <1>2
      <4>2. Len(s) - p \in Nat
        BY ONLY <4>1
      <4>3. QED
        BY <4>2
    <3>3. l * k # Len(b) + r
      <4>1. CASE l = 3
        BY <1>12, <3>1, <3>2, <4>1
      <4>2. CASE l = 4
        BY <1>12, <3>2, <4>2
      <4>3. QED
        BY <1>2, <4>1, <4>2
    <3>4. QED
      BY <1>11, <3>2, <3>3
  <2>3. p + 1 \in 0 .. Len(s)
    BY <1>2, <1>5, <1>12
  <2>4. QED
    BY <1>9, <1>10, <2>1, <2>2, <2>3
<1>13. CASE r = 3
  <2>1. l = 4 /\ Len(d) = 2 /\ Decoded(s, d[1], p + 1, 1) /\ Decoded(s, d[2], p + 1, 2)
    BY <1>5, <1>13 DEF Taken, Collected
  <2>2. Len(b) = 0 /\ b = <<>>
    BY <1>2, <1>6, <1>13
  <2>3. d \o b = d /\ d # <<>>
    <3>1. d \o <<>> = d
      BY <1>2, ConcatEmptySeq
    <3>2. QED
      BY <2>1, <2>2, <3>1
  <2>4. p < Len(s)
    BY <1>2, <1>11, <1>13, <2>1, <2>2
  <2>5. Len(b) + r = 3
    BY <1>13, <2>2
  <2>6. QED
    BY <1>4, <1>12, <2>1, <2>3, <2>4, <2>5
<1>14. CASE r = 0
  <2>1. d = <<>>
    BY <1>5, <1>14 DEF Taken, Collected
  <2>2. d \o b = b
    BY <1>2, <2>1, ConcatEmptySeq
  <2>3. CASE Len(b) = 0
    <3>1. b = <<>>
      BY <1>2, <2>3
    <3>2. x = a
      BY <1>4, <2>2, <3>1 DEF AfterLine
    <3>3. IsOver(s) => p = Len(s)
      BY <1>2, <1>5, <1>11, <1>14, <2>3
    <3>4. QED
      BY <1>2, <1>5, <1>9, <1>10, <3>2, <3>3
  <2>4. CASE Len(b) = 1
    <3>1. x = [a EXCEPT !.ended = "error"]
      <4>1. b # <<>>
        BY <2>4
      <4>2. QED
        BY <1>4, <2>2, <2>4, <4>1 DEF AfterLine
    <3>2. x = [text |-> a.text, calls |-> a.calls, open |-> a.open, ended |-> "error"]
      BY <1>2, <3>1 DEF Answer
    <3>3. a.open \in SUBSET Call
      BY <1>2, AnswerFields
    <3>4. x \in Answer /\ Assembled(s, m, p, x) /\ x.ended = "error"
      BY <1>2, <1>5, <3>2, <3>3, EndedAssembled
    <3>5. y = x
      BY <1>4, <1>8, <3>4
    <3>6. QED
      BY <1>10, <3>4, <3>5
  <2>5. CASE Len(b) = 2
    <3>1. b # <<>> /\ x \in AfterLine(b, a) /\ Len(b) + r = 2
      <4>1. b # <<>>
        BY <2>5
      <4>2. QED
        BY <1>4, <1>14, <2>2, <2>5, <4>1
    <3>2. <<>> \in Seq(Pieces)
      OBVIOUS
    <3>3. /\ b # <<>> => p < Len(s)
          /\ \A h \in 1 .. l : h <= Len(b) => Decoded(s, b[h], p + 1, h)
      BY <1>2, <1>5, <1>14, <3>2, NextPieces
    <3>4. 1 \in 1 .. l /\ 2 \in 1 .. l /\ 1 <= Len(b) /\ 2 <= Len(b)
      BY <1>2, <2>5
    <3>5. Decoded(s, b[1], p + 1, 1) /\ Decoded(s, b[2], p + 1, 2) /\ p < Len(s)
      BY <3>1, <3>3, <3>4
    <3>6. QED
      BY <1>12, <2>5, <3>1, <3>5
  <2>6. Len(b) < 3
    BY <1>6, <1>14
  <2>7. Len(b) = 0 \/ Len(b) = 1 \/ Len(b) = 2
    <3>1. \A k \in Nat : k < 3 => k = 0 \/ k = 1 \/ k = 2
      OBVIOUS
    <3>2. Len(b) \in Nat
      BY <1>2
    <3>3. QED
      BY ONLY <2>6, <3>1, <3>2
  <2>8. QED
    BY <2>3, <2>4, <2>5, <2>7
<1>15. QED
  BY <1>5, <1>13, <1>14

LEMMA StreamStep == StreamInv /\ [StreamNext]_streamVars => StreamInv'
<1> SUFFICES ASSUME StreamInv, [StreamNext]_streamVars PROVE StreamInv'
  OBVIOUS
<1>1. CASE \E a \in Api : ServerStarts(a)
  BY <1>1, StreamOpens
<1>2. CASE \E e \in Event : ServerSends(e)
  BY <1>2, EventSent
<1>3. CASE ServerStops
  BY <1>3, ServerHasStopped
<1>4. CASE \E n \in 1 .. MaxChunk : ReceiveChunk(n)
  BY <1>4, ChunkReceived
<1>5. CASE ProcessLine
  BY <1>5, LineProcessed
<1>6. CASE EndOfStream
  BY <1>6, StreamHasEnded
<1>7. CASE TransportFails
  BY <1>7, TransportHasFailed
<1>8. CASE UNCHANGED streamVars
  <2>2. /\ api' = api /\ script' = script /\ wire' = wire /\ connected' = connected
        /\ buffer' = buffer /\ data' = data /\ answer' = answer
    BY <1>8 DEF streamVars
  <2>3. Mixed' = Mixed /\ PerEvent' = PerEvent
    BY <2>2 DEF Mixed, PerEvent
  <2>4. StreamShape'
    BY <2>2 DEF StreamInv, StreamShape
  <2>5. ServerPart'
    BY <2>2, <2>3 DEF StreamInv, ServerPart
  <2>6. AnswerPart'
    BY <2>2, <2>3 DEF StreamInv, AnswerPart
  <2>7. QED
    BY <2>4, <2>5, <2>6 DEF StreamInv
<1>9. QED
  BY <1>1, <1>2, <1>3, <1>4, <1>5, <1>6, <1>7, <1>8 DEF StreamNext

\* What the script says, as the property writes it.
LEMMA SaidInScript ==
  ASSUME NEW s, s = script
  PROVE  \A type, calls, n : EventsOf(type, calls, n) = EventsIn(s, type, calls, n)
  BY DEF EventsOf, EventsIn

\* A prefix.
LEMMA BeginsIsPrefix ==
  ASSUME NEW T, NEW f \in Seq(T), NEW g \in Seq(T), Len(f) <= Len(g), \A k \in 1 .. Len(f) : g[k] = f[k]
  PROVE  IsPrefix(f, g)
<1>1. Len(f) \in Nat /\ Len(g) \in Nat
  OBVIOUS
<1>2. SubSeq(f, 1, Len(f)) = f
  BY <1>1
<1>3. SubSeq(g, 1, Len(f)) = f
  BY <1>1
<1>4. QED
  BY <1>1, <1>2, <1>3 DEF IsPrefix

LEMMA StreamIsAssembled == StreamInv => AssembledInOrder /\ FinishedIsWhole
<1> SUFFICES ASSUME StreamInv PROVE AssembledInOrder /\ FinishedIsWhole
  OBVIOUS
<1>1. PICK s, a, m, n : s = script /\ a = answer /\ m = Mixed /\ n = Len(s)
  OBVIOUS
<1>2. s \in Seq(Event) /\ a \in Answer /\ n \in Nat /\ n \in 0 .. Len(s)
  BY <1>1 DEF StreamInv, StreamShape
<1>3. PICK p \in 0 .. Len(s) : /\ Assembled(s, m, p, a)
                               /\ a.ended = "done" /\ IsOver(s) => p = Len(s)
  BY <1>1 DEF StreamInv, AnswerPart
<1>4. PICK text, calls : text = a.text /\ calls = a.calls
  OBVIOUS
<1>5. text \in Seq(0 .. MaxEvents) /\ calls \in Seq(Calls)
  BY <1>2, <1>4, AnswerFields
<1>6. TextIs(s, p, text) /\ CallsAre(s, m, p, calls)
  BY <1>3, <1>4 DEF Assembled
<1>7. PICK tp, tn, cp, cn : /\ tp = EventsIn(s, "text", {0}, p) /\ tn = EventsIn(s, "text", {0}, n)
                            /\ cp = EventsIn(s, "start", Call, p) /\ cn = EventsIn(s, "start", Call, n)
  OBVIOUS
<1>8. /\ tp \in Seq(1 .. n) /\ tn \in Seq(1 .. n) /\ cp \in Seq(1 .. n) /\ cn \in Seq(1 .. n)
      /\ Len(tp) \in Nat /\ Len(tn) \in Nat /\ Len(cp) \in Nat /\ Len(cn) \in Nat
  <2>1. tp \in Seq(1 .. n) /\ tn \in Seq(1 .. n) /\ cp \in Seq(1 .. n) /\ cn \in Seq(1 .. n)
    BY <1>1, <1>2, <1>7, EventsType
  <2>2. QED
    BY <2>1
<1>9. /\ Len(tp) <= Len(tn) /\ \A k \in 1 .. Len(tp) : tn[k] = tp[k]
      /\ Len(cp) <= Len(cn) /\ \A k \in 1 .. Len(cp) : cn[k] = cp[k]
  BY <1>1, <1>2, <1>7, EventsGrow
<1>10. /\ Len(text) = Len(tp)
       /\ \A k \in 1 .. Len(text) : text[k] = tp[k] \/ (text[k] = Garbled /\ s[tp[k]].wide)
  BY <1>6, <1>7 DEF TextIs
<1>11. /\ Len(calls) = Len(cp)
       /\ \A k \in 1 .. Len(calls) :
            /\ calls[k].id = s[cp[k]].call
            /\ ~ m => calls[k].args = EventsIn(s, "args", {calls[k].id}, p)
  BY <1>6, <1>7 DEF CallsAre
<1>12. PICK said : said = SaidCalls
  OBVIOUS
<1>13. /\ SaidText = tn
       /\ said = [k \in DOMAIN cn |-> [id |-> s[cn[k]].call,
                                       args |-> EventsIn(s, "args", {s[cn[k]].call}, n)]]
  <2>1. \A type, c, q : EventsOf(type, c, q) = EventsIn(s, type, c, q)
    BY <1>1, SaidInScript
  <2>2. Len(script) = n
    BY <1>1
  <2>3. SaidText = tn
    BY <1>7, <2>1, <2>2 DEF SaidText
  <2>4. said = [k \in DOMAIN cn |-> [id |-> s[cn[k]].call,
                                     args |-> EventsIn(s, "args", {s[cn[k]].call}, n)]]
    BY <1>1, <1>7, <1>12, <2>1, <2>2 DEF SaidCalls
  <2>5. QED
    BY <2>3, <2>4
<1>14. /\ DOMAIN said = 1 .. Len(cn) /\ Len(said) = Len(cn)
       /\ \A k \in 1 .. Len(cn) : /\ said[k].id = s[cn[k]].call
                                  /\ said[k].args = EventsIn(s, "args", {s[cn[k]].call}, n)
  <2>1. DOMAIN cn = 1 .. Len(cn)
    BY <1>8
  <2>2. DOMAIN said = 1 .. Len(cn)
    BY <1>13, <2>1
  <2>3. Len(said) = Len(cn)
    BY <1>8, <2>2
  <2>4. QED
    BY <1>13, <2>1, <2>2, <2>3
<1>15. AssembledInOrder
  <2>1. Len(answer.text) <= Len(SaidText) /\ Len(answer.calls) <= Len(SaidCalls)
    BY <1>1, <1>4, <1>9, <1>10, <1>11, <1>12, <1>13, <1>14
  <2>2. ASSUME NEW k \in DOMAIN answer.text
        PROVE  answer.text[k] \in {SaidText[k]} \cup (IF script[SaidText[k]].wide THEN {Garbled} ELSE {})
    <3>1. k \in 1 .. Len(text)
      BY <1>1, <1>4, <1>5
    <3>2. tn[k] = tp[k]
      BY <1>9, <1>10, <3>1
    <3>3. text[k] = tn[k] \/ (text[k] = Garbled /\ s[tn[k]].wide)
      BY <1>10, <3>1, <3>2
    <3>4. QED
      BY <1>1, <1>4, <1>13, <3>3
  <2>3. ASSUME NEW k \in DOMAIN answer.calls
        PROVE  /\ answer.calls[k].id = SaidCalls[k].id
               /\ ~ Mixed => IsPrefix(answer.calls[k].args, SaidCalls[k].args)
    <3>1. k \in 1 .. Len(calls) /\ k \in 1 .. Len(cn) /\ cn[k] = cp[k]
      <4>1. k \in 1 .. Len(calls)
        BY <1>1, <1>4, <1>5
      <4>2. QED
        BY <1>8, <1>9, <1>11, <4>1
    <3>2. PICK i : i = calls[k].id
      OBVIOUS
    <3>3. said[k].id = i /\ said[k].args = EventsIn(s, "args", {i}, n)
      BY <1>11, <1>14, <3>1, <3>2
    <3>4. ASSUME ~ m PROVE IsPrefix(calls[k].args, said[k].args)
      <4>1. PICK f, g : f = EventsIn(s, "args", {i}, p) /\ g = EventsIn(s, "args", {i}, n)
        OBVIOUS
      <4>2. f \in Seq(1 .. n) /\ g \in Seq(1 .. n)
        BY <1>1, <1>2, <4>1, EventsType
      <4>3. Len(f) <= Len(g) /\ \A j \in 1 .. Len(f) : g[j] = f[j]
        BY <1>1, <1>2, <4>1, EventsGrow
      <4>4. IsPrefix(f, g)
        <5>1. PICK T : T = 1 .. n
          OBVIOUS
        <5>2. f \in Seq(T) /\ g \in Seq(T)
          BY <4>2, <5>1
        <5>3. QED
          BY ONLY <4>3, <5>2, BeginsIsPrefix
      <4>5. QED
        BY <1>11, <3>1, <3>2, <3>3, <3>4, <4>1, <4>4
    <3>5. QED
      BY <1>1, <1>4, <1>12, <3>2, <3>3, <3>4
  <2>4. QED
    BY <2>1, <2>2, <2>3 DEF AssembledInOrder
<1>16. FinishedIsWhole
  <2>1. SUFFICES ASSUME answer.ended = "done", Finished
                 PROVE  /\ Len(answer.text) = Len(SaidText)
                        /\ ~ Mixed => answer.calls = SaidCalls
    BY DEF FinishedIsWhole
  <2>2. IsOver(s)
    BY <1>1, <2>1 DEF IsOver, Finished, Last
  <2>3. p = n /\ tp = tn /\ cp = cn
    BY <1>1, <1>3, <1>7, <2>1, <2>2
  <2>4. ASSUME ~ m PROVE calls = said
    <3>1. ASSUME NEW k \in 1 .. Len(cn) PROVE calls[k] = said[k]
      <4>1. /\ calls[k].id = s[cn[k]].call
            /\ calls[k].args = EventsIn(s, "args", {s[cn[k]].call}, n)
        BY <1>11, <2>3, <2>4, <3>1
      <4>2. calls[k] = [id |-> calls[k].id, args |-> calls[k].args]
        <5>1. calls[k] \in Calls
          BY <1>5, <1>11, <2>3, <3>1
        <5>2. QED
          BY <5>1 DEF Calls
      <4>3. said[k] = [id |-> s[cn[k]].call, args |-> EventsIn(s, "args", {s[cn[k]].call}, n)]
        <5>1. k \in DOMAIN cn
          BY <1>8, <3>1
        <5>2. QED
          BY <1>13, <5>1
      <4>4. QED
        BY <4>1, <4>2, <4>3
    <3>2. calls = [k \in 1 .. Len(cn) |-> calls[k]]
      BY <1>5, <1>11, <2>3
    <3>3. said = [k \in 1 .. Len(cn) |-> said[k]]
      BY <1>13, <1>14
    <3>4. QED
      BY <3>1, <3>2, <3>3
  <2>5. QED
    BY <1>1, <1>4, <1>10, <1>12, <1>13, <2>3, <2>4
<1>17. QED
  BY <1>15, <1>16

LEMMA StreamInvariant == StreamSpec => []StreamInv
BY StreamStart, StreamStep, PTL DEF StreamSpec

\* However the bytes of the stream are cut, what has been assembled is a beginning of what
\* the model said, and all of it when the stream ended well (emit_chunk, the stream loop).
THEOREM StreamKeepsOrder == StreamSpec => [](AssembledInOrder /\ FinishedIsWhole)
BY StreamInvariant, StreamIsAssembled, PTL
------------------------------------------------------------------------------
(***************************************************************************)
(* The requests to a provider.                                             *)
(***************************************************************************)

Apis == {"chat", "responses", "anthropic"}
Roles == {"system", "user", "assistant", "tool", "developer", "function_call", "function_call_output"}
Entries == [role : Roles, parts : Seq(Part)]

\* An item with a result has nothing else.
Alone(w) ==
  \A k \in DOMAIN w : Parts({"result"}, w[k].parts) # <<>> => Len(w[k].parts) = 1

\* Each of the calls is in an item, and there is no text after it.
Pending(w, uses) ==
  \A k \in 1 .. Len(uses) : \E n \in 1 .. Len(w) :
    /\ Contains(w[n].parts, uses[k])
    /\ \A o \in n + 1 .. Len(w) : ~ Contains(w[o].parts, Text)

\* The last items of w.
EndsIn(w, items) ==
  \E n \in Nat : /\ Len(w) = n + Len(items)
                 /\ \A j \in 1 .. Len(items) : w[n + j] = items[j]

Replies(c, k) ==
  Parts({"use"}, c[k].parts) # <<>> /\ c[k + 1].parts = ResultsOf(Parts({"use"}, c[k].parts))

Utterances == [role : {"system", "user", "assistant"}, parts : Seq(Part)]

\* What the messages of a turn look like: a text, a text and calls, or results.
IsText(m) == m.role = "user" /\ m.parts = <<Text>>

IsAnswer(m, c) ==
  /\ m.role = "assistant" /\ c \in {0, 1} /\ c <= Len(m.parts)
  /\ \A k \in 1 .. Len(m.parts) : m.parts[k] = Text \/ m.parts[k].type = "use"
  /\ \A k \in 1 .. Len(m.parts) : k <= c <=> m.parts[k] = Text

IsResults(m) ==
  m.role = "user" /\ m.parts # <<>> /\ \A k \in 1 .. Len(m.parts) : m.parts[k].type = "result"

Shaped(m) == IsText(m) \/ (\E c : IsAnswer(m, c)) \/ IsResults(m)

Good(form, c) ==
  /\ \A k \in DOMAIN c : Items(form, c[k]) \in Seq(Entries) /\ Shaped(c[k])
  /\ Payload(form, c) \in Seq(Entries)
  /\ Said(Payload(form, c)) = Said(c)
  /\ form # "anthropic" => Alone(Payload(form, c))
  /\ c # <<>> => EndsIn(Payload(form, c), Items(form, c[Len(c)]))
  /\ \A k \in 1 .. Len(c) - 1 : Replies(c, k) =>
       Stands(Items(form, c[k]) \o Items(form, c[k + 1]), Payload(form, c))

RequestInv ==
  /\ conversation \in Seq(Utterances)
  /\ \A form \in Apis : Good(form, conversation)

\* Parts is recursive: f[i] is what it is of the first i parts.
Of(types) == {q \in Part : q.type \in types}

IsParts(f, types, s) ==
  /\ f[0] = <<>>
  /\ \A i \in 1 .. Len(s) : f[i] = IF s[i].type \in types THEN Append(f[i - 1], s[i]) ELSE f[i - 1]

LEMMA PartsUnfold ==
  ASSUME NEW s \in Seq(Part), NEW types
  PROVE  /\ \E f \in [0 .. Len(s) -> Seq(Of(types))] : IsParts(f, types, s)
         /\ \A V : \A f \in [0 .. Len(s) -> V] : IsParts(f, types, s) => Parts(types, s) = f[Len(s)]
<1> DEFINE n == Len(s)
           V == Seq(Of(types))
           go == [i \in 1 .. n |-> [t \in V |-> IF s[i].type \in types THEN Append(t, s[i]) ELSE t]]
<1>1. n \in Nat /\ <<>> \in V /\ go \in [1 .. n -> [V -> V]]
  <2>1. n \in Nat /\ <<>> \in V
    OBVIOUS
  <2>2. \A i \in 1 .. n : s[i].type \in types => s[i] \in Of(types)
    BY DEF Of
  <2>3. \A i \in 1 .. n, t \in V : (IF s[i].type \in types THEN Append(t, s[i]) ELSE t) \in V
    <3>1. ASSUME NEW i \in 1 .. n, NEW t \in V
          PROVE  (IF s[i].type \in types THEN Append(t, s[i]) ELSE t) \in V
      <4>1. CASE s[i].type \in types
        <5>1. PICK W, q : W = Of(types) /\ q = s[i]
          OBVIOUS
        <5>2. t \in Seq(W) /\ q \in W
          BY <2>2, <4>1, <5>1
        <5>3. Append(t, q) \in Seq(W)
          BY ONLY <5>2
        <5>4. QED
          BY <4>1, <5>1, <5>3
      <4>2. CASE s[i].type \notin types
        BY <4>2
      <4>3. QED
        BY <4>1, <4>2
    <3>2. QED
      BY <3>1
  <2> HIDE DEF V
  <2>4. QED
    BY <2>1, <2>3
<1>2. \A i \in 1 .. n, t \in V : go[i][t] = IF s[i].type \in types THEN Append(t, s[i]) ELSE t
  OBVIOUS
<1> HIDE DEF V, go
<1>3. PICK f \in [0 .. n -> V] : Follows(f, <<>>, go, n)
  BY <1>1, Recursion
<1>4. \A i \in 1 .. n : i - 1 \in 0 .. n /\ i # 0 /\ i \in 0 .. n
  BY <1>1
<1>5. IsParts(f, types, s)
  <2>1. \A i \in 1 .. n : f[i - 1] \in V
    BY <1>4
  <2>2. QED
    BY <1>2, <1>3, <2>1 DEF Follows, IsParts
<1>6. ASSUME NEW W, NEW g \in [0 .. n -> W], IsParts(g, types, s)
      PROVE  Parts(types, s) = g[n]
  <2> DEFINE unfolded(h) == [i \in 0 .. Len(s) |-> IF i = 0 THEN <<>>
                                                   ELSE IF s[i].type \in types
                                                   THEN Append(h[i - 1], s[i]) ELSE h[i - 1]]
             upTo == CHOOSE h : h = unfolded(h)
  <2>1. Parts(types, s) = upTo[n]
    BY DEF Parts
  <2>2. g = unfolded(g)
    <3>1. g = [i \in 0 .. n |-> g[i]]
      BY <1>6
    <3>2. ASSUME NEW i \in 0 .. n
          PROVE  g[i] = IF i = 0 THEN <<>>
                        ELSE IF s[i].type \in types THEN Append(g[i - 1], s[i]) ELSE g[i - 1]
      <4>1. i = 0 \/ i \in 1 .. n
        BY <1>1
      <4>2. QED
        BY <1>4, <1>6, <4>1 DEF IsParts
    <3>3. QED
      BY <3>1, <3>2
  <2>3. upTo = unfolded(upTo)
    <3> HIDE DEF unfolded
    <3>1. QED
      BY <2>2, Zenon
  <2> HIDE DEF upTo
  <2>4. \A i \in 0 .. n : upTo[i] = IF i = 0 THEN <<>>
                                     ELSE IF s[i].type \in types
                                     THEN Append(upTo[i - 1], s[i]) ELSE upTo[i - 1]
    BY <2>3, Zenon
  <2> HIDE DEF unfolded
  <2> DEFINE S == {i \in 0 .. n : upTo[i] = g[i]}
  <2>5. 0 \in S
    BY <1>1, <1>6, <2>4 DEF IsParts
  <2>6. ASSUME NEW i \in Nat, i < n, i \in S
        PROVE  i + 1 \in S
    <3>1. i + 1 \in 0 .. n /\ i + 1 \in 1 .. n /\ (i + 1) - 1 = i /\ i + 1 # 0
      BY <1>1, <2>6
    <3>2. upTo[i + 1] = IF s[i + 1].type \in types THEN Append(upTo[i], s[i + 1]) ELSE upTo[i]
      BY <2>4, <3>1
    <3>3. g[i + 1] = IF s[i + 1].type \in types THEN Append(g[i], s[i + 1]) ELSE g[i]
      BY <1>6, <3>1 DEF IsParts
    <3>4. QED
      BY <2>6, <3>1, <3>2, <3>3
  <2> HIDE DEF S
  <2>7. n \in S
    <3>1. \A i \in 0 .. n : i \in S
      BY <1>1, <2>5, <2>6, SetInduction
    <3>2. QED
      BY <1>1, <3>1
  <2>8. QED
    BY <2>1, <2>7 DEF S
<1>7. \E h \in [0 .. Len(s) -> Seq(Of(types))] : IsParts(h, types, s)
  BY <1>3, <1>5 DEF V
<1>8. QED
  BY <1>6, <1>7

LEMMA PartsType ==
  ASSUME NEW s \in Seq(Part), NEW types
  PROVE  Parts(types, s) \in Seq(Of(types))
<1>1. PICK V : V = Seq(Of(types))
  OBVIOUS
<1>2. PICK f \in [0 .. Len(s) -> V] : IsParts(f, types, s)
  BY <1>1, PartsUnfold
<1>3. Parts(types, s) = f[Len(s)]
  BY <1>2, PartsUnfold
<1>4. Len(s) \in 0 .. Len(s)
  OBVIOUS
<1>5. QED
  BY <1>1, <1>3, <1>4

\* A slice, and one element more.
LEMMA SliceGrows ==
  ASSUME NEW T, NEW s \in Seq(T), NEW lo \in Nat \ {0}, NEW i \in Nat, i < Len(s), lo <= i + 1
  PROVE  SubSeq(s, lo, i + 1) = Append(SubSeq(s, lo, i), s[i + 1])
OBVIOUS

LEMMA SliceType ==
  ASSUME NEW T, NEW s \in Seq(T), NEW lo \in Nat \ {0}, NEW i \in 0 .. Len(s)
  PROVE  SubSeq(s, lo, i) \in Seq(T) /\ (i < lo => SubSeq(s, lo, i) = <<>>)
OBVIOUS

\* The parts of some types when they are together.
LEMMA PartsSlice ==
  ASSUME NEW s \in Seq(Part), NEW types, NEW lo \in 1 .. Len(s) + 1, NEW hi \in 0 .. Len(s), lo <= hi + 1,
         \A i \in 1 .. Len(s) : s[i].type \in types <=> (lo <= i /\ i <= hi)
  PROVE  Parts(types, s) = SubSeq(s, lo, hi)
<1>1. PICK n, T : n = Len(s) /\ T = Part
  OBVIOUS
<1>2. n \in Nat /\ s \in Seq(T) /\ lo \in Nat \ {0} /\ hi \in Nat /\ hi <= n
  BY <1>1
<1> DEFINE to(i) == IF i < hi THEN i ELSE hi
           f == [i \in 0 .. n |-> SubSeq(s, lo, to(i))]
<1>3. \A i \in 0 .. n : to(i) \in 0 .. n
  BY <1>2
<1>4. f \in [0 .. n -> Seq(T)]
  <2>1. \A i \in 0 .. n : SubSeq(s, lo, to(i)) \in Seq(T)
    BY <1>1, <1>2, <1>3, SliceType
  <2> HIDE DEF to
  <2>2. QED
    BY <2>1
<1>5. f[0] = <<>>
  <2>1. to(0) = 0 /\ 0 \in 0 .. n /\ 0 < lo
    BY <1>2
  <2>2. SubSeq(s, lo, 0) = <<>>
    BY <1>1, <1>2, <2>1, SliceType
  <2> HIDE DEF to
  <2>3. QED
    BY <2>1, <2>2
<1>6. ASSUME NEW i \in 1 .. n
      PROVE  f[i] = IF s[i].type \in types THEN Append(f[i - 1], s[i]) ELSE f[i - 1]
  <2>1. PICK j \in Nat : j = i - 1 /\ j + 1 = i /\ j \in 0 .. n /\ i \in 0 .. n /\ j < n
    BY <1>2
  <2>2. f[i] = SubSeq(s, lo, to(i)) /\ f[i - 1] = SubSeq(s, lo, to(j))
    BY <2>1
  <2>3. CASE i < lo
    <3>1. to(i) \in 0 .. n /\ to(j) \in 0 .. n /\ to(i) < lo /\ to(j) < lo
      BY <1>2, <2>1, <2>3
    <3>2. f[i] = <<>> /\ f[i - 1] = <<>>
      <4> HIDE DEF to
      <4>1. SubSeq(s, lo, to(i)) = <<>> /\ SubSeq(s, lo, to(j)) = <<>>
        BY <1>1, <1>2, <3>1, SliceType
      <4>2. QED
        BY <2>2, <4>1
    <3>3. s[i].type \notin types
      BY <1>1, <1>2, <2>3
    <3>4. QED
      BY <3>2, <3>3
  <2>4. CASE lo <= i /\ i <= hi
    <3>1. to(i) = i /\ to(j) = j
      BY <1>2, <2>1, <2>4
    <3>2. SubSeq(s, lo, j + 1) = Append(SubSeq(s, lo, j), s[j + 1])
      BY <1>1, <1>2, <2>1, <2>4, SliceGrows
    <3>3. s[i].type \in types
      BY <1>1, <2>4
    <3>4. QED
      BY <2>1, <2>2, <3>1, <3>2, <3>3
  <2>5. CASE hi < i
    <3>1. to(i) = hi /\ to(j) = hi
      BY <1>2, <2>1, <2>5
    <3>2. s[i].type \notin types
      <4>1. ~ (lo <= i /\ i <= hi)
        BY <1>2, <2>5
      <4>2. QED
        BY <1>1, <4>1
    <3>3. QED
      BY <2>2, <3>1, <3>2
  <2>6. QED
    BY <1>2, <2>1, <2>3, <2>4, <2>5
<1>7. f[n] = SubSeq(s, lo, hi)
  BY <1>2
<1> HIDE DEF f
<1>8. IsParts(f, types, s)
  BY <1>1, <1>5, <1>6 DEF IsParts
<1>9. Parts(types, s) = f[Len(s)]
  BY <1>1, <1>4, <1>8, PartsUnfold
<1>10. QED
  BY <1>1, <1>7, <1>9

\* All parts, and none.
LEMMA PartsAll ==
  ASSUME NEW s \in Seq(Part), NEW types
  PROVE  /\ (\A i \in 1 .. Len(s) : s[i].type \in types) => Parts(types, s) = s
         /\ (\A i \in 1 .. Len(s) : s[i].type \notin types) => Parts(types, s) = <<>>
<1>1. Len(s) \in Nat /\ 1 \in 1 .. Len(s) + 1 /\ Len(s) \in 0 .. Len(s) /\ 0 \in 0 .. Len(s)
  OBVIOUS
<1>2. ASSUME \A i \in 1 .. Len(s) : s[i].type \in types
      PROVE  Parts(types, s) = s
  <2>1. \A i \in 1 .. Len(s) : s[i].type \in types <=> (1 <= i /\ i <= Len(s))
    BY <1>1, <1>2
  <2>2. 1 <= Len(s) + 1
    BY <1>1
  <2>3. Parts(types, s) = SubSeq(s, 1, Len(s))
    BY <1>1, <2>1, <2>2, PartsSlice
  <2>4. SubSeq(s, 1, Len(s)) = s
    OBVIOUS
  <2>5. QED
    BY <2>3, <2>4
<1>3. ASSUME \A i \in 1 .. Len(s) : s[i].type \notin types
      PROVE  Parts(types, s) = <<>>
  <2>1. \A i \in 1 .. Len(s) : s[i].type \in types <=> (1 <= i /\ i <= 0)
    BY <1>1, <1>3
  <2>2. Parts(types, s) = SubSeq(s, 1, 0)
    BY <1>1, <2>1, PartsSlice
  <2>3. SubSeq(s, 1, 0) = <<>>
    BY <1>1
  <2>4. QED
    BY <2>2, <2>3
<1>4. QED
  BY <1>2, <1>3

\* One item with all the parts, or an item for each.
AsOne(items, P) == items \in Seq(Entries) /\ Len(items) = 1 /\ items[1].parts = P

Each(items, P) ==
  items \in Seq(Entries) /\ Len(items) = Len(P) /\ \A k \in 1 .. Len(P) : items[k].parts = <<P[k]>>

PartsOf(s) == [k \in DOMAIN s |-> s[k].parts]

LEMMA PartsOfType ==
  ASSUME NEW R, \A r \in R : r.parts \in Seq(Part), NEW s \in Seq(R)
  PROVE  /\ PartsOf(s) \in Seq(Seq(Part)) /\ Len(PartsOf(s)) = Len(s)
         /\ \A k \in 1 .. Len(s) : PartsOf(s)[k] = s[k].parts
<1>1. PICK V, n : V = Seq(Part) /\ n = Len(s)
  OBVIOUS
<1>2. n \in Nat /\ DOMAIN s = 1 .. n /\ \A k \in 1 .. n : s[k].parts \in V
  BY <1>1
<1>3. PICK p : p = [k \in 1 .. n |-> s[k].parts]
  OBVIOUS
<1>4. p \in Seq(V) /\ Len(p) = n /\ \A k \in 1 .. n : p[k] = s[k].parts
  BY <1>2, <1>3
<1>5. PartsOf(s) = p
  BY <1>2, <1>3 DEF PartsOf
<1>6. QED
  BY <1>1, <1>4, <1>5

LEMMA SaidConcat ==
  ASSUME NEW R, \A r \in R : r.parts \in Seq(Part), NEW a \in Seq(R), NEW b \in Seq(R)
  PROVE  Said(a \o b) = Said(a) \o Said(b)
<1>1. PICK c : c = a \o b
  OBVIOUS
<1>2. c \in Seq(R) /\ Len(c) = Len(a) + Len(b)
  BY <1>1
<1>3. \A k \in 1 .. Len(c) : c[k] = IF k <= Len(a) THEN a[k] ELSE b[k - Len(a)]
  BY <1>1
<1>4. PICK V, p, q, r : V = Seq(Part) /\ p = PartsOf(a) /\ q = PartsOf(b) /\ r = PartsOf(c)
  OBVIOUS
<1>5. p \in Seq(V) /\ Len(p) = Len(a) /\ \A k \in 1 .. Len(a) : p[k] = a[k].parts
  BY <1>4, PartsOfType
<1>6. q \in Seq(V) /\ Len(q) = Len(b) /\ \A k \in 1 .. Len(b) : q[k] = b[k].parts
  BY <1>4, PartsOfType
<1>7. r \in Seq(V) /\ Len(r) = Len(c) /\ \A k \in 1 .. Len(c) : r[k] = c[k].parts
  BY <1>2, <1>4, PartsOfType
<1>8. r = p \o q
  <2>1. Len(a) \in Nat /\ Len(b) \in Nat
    OBVIOUS
  <2>2. Len(p \o q) = Len(r) /\ p \o q \in Seq(V)
    <3>1. Len(p \o q) = Len(p) + Len(q) /\ p \o q \in Seq(V)
      BY <1>5, <1>6, ConcatProperties
    <3>2. QED
      BY <1>2, <1>5, <1>6, <1>7, <3>1
  <2>3. ASSUME NEW k \in 1 .. Len(r)
        PROVE  r[k] = (p \o q)[k]
    <3>1. CASE k <= Len(a)
      <4>1. k \in 1 .. Len(a)
        BY <2>1, <3>1
      <4>2. (p \o q)[k] = p[k]
        BY ONLY <1>5, <1>6, <4>1
      <4>3. c[k] = a[k]
        BY <1>3, <1>7, <3>1
      <4>4. QED
        BY <1>5, <1>7, <4>1, <4>2, <4>3
    <3>2. CASE ~ (k <= Len(a))
      <4>1. k - Len(a) \in 1 .. Len(b) /\ k \in Nat
        BY <1>2, <1>7, <2>1, <3>2
      <4>2. (p \o q)[k] = q[k - Len(a)]
        BY ONLY <1>5, <1>6, <2>1, <3>2, <4>1
      <4>3. c[k] = b[k - Len(a)]
        BY <1>3, <1>7, <3>2
      <4>4. QED
        BY <1>6, <1>7, <4>1, <4>2, <4>3
    <3>3. QED
      BY <3>1, <3>2
  <2>4. QED
    BY <1>7, <2>2, <2>3, SeqEqual
<1>9. Flat(p \o q) = Flat(p) \o Flat(q)
  BY <1>4, <1>5, <1>6, FlatConcat
<1>10. Said(a) = Flat(p) /\ Said(b) = Flat(q) /\ Said(c) = Flat(r)
  BY <1>4 DEF Said, PartsOf
<1>11. QED
  BY <1>1, <1>8, <1>9, <1>10

LEMMA SaidOne ==
  ASSUME NEW R, \A r \in R : r.parts \in Seq(Part), NEW m \in R
  PROVE  Said(<<m>>) = m.parts
<1>1. PICK s, p, V : s = <<m>> /\ p = PartsOf(s) /\ V = Seq(Part)
  OBVIOUS
<1>2. s \in Seq(R) /\ Len(s) = 1 /\ s[1] = m
  BY <1>1
<1>3. p \in Seq(V) /\ Len(p) = 1 /\ p[1] = m.parts
  <2>1. p \in Seq(V) /\ Len(p) = Len(s) /\ \A k \in 1 .. Len(s) : p[k] = s[k].parts
    BY <1>1, <1>2, PartsOfType
  <2>2. 1 \in 1 .. Len(s)
    BY <1>2
  <2>3. QED
    BY <1>2, <2>1, <2>2
<1>4. PICK x \in V : x = m.parts
  BY <1>1
<1>5. p = Append(<<>>, x)
  BY ONLY <1>3, <1>4
<1>6. PICK e : e = <<>>
  OBVIOUS
<1>7. e \in Seq(V) /\ Flat(e) = <<>>
  BY <1>6, FlatEmpty
<1>8. Flat(p) = <<>> \o x
  BY <1>1, <1>4, <1>5, <1>6, <1>7, FlatAppend
<1>9. <<>> \o x = x
  BY <1>1, <1>4
<1>10. QED
  BY <1>1, <1>4, <1>8, <1>9 DEF Said, PartsOf

LEMMA SaidItems ==
  ASSUME NEW P \in Seq(Part), NEW items, AsOne(items, P) \/ Each(items, P)
  PROVE  Said(items) = P
<1>1. \A r \in Entries : r.parts \in Seq(Part)
  BY DEF Entries
<1>2. ASSUME AsOne(items, P)
      PROVE  Said(items) = P
  <2>1. PICK E : E = Entries
    OBVIOUS
  <2>2. items \in Seq(E) /\ Len(items) = 1 /\ items[1].parts = P
    BY <1>2, <2>1 DEF AsOne
  <2>3. items = <<items[1]>> /\ items[1] \in E
    BY ONLY <2>2
  <2>4. QED
    BY <1>1, <2>1, <2>2, <2>3, SaidOne
<1>3. ASSUME Each(items, P)
      PROVE  Said(items) = P
  <2>1. PICK n, p : n = Len(P) /\ p = PartsOf(items)
    OBVIOUS
  <2>2. items \in Seq(Entries) /\ Len(items) = n /\ \A k \in 1 .. n : items[k].parts = <<P[k]>>
    BY <1>3, <2>1 DEF Each
  <2>3. p \in Seq(Seq(Part)) /\ Len(p) = n /\ \A k \in 1 .. n : p[k] = items[k].parts
    BY <1>1, <2>1, <2>2, PartsOfType
  <2>4. p = [k \in 1 .. n |-> <<P[k]>>]
    <3>1. PICK V : V = Seq(Part)
      OBVIOUS
    <3>2. p \in Seq(V) /\ Len(p) = n /\ \A k \in 1 .. n : p[k] = <<P[k]>>
      BY <2>2, <2>3, <3>1
    <3>3. DOMAIN p = 1 .. n /\ p = [k \in DOMAIN p |-> p[k]]
      BY ONLY <3>2
    <3>4. QED
      BY <3>2, <3>3
  <2>5. Flat(p) = P
    BY <2>1, <2>4, FlatSingles
  <2>6. QED
    BY <2>1, <2>5 DEF Said, PartsOf
<1>4. QED
  BY <1>2, <1>3

LEMMA TextItems ==
  ASSUME NEW m \in Utterances, IsText(m), NEW form \in Apis
  PROVE  AsOne(Items(form, m), m.parts) /\ Parts({"use"}, m.parts) = <<>>
<1>1. PICK P : P = m.parts
  OBVIOUS
<1>2. P \in Seq(Part) /\ Len(P) = 1 /\ P = <<Text>> /\ m.role = "user" /\ P # <<>>
  BY <1>1 DEF Utterances, IsText
<1>3. \A i \in 1 .. Len(P) : P[i].type = "text"
  BY <1>2 DEF Text
<1>4. /\ Parts({"text"}, P) = P
      /\ Parts({"use"}, P) = <<>>
      /\ Parts({"result"}, P) = <<>>
      /\ Parts({"text", "use"}, P) = P
  <2>1. \A i \in 1 .. Len(P) : P[i].type \in {"text"} /\ P[i].type \in {"text", "use"}
    BY <1>3
  <2>2. \A i \in 1 .. Len(P) : P[i].type \notin {"use"} /\ P[i].type \notin {"result"}
    BY <1>3
  <2>3. QED
    BY <1>2, <2>1, <2>2, PartsAll
<1>6. Items(form, m) = <<Item("user", P)>>
  <2>1. CASE form = "chat"
    <3>1. ChatItems(m) = <<Item("user", P)>>
      <4>1. P \o <<>> = P
        BY <1>2, ConcatEmptySeq
      <4>2. ChatItems(m) = <<Item("user", P)>> \o [k \in DOMAIN <<>> |-> Item("tool", <<<<>>[k]>>)]
        BY <1>1, <1>2, <1>4, <4>1 DEF ChatItems
      <4>3. [k \in DOMAIN <<>> |-> Item("tool", <<<<>>[k]>>)] = <<>>
        OBVIOUS
      <4>4. PICK i : i = Item("user", P)
        OBVIOUS
      <4>5. <<i>> \o <<>> = <<i>>
        OBVIOUS
      <4>6. QED
        BY <4>2, <4>3, <4>4, <4>5
    <3>2. QED
      BY <2>1, <3>1 DEF Items
  <2>2. CASE form = "responses"
    <3>1. ResponsesItems(m) = <<Item("user", P)>>
      <4>1. ResponsesItems(m) = [k \in DOMAIN <<>> |-> Item("function_call_output", <<<<>>[k]>>)] \o
                                <<Item("user", P)>>
        BY <1>1, <1>2, <1>4 DEF ResponsesItems
      <4>2. [k \in DOMAIN <<>> |-> Item("function_call_output", <<<<>>[k]>>)] = <<>>
        OBVIOUS
      <4>3. PICK i : i = Item("user", P)
        OBVIOUS
      <4>4. <<>> \o <<i>> = <<i>>
        OBVIOUS
      <4>5. QED
        BY <4>1, <4>2, <4>3, <4>4
    <3>2. QED
      BY <2>2, <3>1 DEF Items
  <2>3. CASE form = "anthropic"
    BY <1>1, <1>2, <2>3 DEF Items, AnthropicItems
  <2>4. QED
    BY <2>1, <2>2, <2>3 DEF Apis
<1>7. PICK i : i = Item("user", P)
  OBVIOUS
<1>8. i \in Entries /\ i.parts = P
  BY <1>2, <1>7 DEF Item, Entries, Roles
<1>9. <<i>> \in Seq(Entries) /\ Len(<<i>>) = 1 /\ <<i>>[1] = i
  BY ONLY <1>8
<1>10. QED
  BY <1>1, <1>4, <1>6, <1>7, <1>8, <1>9 DEF AsOne

\* The text and the calls of an answer, in this order, are all of it.
LEMMA AnswerParts ==
  ASSUME NEW m \in Utterances, NEW c, IsAnswer(m, c)
  PROVE  /\ Parts({"text"}, m.parts) \o Parts({"use"}, m.parts) = m.parts
         /\ Parts({"text", "use"}, m.parts) = m.parts
         /\ Parts({"result"}, m.parts) = <<>>
         /\ Parts({"use"}, m.parts) = SubSeq(m.parts, c + 1, Len(m.parts))
<1>1. PICK P, n : P = m.parts /\ n = Len(P)
  OBVIOUS
<1>2. P \in Seq(Part) /\ n \in Nat /\ c \in 0 .. n /\ c \in Nat
  BY <1>1 DEF Utterances, IsAnswer
<1>3. \A k \in 1 .. n : P[k].type = IF k <= c THEN "text" ELSE "use"
  BY <1>1 DEF IsAnswer, Text
<1>4. Parts({"text"}, P) = SubSeq(P, 1, c)
  <2>1. \A k \in 1 .. n : P[k].type \in {"text"} <=> (1 <= k /\ k <= c)
    BY <1>3
  <2>2. 1 \in 1 .. Len(P) + 1 /\ c \in 0 .. Len(P) /\ 1 <= c + 1
    BY <1>1, <1>2
  <2>3. QED
    BY <1>1, <1>2, <2>1, <2>2, PartsSlice
<1>5. Parts({"use"}, P) = SubSeq(P, c + 1, n)
  <2>1. \A k \in 1 .. n : P[k].type \in {"use"} <=> (c + 1 <= k /\ k <= n)
    BY <1>2, <1>3
  <2>2. c + 1 \in 1 .. Len(P) + 1 /\ n \in 0 .. Len(P) /\ c + 1 <= n + 1
    BY <1>1, <1>2
  <2>3. QED
    BY <1>1, <1>2, <2>1, <2>2, PartsSlice
<1>6. Parts({"text", "use"}, P) = P /\ Parts({"result"}, P) = <<>>
  <2>1. \A k \in 1 .. Len(P) : P[k].type \in {"text", "use"} /\ P[k].type \notin {"result"}
    BY <1>1, <1>3
  <2>2. QED
    BY <1>2, <2>1, PartsAll
<1>7. SubSeq(P, 1, c) \o SubSeq(P, c + 1, n) = P
  <2>1. PICK T : T = Part
    OBVIOUS
  <2>2. P \in Seq(T)
    BY <1>2, <2>1
  <2>3. PICK a, b : a = SubSeq(P, 1, c) /\ b = SubSeq(P, c + 1, n)
    OBVIOUS
  <2>4. a \in Seq(T) /\ Len(a) = c /\ \A k \in 1 .. c : a[k] = P[k]
    BY ONLY <1>1, <1>2, <2>2, <2>3
  <2>5. b \in Seq(T) /\ Len(b) = n - c /\ \A k \in 1 .. n - c : b[k] = P[c + k]
    BY ONLY <1>1, <1>2, <2>2, <2>3
  <2>6. PICK d : d = a \o b
    OBVIOUS
  <2>7. /\ d \in Seq(T) /\ Len(d) = Len(a) + Len(b)
        /\ \A k \in 1 .. Len(a) + Len(b) : d[k] = IF k <= Len(a) THEN a[k] ELSE b[k - Len(a)]
    BY <2>4, <2>5, <2>6, ConcatProperties
  <2>8. Len(a) + Len(b) = n /\ n = Len(d)
    BY <1>2, <2>4, <2>5, <2>7
  <2>9. ASSUME NEW k \in 1 .. n
        PROVE  d[k] = P[k]
    <3>1. CASE k <= c
      <4>1. k \in 1 .. c
        BY <1>2, <3>1
      <4>2. QED
        BY <2>4, <2>7, <2>8, <3>1, <4>1
    <3>2. CASE ~ (k <= c)
      <4>1. k - c \in 1 .. n - c /\ c + (k - c) = k
        BY <1>2, <3>2
      <4>2. QED
        BY <2>4, <2>5, <2>7, <2>8, <3>2, <4>1
    <3>3. QED
      BY <3>1, <3>2
  <2>10. d = P
    BY <1>1, <2>2, <2>7, <2>8, <2>9, SeqEqual
  <2>11. QED
    BY <2>3, <2>6, <2>10
<1>8. QED
  BY <1>1, <1>4, <1>5, <1>6, <1>7

LEMMA EachItem ==
  ASSUME NEW P \in Seq(Part), NEW items, DOMAIN items = 1 .. Len(P),
         \A k \in 1 .. Len(P) : items[k] \in Entries /\ items[k].parts = <<P[k]>>,
         items = [k \in 1 .. Len(P) |-> items[k]]
  PROVE  Each(items, P)
<1>1. PICK n, E : n = Len(P) /\ E = Entries
  OBVIOUS
<1>2. n \in Nat /\ items = [k \in 1 .. n |-> items[k]] /\ \A k \in 1 .. n : items[k] \in E
  BY <1>1
<1>3. items \in Seq(E) /\ Len(items) = n
  BY ONLY <1>2
<1>4. QED
  BY <1>1, <1>3 DEF Each

LEMMA OnePart ==
  ASSUME NEW q \in Part, NEW r \in Roles
  PROVE  Item(r, <<q>>) \in Entries /\ Item(r, <<q>>).parts = <<q>>
<1>1. PICK T, s : T = Part /\ s = <<q>>
  OBVIOUS
<1>2. s \in Seq(T)
  BY ONLY <1>1
<1>3. Item(r, s) \in Entries /\ Item(r, s).parts = s
  BY <1>1, <1>2 DEF Item, Entries
<1>4. QED
  BY <1>1, <1>3

LEMMA AnswerItems ==
  ASSUME NEW m \in Utterances, NEW c, IsAnswer(m, c), NEW form \in Apis
  PROVE  AsOne(Items(form, m), m.parts) \/ Each(Items(form, m), m.parts)
<1>1. PICK P, n : P = m.parts /\ n = Len(P)
  OBVIOUS
<1>2. P \in Seq(Part) /\ n \in Nat /\ m.role = "assistant"
  BY <1>1 DEF Utterances, IsAnswer
<1>3. PICK i : i = Item("assistant", P)
  OBVIOUS
<1>4. i \in Entries /\ i.parts = P
  BY <1>2, <1>3 DEF Item, Entries, Roles
<1>5. AsOne(<<i>>, P)
  <2>1. <<i>> \in Seq(Entries) /\ Len(<<i>>) = 1 /\ <<i>>[1] = i
    BY ONLY <1>4
  <2>2. QED
    BY <1>4, <2>1 DEF AsOne
<1>6. CASE form = "chat"
  <2>1. [k \in DOMAIN <<>> |-> Item("tool", <<<<>>[k]>>)] = <<>>
    OBVIOUS
  <2>2. ChatItems(m) = (IF P = <<>> THEN <<>> ELSE <<i>>) \o <<>>
    BY <1>1, <1>2, <1>3, <2>1, AnswerParts DEF ChatItems
  <2>3. CASE P = <<>>
    <3>1. ChatItems(m) = <<>>
      BY <2>2, <2>3
    <3>2. Each(<<>>, P)
      <4>1. <<>> \in Seq(Entries) /\ Len(<<>>) = 0
        OBVIOUS
      <4>2. Len(P) = 0
        BY <2>3
      <4>3. QED
        BY <4>1, <4>2 DEF Each
    <3>3. QED
      BY <1>1, <1>6, <3>1, <3>2 DEF Items
  <2>4. CASE P # <<>>
    <3>1. ChatItems(m) = <<i>> \o <<>>
      BY <2>2, <2>4
    <3>2. <<i>> \o <<>> = <<i>>
      OBVIOUS
    <3>3. QED
      BY <1>1, <1>5, <1>6, <3>1, <3>2 DEF Items
  <2>5. QED
    BY <2>3, <2>4
<1>7. CASE form = "responses"
  <2>1. PICK items : items = [k \in 1 .. n |-> Item(IF P[k] = Text THEN "assistant" ELSE "function_call", <<P[k]>>)]
    OBVIOUS
  <2>2. ResponsesItems(m) = items
    <3>1. DOMAIN P = 1 .. n /\ Parts({"text", "use"}, P) = P
      BY <1>1, <1>2, AnswerParts
    <3>2. QED
      BY <1>1, <1>2, <2>1, <3>1 DEF ResponsesItems
  <2>3. \A k \in 1 .. n : items[k] \in Entries /\ items[k].parts = <<P[k]>>
    <3>1. ASSUME NEW k \in 1 .. n
          PROVE  items[k] \in Entries /\ items[k].parts = <<P[k]>>
      <4>1. PICK r, q : r = (IF P[k] = Text THEN "assistant" ELSE "function_call") /\ q = P[k]
        OBVIOUS
      <4>2. r \in Roles /\ q \in Part
        BY <1>1, <1>2, <4>1 DEF Roles
      <4>3. items[k] = Item(r, <<q>>)
        BY <2>1, <4>1
      <4>4. QED
        BY <4>1, <4>2, <4>3, OnePart
    <3>2. QED
      BY <3>1
  <2>4. DOMAIN items = 1 .. n /\ items = [k \in 1 .. n |-> items[k]]
    BY ONLY <2>1
  <2>5. Each(items, P)
    BY <1>1, <1>2, <2>3, <2>4, EachItem
  <2>6. QED
    BY <1>1, <1>7, <2>2, <2>5 DEF Items
<1>8. CASE form = "anthropic"
  BY <1>1, <1>2, <1>3, <1>5, <1>8 DEF Items, AnthropicItems
<1>9. QED
  BY <1>6, <1>7, <1>8 DEF Apis

LEMMA ResultItems ==
  ASSUME NEW m \in Utterances, IsResults(m), NEW form \in Apis
  PROVE  /\ Parts({"use"}, m.parts) = <<>>
         /\ IF form = "anthropic" THEN AsOne(Items(form, m), m.parts) ELSE Each(Items(form, m), m.parts)
<1>1. PICK P, n : P = m.parts /\ n = Len(P)
  OBVIOUS
<1>2. P \in Seq(Part) /\ n \in Nat /\ m.role = "user" /\ DOMAIN P = 1 .. n
  BY <1>1 DEF Utterances, IsResults
<1>3. \A k \in 1 .. n : P[k].type = "result"
  BY <1>1 DEF IsResults
<1>4. /\ Parts({"result"}, P) = P
      /\ Parts({"use"}, P) = <<>>
      /\ Parts({"text"}, P) = <<>>
  <2>1. \A k \in 1 .. Len(P) : P[k].type \in {"result"}
    BY <1>1, <1>3
  <2>2. \A k \in 1 .. Len(P) : P[k].type \notin {"use"} /\ P[k].type \notin {"text"}
    BY <1>1, <1>3
  <2>3. QED
    BY <1>2, <2>1, <2>2, PartsAll
<1>5. PICK each : each = [r \in Roles |-> [k \in 1 .. n |-> Item(r, <<P[k]>>)]]
  OBVIOUS
<1>6. ASSUME NEW r \in Roles
      PROVE  Each(each[r], P)
  <2>1. each[r] = [k \in 1 .. n |-> Item(r, <<P[k]>>)]
    BY <1>5
  <2>2. PICK items : items = each[r]
    OBVIOUS
  <2>3. items = [k \in 1 .. n |-> Item(r, <<P[k]>>)]
    BY <2>1, <2>2
  <2>4. \A k \in 1 .. n : items[k] \in Entries /\ items[k].parts = <<P[k]>>
    <3>1. ASSUME NEW k \in 1 .. n
          PROVE  items[k] \in Entries /\ items[k].parts = <<P[k]>>
      <4>1. P[k] \in Part
        BY <1>1, <1>2
      <4>2. items[k] = Item(r, <<P[k]>>)
        BY <2>3
      <4>3. QED
        BY <1>6, <4>1, <4>2, OnePart
    <3>2. QED
      BY <3>1
  <2>5. DOMAIN items = 1 .. n /\ items = [k \in 1 .. n |-> items[k]]
    BY ONLY <2>3
  <2>6. QED
    BY <1>1, <1>2, <2>2, <2>4, <2>5, EachItem
<1>7. CASE form = "chat"
  <2>1. Parts({"text"}, P) \o Parts({"use"}, P) = <<>>
    <3>1. <<>> \o <<>> = <<>>
      OBVIOUS
    <3>2. QED
      BY <1>4, <3>1
  <2>2. ChatItems(m) = <<>> \o each["tool"]
    BY <1>1, <1>2, <1>4, <1>5, <2>1 DEF ChatItems, Roles
  <2>3. each["tool"] \in Seq(Entries) /\ Each(each["tool"], P)
    BY <1>6 DEF Roles, Each
  <2>4. <<>> \o each["tool"] = each["tool"]
    BY <2>3, ConcatEmptySeq
  <2>5. QED
    BY <1>1, <1>4, <1>7, <2>2, <2>3, <2>4 DEF Items
<1>8. CASE form = "responses"
  <2>1. ResponsesItems(m) = each["function_call_output"] \o <<>>
    BY <1>1, <1>2, <1>4, <1>5 DEF ResponsesItems, Roles
  <2>2. each["function_call_output"] \in Seq(Entries) /\ Each(each["function_call_output"], P)
    BY <1>6 DEF Roles, Each
  <2>3. each["function_call_output"] \o <<>> = each["function_call_output"]
    BY <2>2, ConcatEmptySeq
  <2>4. QED
    BY <1>1, <1>4, <1>8, <2>1, <2>2, <2>3 DEF Items
<1>9. CASE form = "anthropic"
  <2>1. PICK i : i = Item("user", P)
    OBVIOUS
  <2>2. i \in Entries /\ i.parts = P
    BY <1>2, <2>1 DEF Item, Entries, Roles
  <2>3. <<i>> \in Seq(Entries) /\ Len(<<i>>) = 1 /\ <<i>>[1] = i
    BY ONLY <2>2
  <2>4. AsOne(<<i>>, P)
    BY <2>2, <2>3 DEF AsOne
  <2>5. QED
    BY <1>1, <1>2, <1>4, <1>9, <2>1, <2>4 DEF Items, AnthropicItems
<1>10. QED
  BY <1>7, <1>8, <1>9 DEF Apis

\* The request grows at its end only.
LEMMA PayloadGrows ==
  ASSUME NEW c \in Seq(Utterances), NEW m \in Utterances, NEW form,
         \A k \in DOMAIN c : Items(form, c[k]) \in Seq(Entries), Items(form, m) \in Seq(Entries)
  PROVE  /\ Payload(form, c) \in Seq(Entries)
         /\ Payload(form, Append(c, m)) = Payload(form, c) \o Items(form, m)
         /\ \A k \in DOMAIN Append(c, m) : Items(form, Append(c, m)[k]) \in Seq(Entries)
<1>1. PICK n, V, d : n = Len(c) /\ V = Seq(Entries) /\ d = Append(c, m)
  OBVIOUS
<1>2. n \in Nat /\ DOMAIN c = 1 .. n /\ DOMAIN d = 1 .. n + 1 /\ d[n + 1] = m /\ \A k \in 1 .. n : d[k] = c[k]
  BY <1>1
<1>3. PICK a, b, x : /\ a = [k \in 1 .. n |-> Items(form, c[k])]
                     /\ b = [k \in 1 .. n + 1 |-> Items(form, d[k])]
                     /\ x = Items(form, m)
  OBVIOUS
<1>4. a \in Seq(V) /\ Len(a) = n
  <2>1. \A k \in 1 .. n : a[k] \in V /\ DOMAIN a = 1 .. n
    BY <1>1, <1>2, <1>3
  <2>2. a = [k \in 1 .. n |-> a[k]]
    BY <1>3
  <2>3. QED
    BY ONLY <1>2, <2>1, <2>2
<1>5. b = Append(a, x)
  <2>1. \A k \in 1 .. n + 1 : b[k] = IF k = n + 1 THEN x ELSE a[k]
    <3>1. ASSUME NEW k \in 1 .. n + 1
          PROVE  b[k] = IF k = n + 1 THEN x ELSE a[k]
      <4>1. k = n + 1 \/ (k \in 1 .. n /\ k # n + 1)
        BY <1>2
      <4>2. QED
        BY <1>2, <1>3, <4>1
    <3>2. QED
      BY <3>1
  <2>2. b = [k \in 1 .. n + 1 |-> b[k]] /\ DOMAIN b = 1 .. n + 1
    BY <1>3
  <2>3. x \in V
    BY <1>1, <1>3
  <2>4. PICK e : e = Append(a, x)
    OBVIOUS
  <2>5. e \in Seq(V) /\ Len(e) = n + 1 /\ \A k \in 1 .. n + 1 : e[k] = IF k = n + 1 THEN x ELSE a[k]
    BY ONLY <1>2, <1>4, <2>3, <2>4
  <2>6. e = [k \in 1 .. n + 1 |-> e[k]] /\ DOMAIN e = 1 .. n + 1
    BY ONLY <1>2, <2>5
  <2>7. \A k \in 1 .. n + 1 : b[k] = e[k]
    BY <2>1, <2>5
  <2>8. QED
    BY <2>2, <2>4, <2>6, <2>7
<1>6. Flat(a) \in Seq(Entries) /\ Flat(b) = Flat(a) \o x
  BY <1>1, <1>3, <1>4, <1>5, FlatAppend
<1>7. Payload(form, c) = Flat(a) /\ Payload(form, d) = Flat(b)
  BY <1>2, <1>3 DEF Payload
<1>8. \A k \in DOMAIN d : Items(form, d[k]) \in V
  <2>1. ASSUME NEW k \in 1 .. n + 1
        PROVE  Items(form, d[k]) \in V
    <3>1. k = n + 1 \/ k \in 1 .. n
      BY <1>2
    <3>2. QED
      BY <1>1, <1>2, <3>1
  <2>2. QED
    BY <1>2, <2>1
<1>9. QED
  BY <1>1, <1>3, <1>6, <1>7, <1>8

\* Where the items are in what follows.
LEMMA ItemsFollow ==
  ASSUME NEW w \in Seq(Entries), NEW items \in Seq(Entries)
  PROVE  /\ w \o items \in Seq(Entries) /\ Len(w \o items) = Len(w) + Len(items)
         /\ Len(w) \in Nat /\ Len(items) \in Nat
         /\ \A k \in 1 .. Len(w) : (w \o items)[k] = w[k]
         /\ \A k \in 1 .. Len(items) : (w \o items)[Len(w) + k] = items[k]
         /\ \A k \in 1 .. Len(w \o items) :
              k \in 1 .. Len(w) \/ \E j \in 1 .. Len(items) : k = Len(w) + j
<1>1. Len(w) \in Nat /\ Len(items) \in Nat
  OBVIOUS
<1>2. /\ w \o items \in Seq(Entries) /\ Len(w \o items) = Len(w) + Len(items)
      /\ \A k \in 1 .. Len(w) + Len(items) :
           (w \o items)[k] = IF k <= Len(w) THEN w[k] ELSE items[k - Len(w)]
  BY ConcatProperties
<1>3. \A k \in 1 .. Len(w) : (w \o items)[k] = w[k]
  BY <1>1, <1>2
<1>4. \A k \in 1 .. Len(items) : (w \o items)[Len(w) + k] = items[k]
  <2>1. ASSUME NEW k \in 1 .. Len(items)
        PROVE  (w \o items)[Len(w) + k] = items[k]
    <3>1. Len(w) + k \in 1 .. Len(w) + Len(items) /\ ~ (Len(w) + k <= Len(w)) /\ (Len(w) + k) - Len(w) = k
      BY <1>1
    <3>2. QED
      BY <1>2, <3>1
  <2>2. QED
    BY <2>1
<1>5. ASSUME NEW k \in 1 .. Len(w) + Len(items)
      PROVE  k \in 1 .. Len(w) \/ \E j \in 1 .. Len(items) : k = Len(w) + j
  <2>1. CASE k <= Len(w)
    BY <1>1, <2>1
  <2>2. CASE ~ (k <= Len(w))
    <3>1. k - Len(w) \in 1 .. Len(items) /\ k = Len(w) + (k - Len(w))
      BY <1>1, <2>2
    <3>2. QED
      BY <3>1
  <2>3. QED
    BY <2>1, <2>2
<1>6. QED
  BY <1>1, <1>2, <1>3, <1>4, <1>5

LEMMA AloneGrows ==
  ASSUME NEW w \in Seq(Entries), NEW items \in Seq(Entries), Alone(w), Alone(items)
  PROVE  Alone(w \o items)
<1>1. DOMAIN (w \o items) = 1 .. Len(w \o items) /\ DOMAIN w = 1 .. Len(w)
      /\ DOMAIN items = 1 .. Len(items)
  BY ItemsFollow
<1>2. ASSUME NEW k \in 1 .. Len(w \o items), Parts({"result"}, (w \o items)[k].parts) # <<>>
      PROVE  Len((w \o items)[k].parts) = 1
  <2>1. CASE k \in 1 .. Len(w)
    <3>1. (w \o items)[k] = w[k]
      BY <2>1, ItemsFollow
    <3>2. QED
      BY <1>1, <1>2, <2>1, <3>1 DEF Alone
  <2>2. CASE \E j \in 1 .. Len(items) : k = Len(w) + j
    <3>1. PICK j \in 1 .. Len(items) : (w \o items)[k] = items[j]
      BY <2>2, ItemsFollow
    <3>2. QED
      BY <1>1, <1>2, <3>1 DEF Alone
  <2>3. QED
    BY <2>1, <2>2, ItemsFollow
<1>3. QED
  BY <1>1, <1>2 DEF Alone

LEMMA StandsOn ==
  ASSUME NEW w \in Seq(Entries), NEW items \in Seq(Entries), NEW x, Len(x) \in Nat, Stands(x, w)
  PROVE  Stands(x, w \o items)
<1>1. PICK v, l : v = w \o items /\ l = Len(w)
  OBVIOUS
<1>2. l \in Nat /\ Len(items) \in Nat /\ Len(v) = l + Len(items) /\ \A k \in 1 .. l : v[k] = w[k]
  BY <1>1, ItemsFollow
<1>3. PICK n \in 0 .. l - Len(x) : \A j \in 1 .. Len(x) : w[n + j] = x[j]
  BY <1>1 DEF Stands
<1>4. n \in 0 .. Len(v) - Len(x)
  BY <1>2
<1>5. \A j \in 1 .. Len(x) : n + j \in 1 .. l
  BY <1>2
<1>6. \A j \in 1 .. Len(x) : v[n + j] = x[j]
  BY <1>2, <1>3, <1>5
<1>7. QED
  BY <1>1, <1>4, <1>6 DEF Stands

LEMMA StandsAtEnd ==
  ASSUME NEW w \in Seq(Entries), NEW a \in Seq(Entries), NEW b \in Seq(Entries), EndsIn(w, a)
  PROVE  Stands(a \o b, w \o b)
<1>1. PICK v, x : v = w \o b /\ x = a \o b
  OBVIOUS
<1>2. /\ Len(v) = Len(w) + Len(b) /\ Len(w) \in Nat /\ Len(b) \in Nat
      /\ \A k \in 1 .. Len(w) : v[k] = w[k]
      /\ \A k \in 1 .. Len(b) : v[Len(w) + k] = b[k]
  BY <1>1, ItemsFollow
<1>3. /\ Len(x) = Len(a) + Len(b) /\ Len(a) \in Nat
      /\ \A k \in 1 .. Len(a) : x[k] = a[k]
      /\ \A k \in 1 .. Len(b) : x[Len(a) + k] = b[k]
      /\ \A k \in 1 .. Len(x) : k \in 1 .. Len(a) \/ \E j \in 1 .. Len(b) : k = Len(a) + j
  BY <1>1, ItemsFollow
<1>4. PICK n \in Nat : Len(w) = n + Len(a) /\ \A j \in 1 .. Len(a) : w[n + j] = a[j]
  BY DEF EndsIn
<1>5. ASSUME NEW j \in 1 .. Len(x)
      PROVE  v[n + j] = x[j]
  <2>1. CASE j \in 1 .. Len(a)
    <3>1. n + j \in 1 .. Len(w)
      BY <1>2, <1>3, <1>4, <2>1
    <3>2. QED
      BY <1>2, <1>3, <1>4, <2>1, <3>1
  <2>2. CASE \E i \in 1 .. Len(b) : j = Len(a) + i
    <3>1. PICK i \in 1 .. Len(b) : j = Len(a) + i
      BY <2>2
    <3>2. n + j = Len(w) + i
      BY <1>2, <1>3, <1>4, <3>1
    <3>3. QED
      BY <1>2, <1>3, <3>1, <3>2
  <2>3. QED
    BY <1>3, <2>1, <2>2
<1>6. n \in 0 .. Len(v) - Len(x)
  BY <1>2, <1>3, <1>4
<1>7. QED
  BY <1>1, <1>5, <1>6 DEF Stands

\* The parts of a message are those of its items.
LEMMA PartsOfItems ==
  ASSUME NEW P \in Seq(Part), NEW items, AsOne(items, P) \/ Each(items, P), NEW p
  PROVE  /\ \A j \in 1 .. Len(items) : Contains(items[j].parts, p) => Contains(P, p)
         /\ Contains(P, p) => \E j \in 1 .. Len(items) : Contains(items[j].parts, p)
<1>1. CASE AsOne(items, P)
  BY <1>1 DEF AsOne, Contains
<1>2. CASE Each(items, P)
  <2>1. Len(items) = Len(P) /\ \A k \in 1 .. Len(P) : items[k].parts = <<P[k]>>
    BY <1>2 DEF Each
  <2>2. \A k \in 1 .. Len(P) : Len(<<P[k]>>) = 1 /\ <<P[k]>>[1] = P[k]
    OBVIOUS
  <2>3. QED
    BY <2>1, <2>2 DEF Contains
<1>3. QED
  BY <1>1, <1>2

\* The calls of an answer, in its items.
LEMMA AnswerPending ==
  ASSUME NEW m \in Utterances, NEW c, IsAnswer(m, c), NEW items,
         AsOne(items, m.parts) \/ Each(items, m.parts)
  PROVE  /\ \A j \in 1 .. Len(items) : Parts({"result"}, items[j].parts) = <<>>
         /\ Pending(items, Parts({"use"}, m.parts))
<1>1. PICK P, n, u : P = m.parts /\ n = Len(P) /\ u = Parts({"use"}, m.parts)
  OBVIOUS
<1>2. P \in Seq(Part) /\ n \in Nat /\ c \in 0 .. n /\ c \in Nat
  BY <1>1 DEF Utterances, IsAnswer
<1>3. u = SubSeq(P, c + 1, n) /\ Parts({"result"}, P) = <<>>
  BY <1>1, AnswerParts
<1>4. Len(u) = n - c /\ \A k \in 1 .. n - c : u[k] = P[c + k] /\ c + k \in 1 .. n
  <2>1. PICK T : T = Part
    OBVIOUS
  <2>2. P \in Seq(T)
    BY <1>2, <2>1
  <2>3. Len(u) = n - c /\ \A k \in 1 .. n - c : u[k] = P[c + k]
    BY ONLY <1>1, <1>2, <1>3, <2>2
  <2>4. \A k \in 1 .. n - c : c + k \in 1 .. n
    BY <1>2
  <2>5. QED
    BY <2>3, <2>4
<1>5. \A k \in 1 .. n : P[k].type # "result" /\ (k <= c <=> P[k] = Text)
  BY <1>1 DEF IsAnswer, Text
<1>6. CASE AsOne(items, P)
  <2>1. Len(items) = 1 /\ items[1].parts = P
    BY <1>6 DEF AsOne
  <2>2. \A k \in 1 .. Len(u) : Contains(items[1].parts, u[k])
    BY <1>1, <1>2, <1>4, <2>1 DEF Contains
  <2>3. \A o \in 1 + 1 .. Len(items) : FALSE
    BY <2>1
  <2>4. Pending(items, u)
    BY <2>1, <2>2, <2>3 DEF Pending
  <2>5. QED
    BY <1>1, <1>3, <2>1, <2>4
<1>7. CASE Each(items, P)
  <2>1. Len(items) = n /\ \A k \in 1 .. n : items[k].parts = <<P[k]>>
    BY <1>1, <1>7 DEF Each
  <2>2. ASSUME NEW k \in 1 .. n
        PROVE  /\ Parts({"result"}, items[k].parts) = <<>>
               /\ Contains(items[k].parts, P[k])
               /\ P[k] # Text => ~ Contains(items[k].parts, Text)
    <3>1. PICK q, s : q = P[k] /\ s = <<q>>
      OBVIOUS
    <3>2. q \in Part /\ q.type # "result"
      BY <1>1, <1>2, <1>5, <3>1
    <3>3. s \in Seq(Part) /\ Len(s) = 1 /\ s[1] = q
      BY ONLY <3>1, <3>2
    <3>4. Parts({"result"}, s) = <<>>
      <4>1. \A i \in 1 .. Len(s) : s[i].type \notin {"result"}
        BY <3>2, <3>3
      <4>2. QED
        BY <3>3, <4>1, PartsAll
    <3>5. Contains(s, q) /\ (q # Text => ~ Contains(s, Text))
      BY <3>3 DEF Contains
    <3>6. QED
      BY <2>1, <3>1, <3>4, <3>5
  <2>3. Pending(items, u)
    <3>1. ASSUME NEW k \in 1 .. Len(u)
          PROVE  \E i \in 1 .. Len(items) :
                   /\ Contains(items[i].parts, u[k])
                   /\ \A o \in i + 1 .. Len(items) : ~ Contains(items[o].parts, Text)
      <4>1. c + k \in 1 .. n /\ u[k] = P[c + k] /\ k \in Nat
        BY <1>2, <1>4
      <4>2. ASSUME NEW o \in (c + k) + 1 .. n
            PROVE  ~ Contains(items[o].parts, Text)
        <5>1. o \in 1 .. n /\ ~ (o <= c)
          BY <1>2, <4>1
        <5>2. P[o] # Text
          BY <1>5, <5>1
        <5>3. QED
          BY <2>2, <5>1, <5>2
      <4>3. QED
        BY <2>1, <2>2, <4>1, <4>2
    <3>2. QED
      BY <3>1 DEF Pending
  <2>4. QED
    BY <1>1, <2>1, <2>2, <2>3
<1>8. QED
  BY <1>1, <1>6, <1>7

LEMMA UseHasId ==
  ASSUME NEW p \in Part, p.type = "use"
  PROVE  \E i \in CallId : p = Use(i) /\ p.id = i
<1>1. p # Text /\ \A i \in CallId : p # Result(i)
  BY DEF Text, Result
<1>2. PICK i \in CallId : p = Use(i)
  BY <1>1 DEF Part
<1>3. QED
  BY <1>2 DEF Use

\* Results are answers to the calls of the message before.
LEMMA PairedItems ==
  ASSUME NEW m \in Utterances, NEW r \in Utterances, NEW form \in Apis, Shaped(m), Shaped(r),
         NEW uses, uses = Parts({"use"}, m.parts), uses # <<>>, r.parts = ResultsOf(uses)
  PROVE  Paired(Items(form, m) \o Items(form, r))
<1>1. PICK P, R, a, b : P = m.parts /\ R = r.parts /\ a = Items(form, m) /\ b = Items(form, r)
  OBVIOUS
<1>2. P \in Seq(Part) /\ R \in Seq(Part)
  BY <1>1 DEF Utterances
<1>3. PICK e : IsAnswer(m, e)
  BY TextItems, ResultItems DEF Shaped
<1>4. uses \in Seq(Of({"use"}))
  BY <1>1, <1>2, PartsType
<1>5. PICK n : n = Len(uses)
  OBVIOUS
<1>6. n \in Nat /\ n > 0 /\ DOMAIN uses = 1 .. n /\ \A k \in 1 .. n : uses[k] \in Of({"use"})
  <2>1. PICK O : O = Of({"use"})
    OBVIOUS
  <2>2. n \in Nat /\ n > 0 /\ DOMAIN uses = 1 .. n /\ \A k \in 1 .. n : uses[k] \in O
    BY ONLY <1>4, <1>5, <2>1, uses # <<>>
  <2>3. QED
    BY <2>1, <2>2
<1>7. R = [k \in 1 .. n |-> Result(uses[k].id)]
  BY <1>1, <1>6 DEF ResultsOf
<1>8. Len(R) = n /\ \A k \in 1 .. n : R[k] = Result(uses[k].id) /\ R[k].type = "result" /\ R[k] # Text
  BY <1>2, <1>6, <1>7 DEF Result, Text
<1>9. ASSUME NEW k \in 1 .. n
      PROVE  \E i \in CallId : uses[k] = Use(i) /\ uses[k].id = i
  <2>1. uses[k] \in Part /\ uses[k].type = "use"
    BY <1>6 DEF Of
  <2>2. QED
    BY <2>1, UseHasId
<1>10. IsResults(r)
  <2>1. 1 \in 1 .. n
    BY <1>6
  <2>2. ~ IsText(r)
    <3>1. ASSUME R = <<Text>>
          PROVE  FALSE
      <4>1. R[1] = Text
        BY <3>1
      <4>2. QED
        BY <1>8, <2>1, <4>1
    <3>2. QED
      BY <1>1, <3>1 DEF IsText
  <2>3. \A c : ~ IsAnswer(r, c)
    BY <1>1, <1>8, <2>1 DEF IsAnswer
  <2>4. QED
    BY <2>2, <2>3 DEF Shaped
<1>11. AsOne(a, P) \/ Each(a, P)
  BY <1>1, <1>3, AnswerItems
<1>12. AsOne(b, R) \/ Each(b, R)
  BY <1>1, <1>10, ResultItems
<1>13. Pending(a, uses)
  BY <1>1, <1>3, <1>11, AnswerPending
<1>14. a \in Seq(Entries) /\ b \in Seq(Entries)
  BY <1>11, <1>12 DEF AsOne, Each
<1>15. PICK x : x = a \o b
  OBVIOUS
<1>16. /\ Len(x) = Len(a) + Len(b) /\ Len(a) \in Nat /\ Len(b) \in Nat
       /\ \A k \in 1 .. Len(a) : x[k] = a[k]
       /\ \A k \in 1 .. Len(b) : x[Len(a) + k] = b[k]
       /\ \A k \in 1 .. Len(x) : k \in 1 .. Len(a) \/ \E j \in 1 .. Len(b) : k = Len(a) + j
  BY <1>14, <1>15, ItemsFollow
<1>17. \A k \in 1 .. Len(P) : P[k].type # "result"
  BY <1>1, <1>3 DEF IsAnswer, Text
<1>18. ASSUME NEW i \in CallId, NEW q \in 1 .. Len(x), NEW part \in {Use(i), Result(i)},
              Contains(x[q].parts, part)
       PROVE  \E k \in 1 .. n : uses[k] = Use(i)
  <2>1. CASE q \in 1 .. Len(a)
    <3>1. Contains(P, part)
      BY <1>2, <1>11, <1>16, <1>18, <2>1, PartsOfItems
    <3>2. PICK k \in 1 .. Len(P) : P[k] = part
      BY <3>1 DEF Contains
    <3>3. part = Use(i) /\ P[k].type = "use"
      BY <1>17, <3>2 DEF Use, Result
    <3>4. PICK c : c \in 0 .. Len(P) /\ uses = SubSeq(P, c + 1, Len(P)) /\ ~ (k <= c)
      <4>1. uses = SubSeq(P, e + 1, Len(P)) /\ e \in {0, 1} /\ e <= Len(P)
        BY <1>1, <1>3, AnswerParts DEF IsAnswer
      <4>2. P[k] # Text
        BY <3>3 DEF Text
      <4>3. ~ (k <= e)
        BY <1>1, <1>3, <4>2 DEF IsAnswer
      <4>4. e \in 0 .. Len(P)
        <5>1. Len(P) \in Nat
          BY <1>2
        <5>2. QED
          BY <4>1, <5>1
      <4>5. QED
        BY <4>1, <4>3, <4>4
    <3>5. PICK T : T = Part
      OBVIOUS
    <3>6. P \in Seq(T) /\ k \in 1 .. Len(P)
      BY <1>2, <3>5
    <3>7. k - c \in 1 .. Len(uses) /\ uses[k - c] = P[k]
      BY ONLY <3>4, <3>6
    <3>8. QED
      BY <1>5, <3>2, <3>3, <3>7
  <2>2. CASE \E j \in 1 .. Len(b) : q = Len(a) + j
    <3>1. Contains(R, part)
      BY <1>2, <1>12, <1>16, <1>18, <2>2, PartsOfItems
    <3>2. PICK k \in 1 .. n : R[k] = part
      BY <1>8, <3>1 DEF Contains
    <3>3. part = Result(i)
      BY <1>8, <3>2 DEF Use
    <3>4. uses[k].id = i
      BY <1>8, <3>2, <3>3 DEF Result
    <3>5. QED
      BY <1>9, <3>4
  <2>3. QED
    BY <1>16, <2>1, <2>2
<1>19. ASSUME NEW i \in CallId, NEW k \in 1 .. n, uses[k] = Use(i)
       PROVE  \E q, o \in 1 .. Len(x) :
                /\ q < o
                /\ Contains(x[q].parts, Use(i)) /\ Contains(x[o].parts, Result(i))
                /\ \A between \in q + 1 .. o : ~ Contains(x[between].parts, Text)
  <2>1. PICK q \in 1 .. Len(a) : /\ Contains(a[q].parts, Use(i))
                                 /\ \A o \in q + 1 .. Len(a) : ~ Contains(a[o].parts, Text)
    BY <1>5, <1>13, <1>19 DEF Pending
  <2>2. R[k] = Result(i)
    BY <1>8, <1>19 DEF Use
  <2>3. PICK j \in 1 .. Len(b) : Contains(b[j].parts, Result(i))
    <3>1. Contains(R, Result(i))
      BY <1>8, <2>2 DEF Contains
    <3>2. QED
      BY <1>2, <1>12, <3>1, PartsOfItems
  <2>4. ~ Contains(R, Text)
    BY <1>8 DEF Contains
  <2>5. ASSUME NEW between \in q + 1 .. Len(a) + j
        PROVE  ~ Contains(x[between].parts, Text)
    <3>1. CASE between <= Len(a)
      <4>1. between \in q + 1 .. Len(a) /\ between \in 1 .. Len(a)
        BY <1>16, <3>1
      <4>2. QED
        BY <1>16, <2>1, <4>1
    <3>2. CASE ~ (between <= Len(a))
      <4>1. between - Len(a) \in 1 .. Len(b) /\ Len(a) + (between - Len(a)) = between
        BY <1>16, <3>2
      <4>2. x[between] = b[between - Len(a)]
        BY <1>16, <4>1
      <4>3. QED
        BY <1>2, <1>12, <2>4, <4>1, <4>2, PartsOfItems
    <3>3. QED
      BY <3>1, <3>2
  <2>6. q \in 1 .. Len(x) /\ Len(a) + j \in 1 .. Len(x) /\ q < Len(a) + j
    BY <1>16
  <2>7. QED
    BY <1>16, <2>1, <2>3, <2>5, <2>6
<1>20. Paired(x)
  BY <1>18, <1>19 DEF Paired
<1>21. QED
  BY <1>1, <1>15, <1>20

\* Every message that a turn adds makes the request good again.
LEMMA GoodGrows ==
  ASSUME NEW c \in Seq(Utterances), NEW m \in Utterances, NEW form \in Apis, Good(form, c), Shaped(m)
  PROVE  Good(form, Append(c, m))
<1>1. PICK w, x, d, l : w = Payload(form, c) /\ x = Items(form, m) /\ d = Append(c, m) /\ l = Len(c)
  OBVIOUS
<1>2. /\ AsOne(x, m.parts) \/ Each(x, m.parts)
      /\ form # "anthropic" => Alone(x)
  <2>1. CASE IsText(m)
    <3>1. AsOne(x, m.parts) /\ m.parts = <<Text>>
      BY <1>1, <2>1, TextItems DEF IsText
    <3>2. Len(x) = 1 /\ x[1].parts = <<Text>> /\ Len(<<Text>>) = 1
      BY <3>1 DEF AsOne
    <3>3. QED
      BY <3>1, <3>2 DEF Alone, AsOne
  <2>2. CASE \E e : IsAnswer(m, e)
    <3>1. PICK e : IsAnswer(m, e)
      BY <2>2
    <3>2. AsOne(x, m.parts) \/ Each(x, m.parts)
      BY <1>1, <3>1, AnswerItems
    <3>3. x \in Seq(Entries)
      BY <3>2 DEF AsOne, Each
    <3>4. DOMAIN x = 1 .. Len(x) /\ \A j \in 1 .. Len(x) : Parts({"result"}, x[j].parts) = <<>>
      BY <3>1, <3>2, <3>3, AnswerPending
    <3>5. QED
      BY <3>2, <3>4 DEF Alone
  <2>3. CASE IsResults(m)
    <3>1. IF form = "anthropic" THEN AsOne(x, m.parts) ELSE Each(x, m.parts)
      BY <1>1, <2>3, ResultItems
    <3>2. ASSUME Each(x, m.parts)
          PROVE  Alone(x)
      <4>1. DOMAIN x = 1 .. Len(m.parts) /\ \A k \in 1 .. Len(m.parts) : x[k].parts = <<m.parts[k]>>
        BY <3>2 DEF Each
      <4>2. \A k \in 1 .. Len(m.parts) : Len(<<m.parts[k]>>) = 1
        OBVIOUS
      <4>3. QED
        BY <4>1, <4>2 DEF Alone
    <3>3. QED
      BY <3>1, <3>2
  <2>4. QED
    BY <2>1, <2>2, <2>3 DEF Shaped
<1>3. x \in Seq(Entries)
  BY <1>2 DEF AsOne, Each
<1>4. Said(x) = m.parts
  BY <1>2, SaidItems DEF Utterances
<1>5. /\ w \in Seq(Entries) /\ Payload(form, d) = w \o x
      /\ \A k \in DOMAIN d : Items(form, d[k]) \in Seq(Entries)
  BY <1>1, <1>3, PayloadGrows DEF Good
<1>6. w \o x \in Seq(Entries) /\ Len(w) \in Nat /\ Len(x) \in Nat
  BY <1>3, <1>5, ItemsFollow
<1>7. Said(w \o x) = Said(d)
  <2>1. Said(w \o x) = Said(w) \o m.parts
    <3>1. \A r \in Entries : r.parts \in Seq(Part)
      BY DEF Entries
    <3>2. Said(w \o x) = Said(w) \o Said(x)
      BY <1>3, <1>5, <3>1, SaidConcat
    <3>3. QED
      BY <1>4, <3>2
  <2>2. Said(d) = Said(c) \o m.parts
    <3>1. \A r \in Utterances : r.parts \in Seq(Part)
      BY DEF Utterances
    <3>2. PICK one : one = <<m>>
      OBVIOUS
    <3>3. one \in Seq(Utterances) /\ d = c \o one
      BY ONLY <1>1, <3>2
    <3>4. Said(d) = Said(c) \o Said(one)
      BY <3>1, <3>3, SaidConcat
    <3>5. Said(one) = m.parts
      BY <3>1, <3>2, SaidOne
    <3>6. QED
      BY <3>4, <3>5
  <2>3. Said(w) = Said(c)
    BY <1>1 DEF Good
  <2>4. QED
    BY <2>1, <2>2, <2>3
<1>8. /\ l \in Nat /\ DOMAIN c = 1 .. l /\ Len(d) = l + 1 /\ DOMAIN d = 1 .. l + 1
      /\ d[l + 1] = m /\ d # <<>> /\ \A k \in 1 .. l : d[k] = c[k]
  BY <1>1
<1>9. \A k \in DOMAIN d : Shaped(d[k])
  <2>1. ASSUME NEW k \in 1 .. l + 1
        PROVE  Shaped(d[k])
    <3>1. k = l + 1 \/ k \in 1 .. l
      BY <1>8
    <3>2. QED
      BY <1>8, <3>1 DEF Good
  <2>2. QED
    BY <1>8, <2>1
<1>10. form # "anthropic" => Alone(w \o x)
  BY <1>1, <1>2, <1>3, <1>5, AloneGrows DEF Good
<1>11. EndsIn(w \o x, x)
  BY <1>3, <1>5, ItemsFollow DEF EndsIn
<1>12. ASSUME NEW k \in 1 .. l, Replies(d, k)
       PROVE  Stands(Items(form, d[k]) \o Items(form, d[k + 1]), w \o x)
  <2>1. CASE k = l
    <3>1. c # <<>> /\ d[k] = c[Len(c)] /\ d[k + 1] = m
      BY <1>1, <1>8, <2>1
    <3>2. EndsIn(w, Items(form, c[Len(c)])) /\ Items(form, c[Len(c)]) \in Seq(Entries)
      BY <1>1, <1>8, <2>1, <3>1 DEF Good
    <3>3. QED
      BY <1>1, <1>3, <1>5, <3>1, <3>2, StandsAtEnd
  <2>2. CASE k # l
    <3>1. k \in 1 .. Len(c) - 1 /\ k \in 1 .. l /\ k + 1 \in 1 .. l
      BY <1>1, <1>8, <2>2
    <3>2. d[k] = c[k] /\ d[k + 1] = c[k + 1]
      BY <1>8, <3>1
    <3>3. Replies(c, k)
      BY <1>12, <3>2 DEF Replies
    <3>4. PICK y : y = Items(form, c[k]) \o Items(form, c[k + 1])
      OBVIOUS
    <3>5. Stands(y, w)
      BY <1>1, <3>1, <3>3, <3>4 DEF Good
    <3>6. Len(y) \in Nat
      <4>1. Items(form, c[k]) \in Seq(Entries) /\ Items(form, c[k + 1]) \in Seq(Entries)
        BY <1>8, <3>1 DEF Good
      <4>2. QED
        BY <3>4, <4>1, ItemsFollow
    <3>7. QED
      BY <1>3, <1>5, <3>2, <3>4, <3>5, <3>6, StandsOn
  <2>3. QED
    BY <2>1, <2>2
<1>13. Len(d) - 1 = l
  BY <1>8
<1>14. QED
  BY <1>1, <1>5, <1>6, <1>7, <1>8, <1>9, <1>10, <1>11, <1>12, <1>13 DEF Good

LEMMA RequestInitial == RequestInit => RequestInv
<1> SUFFICES ASSUME RequestInit
             PROVE  RequestInv
  OBVIOUS
<1>1. PICK c : c = conversation /\ c = <<>>
  BY DEF RequestInit
<1>2. c \in Seq(Utterances) /\ DOMAIN c = {} /\ DOMAIN <<>> = {} /\ Len(<<>>) = 0
  BY <1>1
<1>3. ASSUME NEW form \in Apis
      PROVE  Good(form, c)
  <2>1. \A F : [k \in {} |-> F] = <<>>
    OBVIOUS
  <2>2. [k \in DOMAIN c |-> Items(form, c[k])] = <<>> /\ [k \in DOMAIN c |-> c[k].parts] = <<>>
    BY <1>2
  <2>3. Payload(form, c) = <<>> /\ Said(c) = <<>>
    BY <2>2, FlatEmpty DEF Payload, Said
  <2>4. Said(<<>>) = <<>>
    BY <1>1, <2>3
  <2>5. Alone(<<>>)
    BY <1>2 DEF Alone
  <2>6. 1 .. Len(c) - 1 = {}
    BY <1>1
  <2>7. <<>> \in Seq(Entries)
    OBVIOUS
  <2>8. QED
    BY <1>1, <1>2, <2>3, <2>4, <2>5, <2>6, <2>7 DEF Good
<1>4. QED
  BY <1>1, <1>2, <1>3 DEF RequestInv

\* A text and calls make an answer.
LEMMA AnswerShape ==
  ASSUME NEW text \in {<<>>, <<Text>>}, NEW ids \in Seq(CallId), NEW m,
         m = [role |-> "assistant", parts |-> text \o [k \in DOMAIN ids |-> Use(ids[k])]]
  PROVE  m \in Utterances /\ \E c : IsAnswer(m, c)
<1>1. PICK n, c, T : n = Len(ids) /\ c = Len(text) /\ T = Part
  OBVIOUS
<1>2. n \in Nat /\ DOMAIN ids = 1 .. n /\ \A k \in 1 .. n : ids[k] \in CallId
  BY <1>1
<1>3. PICK b : b = [k \in 1 .. n |-> Use(ids[k])]
  OBVIOUS
<1>4. \A k \in 1 .. n : b[k] \in T /\ b[k].type = "use"
  BY <1>1, <1>2, <1>3 DEF Part, Use
<1>5. b \in Seq(T) /\ Len(b) = n
  <2>1. b = [k \in 1 .. n |-> b[k]]
    BY <1>3
  <2>2. QED
    BY ONLY <1>2, <1>4, <2>1
<1>6. c \in {0, 1} /\ text \in Seq(T) /\ \A k \in 1 .. c : text[k] = Text
  <2>1. CASE text = <<>>
    BY <1>1, <2>1
  <2>2. CASE text = <<Text>>
    <3>1. PICK t : t = Text
      OBVIOUS
    <3>2. t \in T
      BY <1>1, <3>1 DEF Part
    <3>3. text \in Seq(T) /\ Len(text) = 1 /\ text[1] = t
      BY ONLY <2>2, <3>1, <3>2
    <3>4. QED
      BY <1>1, <3>1, <3>3
  <2>3. QED
    BY <2>1, <2>2
<1>7. PICK p : p = text \o b
  OBVIOUS
<1>8. /\ p \in Seq(T) /\ Len(p) = Len(text) + Len(b)
      /\ \A k \in 1 .. Len(text) + Len(b) : p[k] = IF k <= Len(text) THEN text[k] ELSE b[k - Len(text)]
  BY <1>5, <1>6, <1>7, ConcatProperties
<1>9. m.role = "assistant" /\ m.parts = p /\ m = [role |-> "assistant", parts |-> p]
  BY <1>2, <1>3, <1>7
<1>10. m \in Utterances
  BY <1>1, <1>8, <1>9 DEF Utterances
<1>11. ASSUME NEW k \in 1 .. Len(p)
       PROVE  IF k <= c THEN p[k] = Text ELSE p[k].type = "use" /\ p[k] # Text
  <2>1. CASE k <= c
    <3>1. k \in 1 .. c
      BY <1>6, <2>1
    <3>2. QED
      BY <1>1, <1>5, <1>6, <1>8, <2>1, <3>1
  <2>2. CASE ~ (k <= c)
    <3>1. k - c \in 1 .. n
      BY <1>1, <1>2, <1>5, <1>6, <1>8, <2>2
    <3>2. p[k] = b[k - c]
      BY <1>1, <1>5, <1>8, <2>2
    <3>3. p[k].type = "use"
      BY <1>4, <3>1, <3>2
    <3>4. p[k] # Text
      BY <3>3 DEF Text
    <3>5. QED
      BY <2>2, <3>3, <3>4
  <2>3. QED
    BY <2>1, <2>2
<1>12. c <= Len(p)
  BY <1>1, <1>2, <1>5, <1>6, <1>8
<1>13. IsAnswer(m, c)
  BY <1>6, <1>9, <1>11, <1>12 DEF IsAnswer
<1>14. QED
  BY <1>10, <1>13

LEMMA RequestStep == RequestInv /\ [RequestNext]_requestVars => RequestInv'
<1> SUFFICES ASSUME RequestInv, [RequestNext]_requestVars
             PROVE  RequestInv'
  OBVIOUS
<1>1. PICK c, d : c = conversation /\ d = conversation'
  OBVIOUS
<1>2. c \in Seq(Utterances) /\ \A form \in Apis : Good(form, c)
  BY <1>1 DEF RequestInv
<1>5. ASSUME NEW m \in Utterances, d = Append(c, m), Shaped(m)
      PROVE  RequestInv'
  <2>1. d \in Seq(Utterances)
    BY ONLY <1>2, <1>5
  <2>2. \A form \in Apis : Good(form, d)
    BY <1>2, <1>5, GoodGrows
  <2>3. QED
    BY <1>1, <2>1, <2>2 DEF RequestInv
<1>6. CASE UserSays
  <2>1. PICK s : s = <<Text>>
    OBVIOUS
  <2>2. s \in Seq(Part)
    <3>1. PICK t, T : t = Text /\ T = Part
      OBVIOUS
    <3>2. t \in T
      BY <3>1 DEF Part
    <3>3. s \in Seq(T)
      BY ONLY <2>1, <3>1, <3>2
    <3>4. QED
      BY <3>1, <3>3
  <2>3. PICK m : m = [role |-> "user", parts |-> s]
    OBVIOUS
  <2>4. m \in Utterances /\ IsText(m)
    BY <2>1, <2>2, <2>3 DEF Utterances, IsText
  <2>5. d = Append(c, m)
    BY <1>1, <1>6, <2>1, <2>3 DEF UserSays, Says
  <2>6. QED
    BY <1>5, <2>4, <2>5 DEF Shaped
<1>7. CASE AssistantSays
  <2>1. PICK text \in {<<>>, <<Text>>}, ids \in BoundedSeq(CallId, MaxUses) :
          Says("assistant", text \o [k \in DOMAIN ids |-> Use(ids[k])])
    BY <1>7 DEF AssistantSays
  <2>2. ids \in Seq(CallId)
    <3>1. MaxUses \in Nat
      BY RequestBounds
    <3>2. PICK k \in 0 .. MaxUses : ids \in [1 .. k -> CallId]
      BY <2>1, <3>1 DEF BoundedSeq, SeqOf
    <3>3. k \in Nat
      BY <3>1
    <3>4. QED
      BY <3>2, <3>3
  <2>3. PICK m : m = [role |-> "assistant", parts |-> text \o [k \in DOMAIN ids |-> Use(ids[k])]]
    OBVIOUS
  <2>4. m \in Utterances /\ \E e : IsAnswer(m, e)
    BY <2>2, <2>3, AnswerShape
  <2>5. d = Append(c, m)
    BY <1>1, <2>1, <2>3 DEF Says
  <2>6. QED
    BY <1>5, <2>4, <2>5 DEF Shaped
<1>8. CASE ResultsFollow
  <2>1. PICK j, uses : /\ j \in DOMAIN c
                       /\ uses = Parts({"use"}, c[j].parts) /\ uses # <<>>
                       /\ Says("user", ResultsOf(uses))
    BY <1>1, <1>8 DEF ResultsFollow, Uses
  <2>2. PICK O : O = Of({"use"})
    OBVIOUS
  <2>3. uses \in Seq(O)
    <3>1. c[j] \in Utterances
      BY <1>2, <2>1
    <3>2. c[j].parts \in Seq(Part)
      BY <3>1 DEF Utterances
    <3>3. QED
      BY <2>1, <2>2, <3>2, PartsType
  <2>4. PICK n : n = Len(uses)
    OBVIOUS
  <2>5. n \in Nat /\ n > 0 /\ DOMAIN uses = 1 .. n /\ \A k \in 1 .. n : uses[k] \in O
    BY ONLY <2>1, <2>3, <2>4
  <2>6. PICK p : p = [k \in 1 .. n |-> Result(uses[k].id)]
    OBVIOUS
  <2>7. \A k \in 1 .. n : p[k] \in Part /\ p[k].type = "result" /\ p[k] = Result(uses[k].id)
    <3>1. ASSUME NEW k \in 1 .. n
          PROVE  p[k] \in Part /\ p[k].type = "result" /\ p[k] = Result(uses[k].id)
      <4>1. uses[k] \in Part /\ uses[k].type = "use"
        BY <2>2, <2>5 DEF Of
      <4>2. PICK i \in CallId : uses[k] = Use(i)
        BY <4>1 DEF Part, Text, Use, Result
      <4>3. p[k] = Result(i) /\ p[k] = Result(uses[k].id)
        BY <2>6, <4>2 DEF Use
      <4>4. QED
        BY <4>3 DEF Part, Result
    <3>2. QED
      BY <3>1
  <2>8. p \in Seq(Part) /\ Len(p) = n /\ p # <<>>
    <3>1. PICK T : T = Part
      OBVIOUS
    <3>2. p = [k \in 1 .. n |-> p[k]] /\ \A k \in 1 .. n : p[k] \in T
      BY <2>6, <2>7, <3>1
    <3>3. p \in Seq(T) /\ Len(p) = n
      BY ONLY <2>5, <3>2
    <3>4. QED
      BY <2>5, <3>1, <3>3
  <2>9. PICK m : m = [role |-> "user", parts |-> p]
    OBVIOUS
  <2>10. m \in Utterances /\ IsResults(m)
    BY <2>7, <2>8, <2>9 DEF Utterances, IsResults
  <2>11. d = Append(c, m)
    BY <1>1, <2>1, <2>5, <2>6, <2>9 DEF Says, ResultsOf
  <2>12. QED
    BY <1>5, <2>10, <2>11 DEF Shaped
<1>9. CASE UNCHANGED requestVars
  BY <1>9 DEF requestVars, RequestInv
<1>10. QED
  BY <1>6, <1>7, <1>8, <1>9 DEF RequestNext

\* Whatever turns have left in a conversation, in the form of each API a request says it in its
\* order, results stand alone where the API wants it, and calls that are directly followed
\* by their results are so in the request, each with its own (build_chat_payload,
\* build_responses_payload, build_payload).
THEOREM RequestsSayConversation == RequestSpec => []RequestsAreValid
<1>1. RequestInv => RequestsAreValid
  <2> SUFFICES ASSUME RequestInv, NEW form \in Apis
               PROVE  SaysConversation(form) /\ ResultsAnswerCalls(form)
    BY DEF Apis, RequestsAreValid
  <2>1. Good(form, conversation) /\ conversation \in Seq(Utterances)
    BY DEF RequestInv
  <2>2. SaysConversation(form) /\ (form # "anthropic" => Alone(Wire(form)))
    BY <2>1 DEF Good, SaysConversation, Wire
  <2>3. ASSUME NEW k \in 1 .. Len(conversation) - 1, IsAnswered(k)
        PROVE  /\ Stands(Items(form, conversation[k]) \o Items(form, conversation[k + 1]), Wire(form))
               /\ Paired(Items(form, conversation[k]) \o Items(form, conversation[k + 1]))
    <3>1. Replies(conversation, k)
      BY <2>3 DEF IsAnswered, Uses, Replies
    <3>2. k \in DOMAIN conversation /\ k + 1 \in DOMAIN conversation
      BY <2>1
    <3>3. /\ conversation[k] \in Utterances /\ conversation[k + 1] \in Utterances
          /\ Shaped(conversation[k]) /\ Shaped(conversation[k + 1])
      BY <2>1, <3>2 DEF Good
    <3>4. QED
      BY <2>1, <3>1, <3>3, PairedItems DEF Good, Wire, Replies
  <2>4. QED
    BY <2>2, <2>3 DEF ResultsAnswerCalls, Alone
<1>2. QED
  BY <1>1, RequestInitial, RequestStep, PTL DEF RequestSpec
------------------------------------------------------------------------------
(***************************************************************************)
(* The run of MCComponents.                                                *)
(***************************************************************************)

LEMMA OthersLeaveBackground == [ComponentsNext]_componentsVars => [BgNext]_bgVars
<1> SUFFICES ASSUME [ComponentsNext]_componentsVars, ~ BgNext
             PROVE  UNCHANGED bgVars
  OBVIOUS
<1>1. CASE UNCHANGED componentsVars
  BY <1>1 DEF componentsVars
<1>2. CASE ComponentsNext
  BY <1>2 DEF ComponentsNext, ButTeam, ButFile, ButTui, ButGate, ButMcp,
     ButStream, ButRequest, ButLine, ButDash, ButMem, ButText
<1>3. QED
  BY <1>1, <1>2

LEMMA OthersLeaveTeam == [ComponentsNext]_componentsVars => [TeamNext]_teamVars
<1> SUFFICES ASSUME [ComponentsNext]_componentsVars, ~ TeamNext
             PROVE  UNCHANGED teamVars
  OBVIOUS
<1>1. CASE UNCHANGED componentsVars
  BY <1>1 DEF componentsVars
<1>2. CASE ComponentsNext
  BY <1>2 DEF ComponentsNext, ButFile, ButTui, ButBg, ButGate, ButMcp,
     ButStream, ButRequest, ButLine, ButDash, ButMem, ButText
<1>3. QED
  BY <1>1, <1>2

LEMMA OthersLeaveGate == [ComponentsNext]_componentsVars => [GateNext]_gateVars
<1> SUFFICES ASSUME [ComponentsNext]_componentsVars, ~ GateNext
             PROVE  UNCHANGED gateVars
  OBVIOUS
<1>1. CASE UNCHANGED componentsVars
  BY <1>1 DEF componentsVars
<1>2. CASE ComponentsNext
  BY <1>2 DEF ComponentsNext, ButTeam, ButFile, ButTui, ButBg, ButMcp,
     ButStream, ButRequest, ButLine, ButDash, ButMem, ButText
<1>3. QED
  BY <1>1, <1>2

LEMMA OthersLeaveMcp == [ComponentsNext]_componentsVars => [McpNext]_mcpVars
<1> SUFFICES ASSUME [ComponentsNext]_componentsVars, ~ McpNext
             PROVE  UNCHANGED mcpVars
  OBVIOUS
<1>1. CASE UNCHANGED componentsVars
  BY <1>1 DEF componentsVars
<1>2. CASE ComponentsNext
  BY <1>2 DEF ComponentsNext, ButTeam, ButFile, ButTui, ButBg, ButGate,
     ButStream, ButRequest, ButLine, ButDash, ButMem, ButText
<1>3. QED
  BY <1>1, <1>2

LEMMA OthersLeaveTui == [ComponentsNext]_componentsVars => [TuiNext]_tuiVars
<1> SUFFICES ASSUME [ComponentsNext]_componentsVars, ~ TuiNext
             PROVE  UNCHANGED tuiVars
  OBVIOUS
<1>1. CASE UNCHANGED componentsVars
  BY <1>1 DEF componentsVars
<1>2. CASE ComponentsNext
  BY <1>2 DEF ComponentsNext, ButTeam, ButFile, ButBg, ButGate, ButMcp,
     ButStream, ButRequest, ButLine, ButDash, ButMem, ButText
<1>3. QED
  BY <1>1, <1>2

LEMMA OthersLeaveMemory == [ComponentsNext]_componentsVars => [MemNext]_memVars
<1> SUFFICES ASSUME [ComponentsNext]_componentsVars, ~ MemNext
             PROVE  UNCHANGED memVars
  OBVIOUS
<1>1. CASE UNCHANGED componentsVars
  BY <1>1 DEF componentsVars
<1>2. CASE ComponentsNext
  BY <1>2 DEF ComponentsNext, ButTeam, ButFile, ButTui, ButBg, ButGate,
     ButMcp, ButStream, ButRequest, ButLine, ButDash, ButText
<1>3. QED
  BY <1>1, <1>2

LEMMA OthersLeaveFile == [ComponentsNext]_componentsVars => [FileNext]_fileVars
<1> SUFFICES ASSUME [ComponentsNext]_componentsVars, ~ FileNext
             PROVE  UNCHANGED fileVars
  OBVIOUS
<1>1. CASE UNCHANGED componentsVars
  BY <1>1 DEF componentsVars
<1>2. CASE ComponentsNext
  BY <1>2 DEF ComponentsNext, ButTeam, ButTui, ButBg, ButGate, ButMcp,
     ButStream, ButRequest, ButLine, ButDash, ButMem, ButText
<1>3. QED
  BY <1>1, <1>2

LEMMA OthersLeaveLine == [ComponentsNext]_componentsVars => [LineNext]_lineVars
<1> SUFFICES ASSUME [ComponentsNext]_componentsVars, ~ LineNext
             PROVE  UNCHANGED lineVars
  OBVIOUS
<1>1. CASE UNCHANGED componentsVars
  BY <1>1 DEF componentsVars
<1>2. CASE ComponentsNext
  BY <1>2 DEF ComponentsNext, ButTeam, ButFile, ButTui, ButBg, ButGate,
     ButMcp, ButStream, ButRequest, ButDash, ButMem, ButText
<1>3. QED
  BY <1>1, <1>2

LEMMA OthersLeaveDashboard == [ComponentsNext]_componentsVars => [DashNext]_dashVars
<1> SUFFICES ASSUME [ComponentsNext]_componentsVars, ~ DashNext
             PROVE  UNCHANGED dashVars
  OBVIOUS
<1>1. CASE UNCHANGED componentsVars
  BY <1>1 DEF componentsVars
<1>2. CASE ComponentsNext
  BY <1>2 DEF ComponentsNext, ButTeam, ButFile, ButTui, ButBg, ButGate,
     ButMcp, ButStream, ButRequest, ButLine, ButMem, ButText
<1>3. QED
  BY <1>1, <1>2

LEMMA OthersLeaveTranscript == [ComponentsNext]_componentsVars => [TextNext]_textVars
<1> SUFFICES ASSUME [ComponentsNext]_componentsVars, ~ TextNext
             PROVE  UNCHANGED textVars
  OBVIOUS
<1>1. CASE UNCHANGED componentsVars
  BY <1>1 DEF componentsVars
<1>2. CASE ComponentsNext
  BY <1>2 DEF ComponentsNext, ButTeam, ButFile, ButTui, ButBg, ButGate,
     ButMcp, ButStream, ButRequest, ButLine, ButDash, ButMem
<1>3. QED
  BY <1>1, <1>2

LEMMA OthersLeaveStream == [ComponentsNext]_componentsVars => [StreamNext]_streamVars
<1> SUFFICES ASSUME [ComponentsNext]_componentsVars, ~ StreamNext
             PROVE  UNCHANGED streamVars
  OBVIOUS
<1>1. CASE UNCHANGED componentsVars
  BY <1>1 DEF componentsVars
<1>2. CASE ComponentsNext
  BY <1>2 DEF ComponentsNext, ButTeam, ButFile, ButTui, ButBg, ButGate,
     ButMcp, ButRequest, ButLine, ButDash, ButMem, ButText
<1>3. QED
  BY <1>1, <1>2

LEMMA OthersLeaveRequest == [ComponentsNext]_componentsVars => [RequestNext]_requestVars
<1> SUFFICES ASSUME [ComponentsNext]_componentsVars, ~ RequestNext
             PROVE  UNCHANGED requestVars
  OBVIOUS
<1>1. CASE UNCHANGED componentsVars
  BY <1>1 DEF componentsVars
<1>2. CASE ComponentsNext
  BY <1>2 DEF ComponentsNext, ButTeam, ButFile, ButTui, ButBg, ButGate,
     ButMcp, ButStream, ButLine, ButDash, ButMem, ButText
<1>3. QED
  BY <1>1, <1>2

LEMMA BackgroundRuns == ComponentsSpec => BgSpec
<1>1. ComponentsInit => BgInit
  BY DEF ComponentsInit
<1>2. QED
  BY <1>1, OthersLeaveBackground, PTL DEF ComponentsSpec, BgSpec

LEMMA TeamRuns == ComponentsSpec => TeamSpec
<1>1. ComponentsInit => TeamInit
  BY DEF ComponentsInit
<1>2. QED
  BY <1>1, OthersLeaveTeam, PTL DEF ComponentsSpec, TeamSpec

LEMMA GateRuns == ComponentsSpec => GateSpec
<1>1. ComponentsInit => GateInit
  BY DEF ComponentsInit
<1>2. QED
  BY <1>1, OthersLeaveGate, PTL DEF ComponentsSpec, GateSpec

LEMMA McpRuns == ComponentsSpec => McpSpec
<1>1. ComponentsInit => McpInit
  BY DEF ComponentsInit
<1>2. QED
  BY <1>1, OthersLeaveMcp, PTL DEF ComponentsSpec, McpSpec

LEMMA TuiRuns == ComponentsSpec => TuiSpec
<1>1. ComponentsInit => TuiInit
  BY DEF ComponentsInit
<1>2. QED
  BY <1>1, OthersLeaveTui, PTL DEF ComponentsSpec, TuiSpec

LEMMA MemoryRuns == ComponentsSpec => MemSpec
<1>1. ComponentsInit => MemInit
  BY DEF ComponentsInit
<1>2. QED
  BY <1>1, OthersLeaveMemory, PTL DEF ComponentsSpec, MemSpec

LEMMA FileRuns == ComponentsSpec => FileSpec
<1>1. ComponentsInit => FileInit
  BY DEF ComponentsInit
<1>2. QED
  BY <1>1, OthersLeaveFile, PTL DEF ComponentsSpec, FileSpec

LEMMA LineRuns == ComponentsSpec => LineSpec
<1>1. ComponentsInit => LineInit
  BY DEF ComponentsInit
<1>2. QED
  BY <1>1, OthersLeaveLine, PTL DEF ComponentsSpec, LineSpec

LEMMA DashboardRuns == ComponentsSpec => DashSpec
<1>1. ComponentsInit => DashInit
  BY DEF ComponentsInit
<1>2. QED
  BY <1>1, OthersLeaveDashboard, PTL DEF ComponentsSpec, DashSpec

LEMMA TranscriptRuns == ComponentsSpec => TextSpec
<1>1. ComponentsInit => TextInit
  BY DEF ComponentsInit
<1>2. QED
  BY <1>1, OthersLeaveTranscript, PTL DEF ComponentsSpec, TextSpec

LEMMA StreamRuns == ComponentsSpec => StreamSpec
<1>1. ComponentsInit => StreamInit
  BY DEF ComponentsInit
<1>2. QED
  BY <1>1, OthersLeaveStream, PTL DEF ComponentsSpec, StreamSpec

LEMMA RequestRuns == ComponentsSpec => RequestSpec
<1>1. ComponentsInit => RequestInit
  BY DEF ComponentsInit
<1>2. QED
  BY <1>1, OthersLeaveRequest, PTL DEF ComponentsSpec, RequestSpec

\* The limit of background sub-agents is passed by racing spawners only, and never by
\* more than the others of them.
THEOREM BackgroundLimitHolds == ComponentsSpec => []BackgroundLimit
<1>1. LimitUpToRace => BackgroundLimit
  BY DEF BackgroundLimit
<1>2. QED
  BY <1>1, BackgroundRuns, LimitHoldsUpToRace, PTL

\* A background task that has written everything down tells how it ended.
THEOREM BackgroundStatusHolds == ComponentsSpec => []BackgroundStatus
<1>1. StatusMatchesOutcome => BackgroundStatus
  BY DEF BackgroundStatus
<1>2. QED
  BY <1>1, BackgroundRuns, StatusTellsOutcome, PTL

\* The slots of a team's members are conserved until a heartbeat overwrites them.
THEOREM TeamKeepsSlotsHolds == ComponentsSpec => []TeamKeepsSlots
<1>1. SlotsAreConserved => TeamKeepsSlots
  BY DEF TeamKeepsSlots
<1>2. QED
  BY <1>1, TeamRuns, SlotsConserved, PTL

\* A verdict at the server is not replaced by a cancel that comes too late.
THEOREM VerdictsStand == ComponentsSpec => VerdictsNotCancelled
  BY TeamRuns, VerdictsStandAgainstCancel, PTL

\* A tool that has run was one its agent's permissions, or the user, let run.
THEOREM GateHoldsAlways == ComponentsSpec => []GateHolds
<1>1. RunsOnlyAsPermitted => GateHolds
  BY DEF GateHolds
<1>2. QED
  BY <1>1, GateRuns, ToolsRunAsPermitted, PTL

\* A caller of an MCP server gets the response to its own request, and the pipe is
\* out of step by no more than the stray lines it has had.
THEOREM McpOwnResponseHolds == ComponentsSpec => []McpOwnResponse
<1>1. OwnResponse /\ InStepUpToStrays => McpOwnResponse
  BY DEF McpOwnResponse
<1>2. QED
  BY <1>1, McpRuns, PipeStaysInStep, PTL

\* The input comes back after every turn, and a request for consent is on the screen or
\* waiting for it exactly as long as its tool call waits.
THEOREM TuiComesBackHolds == ComponentsSpec => []TuiComesBack
<1>1. InputComesBack /\ RequestsAreAsked => TuiComesBack
  BY DEF TuiComesBack
<1>2. QED
  BY <1>1, TuiRuns, InputAndPromptsKept, PTL

\* The user answers no request for consent but the one that is on the screen.
THEOREM AnsweredAsSeen == ComponentsSpec => PromptSeenBeforeAnswer
  BY TuiRuns, AnsweredWhenSeen, PTL

\* However many consolidations run at once, and wherever they are killed, what the user
\* has added is in an entry.
THEOREM MemoryKeptHolds == ComponentsSpec => []MemoryKept
<1>1. NothingLost => MemoryKept
  BY DEF MemoryKept
<1>2. QED
  BY <1>1, MemoryRuns, MemoryIsWhole, PTL

\* A recall that succeeds has all that was asked of it and is still there.
THEOREM MemoryRecalledHolds == ComponentsSpec => []MemoryRecalled
<1>1. RecallIsWhole => MemoryRecalled
  BY DEF MemoryRecalled
<1>2. QED
  BY <1>1, MemoryRuns, MemoryIsWhole, PTL

\* While no rewrite is between its two writes, the session file loads and has every message
\* but those appended beside a rewrite, unless a process has died, rewrites have left a
\* rest in the file or (for the loading) two turns appended at once; its messages are in
\* the order of the conversation.
THEOREM SessionFileHolds == ComponentsSpec => []SessionFileLoads
<1>1. LoadsUnlessCrashed /\ OrderKept /\ LostToRewriteOnly => SessionFileLoads
  BY DEF SessionFileLoads
<1>2. QED
  BY <1>1, FileRuns, SessionLoadsInOrder, PTL

\* The dashboard of omt shows of a task what the scheduler has last said of it, or will.
THEOREM DashboardTrueHolds == ComponentsSpec => []DashboardTrue
<1>1. ShownIsTrue => DashboardTrue
  BY DEF DashboardTrue
<1>2. QED
  BY <1>1, DashboardRuns, DashboardShowsTruth, PTL

\* The cursor of the input line is between two characters, and a turn that begins has its
\* line, less the one agent it names, who gets it.
THEOREM LineSubmittedHolds == ComponentsSpec => []LineSubmitted
<1>1. CursorOnBoundary /\ TurnGetsItsLine => LineSubmitted
  BY DEF LineSubmitted
<1>2. QED
  BY <1>1, LineRuns, CursorKeepsToCharacters, TurnsGetTheirLine, PTL

\* However the answer of a model is cut into chunks and wherever its stream ends, what is
\* assembled is a beginning of it, and all of it when the stream ended well (emit_chunk,
\* emit_event and the runtime's loop over the stream).
THEOREM StreamAssembledHolds == ComponentsSpec => []StreamAssembled
<1>1. AssembledInOrder /\ FinishedIsWhole => StreamAssembled
  BY DEF StreamAssembled
<1>2. QED
  BY <1>1, StreamRuns, StreamKeepsOrder, PTL

\* In the form of each of the APIs a request says what the conversation says, whatever turns
\* and crashes left in it; and where results follow their calls in the conversation they do so
\* in the request, each with its own.
THEOREM RequestsValidHolds == ComponentsSpec => []RequestsValid
<1>1. RequestsAreValid => RequestsValid
  BY DEF RequestsValid
<1>2. QED
  BY <1>1, RequestRuns, RequestsSayConversation, PTL

\* What the user copies from the transcript is what was highlighted, and has the character
\* that was pressed on at one of its ends.
THEOREM TranscriptCopiesHolds == ComponentsSpec => []TranscriptCopies
<1>1. CopiesTheSelection => TranscriptCopies
  BY DEF TranscriptCopies
<1>2. QED
  BY <1>1, TranscriptRuns, SelectionIsCopied, PTL

\* The types of the components whose theorems above do not say them already follow from
\* their inductive invariants.
LEMMA BackgroundTypes == ComponentsSpec => []BgTypeOK
<1>1. BgInv => BgTypeOK
  BY DEF BgInv
<1>2. QED
  BY <1>1, BackgroundRuns, BgInitInv, BgStepInv, PTL DEF BgSpec

LEMMA TeamTypes == ComponentsSpec => []TeamTypeOK
<1>1. TeamInv => TeamTypeOK
  BY DEF TeamInv
<1>2. QED
  BY <1>1, TeamRuns, TeamInitInv, TeamStepInv, PTL DEF TeamSpec

LEMMA LineTypes == ComponentsSpec => []LineTypeOK
<1>1. LineInv => LineTypeOK
  BY DEF LineInv, Asked, Offered, Triggers, OnBoundary, LineTypeOK
<1>2. QED
  BY <1>1, LineRuns, LineInvariant, PTL

LEMMA StreamTypes == ComponentsSpec => []StreamTypeOK
<1>1. StreamInv => StreamTypeOK
  BY DEF StreamInv, StreamShape, StreamTypeOK
<1>2. QED
  BY <1>1, StreamRuns, StreamInvariant, PTL

LEMMA RequestTypes == ComponentsSpec => []RequestTypeOK
<1>1. RequestInv => RequestTypeOK
  BY DEF RequestInv, Utterances, RequestTypeOK
<1>2. QED
  BY <1>1, RequestRuns, RequestInitial, RequestStep, PTL DEF RequestSpec

\* Every component's variables have their types, whatever the constants are: no member of
\* a team has more tasks than its capacity, the bus of the dashboard never holds more than it
\* was made for, the cursor of the input line is inside its text, and the window on the
\* transcript, once a frame is drawn, inside the rows of the text.
THEOREM ComponentsTypes == ComponentsSpec => []ComponentsTypeOK
<1>1. /\ TeamTypeOK /\ FileTypeOK /\ TuiTypeOK /\ BgTypeOK /\ GateTypeOK /\ McpTypeOK
      /\ StreamTypeOK /\ RequestTypeOK /\ LineTypeOK /\ DashTypeOK /\ MemTypeOK /\ TextTypeOK
      => ComponentsTypeOK
  BY DEF ComponentsTypeOK
<1>2. ComponentsSpec => [](BgTypeOK /\ TeamTypeOK /\ LineTypeOK /\ StreamTypeOK /\ RequestTypeOK)
  BY BackgroundTypes, TeamTypes, LineTypes, StreamTypes, RequestTypes, PTL
<1>3. ComponentsSpec => [](GateTypeOK /\ McpTypeOK /\ TuiTypeOK /\ MemTypeOK /\ FileTypeOK)
  BY GateRuns, McpRuns, TuiRuns, MemoryRuns, FileRuns, ToolsRunAsPermitted, PipeStaysInStep,
     InputAndPromptsKept, MemoryIsWhole, SessionLoadsInOrder, PTL
<1>4. ComponentsSpec => [](DashTypeOK /\ TextTypeOK)
  BY DashboardRuns, TranscriptRuns, DashboardTypes, SelectionIsCopied, PTL
<1>5. QED
  BY <1>1, <1>2, <1>3, <1>4, PTL
==============================================================================
