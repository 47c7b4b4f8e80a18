--------------------------- MODULE ToolName_proofs ---------------------------
(***************************************************************************)
(* Proofs that listed names lead back to what they name, and that what can *)
(* be called has such a name, for any characters and any names.            *)
(***************************************************************************)
EXTENDS ToolName, SequenceTheorems, WellFoundedInduction, TLAPS

\* A part of a name, character by character.
LEMMA PartOf ==
  ASSUME NEW s \in Seq(Char), NEW m \in 1 .. Len(s) + 1, NEW n \in m - 1 .. Len(s)
  PROVE  /\ SubSeq(s, m, n) \in Seq(Char)
         /\ Len(SubSeq(s, m, n)) = n - m + 1
         /\ \A i \in 1 .. n - m + 1 : SubSeq(s, m, n)[i] = s[m + i - 1]
  <1>1. Len(s) \in Nat /\ m \in Int /\ n \in Int
    BY LenProperties
  <1>2. \A i \in m .. n : s[i] \in Char
    BY <1>1, ElementOfSeq
  <1> QED BY <1>1, <1>2, SubSeqProperties

\* The characters of a listed name.
LEMMA Characters ==
  ASSUME NEW skill \in Seq(Char), NEW tool \in Seq(Char)
  PROVE  LET name == namespaced_tool(skill, tool)
         IN  /\ name \in Seq(Char)
             /\ Len(name) = Len(skill) + 2 + Len(tool)
             /\ \A i \in 1 .. Len(skill) : name[i] = skill[i]
             /\ name[Len(skill) + 1] = ":"
             /\ name[Len(skill) + 2] = ":"
             /\ \A i \in 1 .. Len(tool) : name[Len(skill) + 2 + i] = tool[i]
  <1> DEFINE sep == TOOL_NAMESPACE_SEP
  <1>1. sep \in Seq(Char) /\ Len(sep) = 2 /\ sep[1] = ":" /\ sep[2] = ":"
    BY ToolNameAssumption DEF TOOL_NAMESPACE_SEP
  <1> DEFINE head == skill \o sep
  <1> HIDE DEF sep
  <1>2. /\ head \in Seq(Char) /\ Len(head) = Len(skill) + 2
        /\ \A i \in 1 .. Len(skill) : head[i] = skill[i]
        /\ head[Len(skill) + 1] = ":" /\ head[Len(skill) + 2] = ":"
    <2>1. /\ head \in Seq(Char) /\ Len(head) = Len(skill) + Len(sep)
          /\ \A i \in 1 .. Len(skill) + Len(sep) :
               head[i] = IF i <= Len(skill) THEN skill[i] ELSE sep[i - Len(skill)]
      BY <1>1, ConcatProperties
    <2> HIDE DEF head
    <2>2. Len(skill) \in Nat
      OBVIOUS
    <2>3. \A i \in 1 .. Len(skill) : head[i] = skill[i]
      BY <1>1, <2>1, <2>2
    <2>4. head[Len(skill) + 1] = sep[Len(skill) + 1 - Len(skill)]
      BY <1>1, <2>1, <2>2
    <2>5. head[Len(skill) + 2] = sep[Len(skill) + 2 - Len(skill)]
      BY <1>1, <2>1, <2>2
    <2>6. Len(skill) + 1 - Len(skill) = 1 /\ Len(skill) + 2 - Len(skill) = 2
      BY <2>2
    <2> QED BY <1>1, <2>1, <2>3, <2>4, <2>5, <2>6
  <1>3. namespaced_tool(skill, tool) = head \o tool
    BY DEF namespaced_tool, sep
  <1> HIDE DEF head
  <1> DEFINE name == head \o tool
  <1>4. /\ name \in Seq(Char) /\ Len(name) = Len(head) + Len(tool)
        /\ \A i \in 1 .. Len(head) + Len(tool) :
             name[i] = IF i <= Len(head) THEN head[i] ELSE tool[i - Len(head)]
    BY <1>2, ConcatProperties
  <1>7. name = namespaced_tool(skill, tool)
    BY <1>3
  <1> HIDE DEF name
  <1>8. /\ \A i \in 1 .. Len(skill) : name[i] = skill[i]
        /\ name[Len(skill) + 1] = ":" /\ name[Len(skill) + 2] = ":"
    BY <1>2, <1>4
  <1>9. ASSUME NEW i \in 1 .. Len(tool) PROVE name[Len(skill) + 2 + i] = tool[i]
    <2>1. Len(skill) \in Nat /\ Len(tool) \in Nat
      OBVIOUS
    <2> DEFINE k == Len(head) + i
    <2>2. k \in 1 .. Len(head) + Len(tool) /\ ~(k <= Len(head)) /\ k - Len(head) = i
      BY <1>2, <2>1
    <2>3. name[k] = tool[k - Len(head)]
      BY <1>4, <2>2
    <2> QED BY <1>2, <2>2, <2>3
  <1> QED BY <1>2, <1>4, <1>7, <1>8, <1>9

\* The first separator of a listed name is the one that was put there.
LEMMA SeparatorIsFirst ==
  ASSUME NEW skill \in Seq(Char), NEW tool \in Seq(Char), Clean(skill)
  PROVE  /\ Separators(namespaced_tool(skill, tool)) # {}
         /\ FirstSeparator(namespaced_tool(skill, tool)) = Len(skill) + 1
  <1> DEFINE name == namespaced_tool(skill, tool)
             at == Len(skill) + 1
  <1>1. /\ name \in Seq(Char)
        /\ Len(name) = Len(skill) + 2 + Len(tool)
        /\ \A i \in 1 .. Len(skill) : name[i] = skill[i]
        /\ name[at] = ":" /\ name[at + 1] = ":"
    BY Characters
  <1>2. Len(skill) \in Nat \ {0} /\ Len(tool) \in Nat /\ skill[Len(skill)] # ":"
    BY DEF Clean
  <1> HIDE DEF name
  <1>3. at \in Separators(name)
    BY <1>1, <1>2 DEF Separators
  <1>4. ASSUME NEW j \in Separators(name) PROVE at <= j
    <2>1. j \in 1 .. Len(name) - 1 /\ name[j] = ":" /\ name[j + 1] = ":"
      BY DEF Separators
    <2>2. CASE j < Len(skill)
      <3>1. skill[j] = ":" /\ skill[j + 1] = ":" /\ j \in 1 .. Len(skill) - 1
        BY <1>1, <1>2, <2>1, <2>2
      <3> QED BY <3>1 DEF Clean, Separators
    <2>3. CASE j = Len(skill)
      BY <1>1, <1>2, <2>1, <2>3
    <2> QED BY <1>1, <1>2, <2>1, <2>2, <2>3
  <1>5. Separators(name) \subseteq Int
    BY DEF Separators
  <1>6. FirstSeparator(name) = at
    <2> DEFINE Least(i) == \A j \in Separators(name) : i <= j
    <2>1. Least(at)
      BY <1>4
    <2>2. \A i \in Separators(name) : Least(i) => i = at
      BY <1>3, <1>4, <1>5
    <2> QED BY <1>3, <2>1, <2>2 DEF FirstSeparator
  <1> QED BY <1>3, <1>6 DEF name

\* What is listed can be called: the name of a tool of a skill with a clean name
\* is parsed into the skill and the tool that it was made of (namespaced_tool and
\* parse_namespaced_tool).
THEOREM ListedCanBeCalled ==
  ASSUME NEW skill \in Seq(Char), NEW tool \in Seq(Char), Clean(skill), tool # <<>>
  PROVE  parse_namespaced_tool(namespaced_tool(skill, tool)) = <<skill, tool>>
  <1> DEFINE name == namespaced_tool(skill, tool)
             at == Len(skill) + 1
             front == SubSeq(name, 1, at - 1)
             back == SubSeq(name, at + 2, Len(name))
  <1>1. /\ name \in Seq(Char)
        /\ Len(name) = Len(skill) + 2 + Len(tool)
        /\ \A i \in 1 .. Len(skill) : name[i] = skill[i]
        /\ \A i \in 1 .. Len(tool) : name[Len(skill) + 2 + i] = tool[i]
    BY Characters
  <1>2. Separators(name) # {} /\ FirstSeparator(name) = at
    BY SeparatorIsFirst
  <1> HIDE DEF name
  <1>0. Len(skill) \in Nat /\ Len(tool) \in Nat
    OBVIOUS
  <1>3. front = skill
    <2>1. 1 \in 1 .. Len(name) + 1 /\ at - 1 \in 1 - 1 .. Len(name)
      BY <1>0, <1>1
    <2>2. /\ front \in Seq(Char) /\ Len(front) = (at - 1) - 1 + 1
          /\ \A i \in 1 .. (at - 1) - 1 + 1 : front[i] = name[1 + i - 1]
      BY <1>1, <2>1, PartOf
    <2> HIDE DEF front
    <2>3. ASSUME NEW i \in 1 .. Len(skill) PROVE front[i] = skill[i]
      <3>1. i \in 1 .. (at - 1) - 1 + 1 /\ 1 + i - 1 = i
        BY <1>0
      <3> QED BY <1>1, <2>2, <3>1
    <2>4. Len(front) = Len(skill)
      BY <1>0, <2>2
    <2> QED BY <2>2, <2>3, <2>4, SeqEqual
  <1>4. back = tool
    <2>1. at + 2 \in 1 .. Len(name) + 1 /\ Len(name) \in (at + 2) - 1 .. Len(name)
      BY <1>0, <1>1
    <2>2. /\ back \in Seq(Char) /\ Len(back) = Len(name) - (at + 2) + 1
          /\ \A i \in 1 .. Len(name) - (at + 2) + 1 : back[i] = name[(at + 2) + i - 1]
      BY <1>1, <2>1, PartOf
    <2> HIDE DEF back
    <2>3. ASSUME NEW i \in 1 .. Len(tool) PROVE back[i] = tool[i]
      <3>1. /\ i \in 1 .. Len(name) - (at + 2) + 1
            /\ (at + 2) + i - 1 = Len(skill) + 2 + i
        BY <1>0, <1>1
      <3>2. back[i] = name[(at + 2) + i - 1]
        BY <2>2, <3>1
      <3>3. name[Len(skill) + 2 + i] = tool[i]
        BY <1>1
      <3> QED BY <3>1, <3>2, <3>3
    <2>4. Len(back) = Len(tool)
      BY <1>0, <1>1, <2>2
    <2> QED BY <2>2, <2>3, <2>4, SeqEqual
  <1>5. skill # <<>>
    BY DEF Clean
  <1> HIDE DEF front, back
  <1>6. parse_namespaced_tool(name) =
          IF front = <<>> \/ back = <<>> THEN InvalidToolName ELSE <<front, back>>
    BY <1>2 DEF parse_namespaced_tool, front, back
  <1> QED BY <1>3, <1>4, <1>5, <1>6 DEF name

\* A set of numbers that is not empty has a least one.
LEMMA LeastNumber ==
  ASSUME NEW T \in SUBSET Nat, T # {}
  PROVE  \E x \in T : \A y \in T : x <= y
  <1> DEFINE R == OpToRel(<, Nat)
  <1>1. IsWellFoundedOn(R, Nat)
    BY NatLessThanWellFounded, Zenon
  <1>2. \A x, y \in Nat : x < y => <<x, y>> \in R
    BY DEF OpToRel
  <1> HIDE DEF R
  <1>3. PICK x \in T : \A y \in T : ~(<<y, x>> \in R)
    BY <1>1, WFMin
  <1>4. ASSUME NEW y \in T PROVE x <= y
    <2>1. x \in Nat /\ y \in Nat /\ ~(y < x)
      BY <1>2, <1>3
    <2> QED BY <2>1
  <1> QED BY <1>4

\* What is called is listed, if anything is: a name that is parsed into a skill and a
\* tool is the one they are listed under, and of that skill's name no part is taken for
\* the separator. With the theorem before, parsing and naming are inverse to each other.
THEOREM CalledIsListed ==
  ASSUME NEW name \in Seq(Char), parse_namespaced_tool(name) # InvalidToolName
  PROVE  \E skill, tool \in Seq(Char) :
           /\ parse_namespaced_tool(name) = <<skill, tool>>
           /\ Clean(skill) /\ tool # <<>>
           /\ namespaced_tool(skill, tool) = name
  <1> DEFINE i == FirstSeparator(name)
             front == SubSeq(name, 1, i - 1)
             back == SubSeq(name, i + 2, Len(name))
  <1>1. /\ Separators(name) # {} /\ front # <<>> /\ back # <<>>
        /\ parse_namespaced_tool(name) = <<front, back>>
    BY DEF parse_namespaced_tool
  <1>2. i \in Separators(name) /\ \A j \in Separators(name) : i <= j
    <2>1. Separators(name) \subseteq Nat
      BY DEF Separators
    <2> QED BY <1>1, <2>1, LeastNumber DEF FirstSeparator
  <1> HIDE DEF i
  <1>3. /\ i \in 1 .. Len(name) - 1 /\ name[i] = ":" /\ name[i + 1] = ":"
        /\ Len(name) \in Nat
    BY <1>2 DEF Separators
  <1>4. /\ front \in Seq(Char) /\ Len(front) = i - 1
        /\ \A k \in 1 .. i - 1 : front[k] = name[k]
    <2>1. 1 \in 1 .. Len(name) + 1 /\ i - 1 \in 1 - 1 .. Len(name)
      BY <1>3
    <2>2. /\ front \in Seq(Char) /\ Len(front) = (i - 1) - 1 + 1
          /\ \A k \in 1 .. (i - 1) - 1 + 1 : front[k] = name[1 + k - 1]
      BY <2>1, PartOf
    <2> HIDE DEF front
    <2> QED BY <1>3, <2>2
  <1>5. /\ back \in Seq(Char) /\ Len(back) = (Len(name) - i) - 1
        /\ \A k \in 1 .. (Len(name) - i) - 1 : back[k] = name[(i + 1) + k]
    <2>1. i + 2 \in 1 .. Len(name) + 1 /\ Len(name) \in (i + 2) - 1 .. Len(name)
      BY <1>3
    <2>2. /\ back \in Seq(Char) /\ Len(back) = Len(name) - (i + 2) + 1
          /\ \A k \in 1 .. Len(name) - (i + 2) + 1 : back[k] = name[(i + 2) + k - 1]
      BY <2>1, PartOf
    <2> HIDE DEF back
    <2> QED BY <1>3, <2>2
  <1> HIDE DEF front, back
  <1>6. ASSUME NEW j \in 1 .. i - 1 PROVE ~(name[j] = ":" /\ name[j + 1] = ":")
    <2>1. j \in 1 .. Len(name) - 1 /\ ~(i <= j)
      BY <1>3
    <2> QED BY <1>2, <2>1 DEF Separators
  <1>7. Clean(front)
    <2>1. i - 1 \in 1 .. i - 1 /\ (i - 1) + 1 = i
      BY <1>1, <1>3, <1>4
    <2>2. front[Len(front)] # ":"
      BY <1>3, <1>4, <1>6, <2>1
    <2>3. ASSUME NEW j \in Separators(front) PROVE FALSE
      <3>1. j \in 1 .. Len(front) - 1 /\ front[j] = ":" /\ front[j + 1] = ":"
        BY DEF Separators
      <3>2. j \in 1 .. i - 1 /\ j + 1 \in 1 .. i - 1
        BY <1>3, <1>4, <3>1
      <3> QED BY <1>4, <1>6, <3>1, <3>2
    <2> QED BY <1>1, <2>2, <2>3 DEF Clean
  <1>8. namespaced_tool(front, back) = name
    <2> DEFINE whole == namespaced_tool(front, back)
    <2>1. /\ whole \in Seq(Char) /\ Len(whole) = Len(front) + 2 + Len(back)
          /\ \A k \in 1 .. Len(front) : whole[k] = front[k]
          /\ whole[Len(front) + 1] = ":" /\ whole[Len(front) + 2] = ":"
          /\ \A k \in 1 .. Len(back) : whole[Len(front) + 2 + k] = back[k]
      BY <1>4, <1>5, Characters
    <2> HIDE DEF whole
    <2>2. Len(whole) = Len(name)
      BY <1>3, <1>4, <1>5, <2>1
    <2>3. ASSUME NEW k \in 1 .. Len(name) PROVE whole[k] = name[k]
      <3>1. CASE k \in 1 .. i - 1
        BY <1>4, <2>1, <3>1
      <3>2. CASE k \in {i, i + 1}
        BY <1>3, <1>4, <2>1, <3>2
      <3>3. CASE k \in i + 2 .. Len(name)
        <4> DEFINE m == (k - i) - 1
        <4>1. /\ m \in 1 .. (Len(name) - i) - 1 /\ Len(front) + 2 + m = k
              /\ (i + 1) + m = k
          BY <1>3, <1>4, <3>3
        <4> HIDE DEF m
        <4>2. whole[Len(front) + 2 + m] = back[m] /\ back[m] = name[(i + 1) + m]
          BY <1>5, <2>1, <4>1
        <4> QED BY <4>1, <4>2
      <3> QED BY <1>3, <3>1, <3>2, <3>3
    <2>4. whole = name
      BY <2>1, <2>2, <2>3, SeqEqual
    <2> QED BY <2>4 DEF whole
  <1> QED BY <1>1, <1>4, <1>5, <1>7, <1>8
=============================================================================
