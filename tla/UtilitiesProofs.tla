--------------------------- MODULE UtilitiesProofs ---------------------------
(***************************************************************************)
(* parseAuthority reads every text as the grammar of an authority does,    *)
(* whatever its length, and reads back what formatProxyUrl writes; how a   *)
(* failure is described and how it is retried agree, whatever ssh wrote    *)
(* before it ended.                                                        *)
(***************************************************************************)
EXTENDS Utilities, SequenceTheorems, FiniteSetTheorems, TLAPS

-----------------------------------------------------------------------------
(* Positions *)

\* Induction for a set of numbers: if some x were missing, adding one would map
\* the numbers up to x that are not into those that are not 0, too few.
LEMMA SetInduction ==
    ASSUME NEW S, 0 \in S, \A n \in Nat : n \in S => n + 1 \in S
    PROVE  Nat \subseteq S
  <1>. SUFFICES ASSUME NEW x \in Nat, x \notin S PROVE FALSE
    OBVIOUS
  <1>. DEFINE A == {y \in 0..x : y \in S}
  <1>. DEFINE B == A \ {0}
  <1>. DEFINE next == [y \in A |-> y + 1]
  <1>1. A \in SUBSET (0..x) /\ 0 \in A
    OBVIOUS
  <1>2. IsFiniteSet(0..x)
    BY FS_Interval
  <1>3. next \in [A -> B]
    OBVIOUS
  <1>4. \A y, z \in A : next[y] = next[z] => y = z
    OBVIOUS
  <1>. HIDE DEF next, A
  <1>5. IsFiniteSet(A)
    BY <1>1, <1>2, FS_Subset
  <1>6. IsFiniteSet(B) /\ Cardinality(B) = Cardinality(A) - 1
    BY <1>1, <1>5, FS_RemoveElement
  <1>7. Cardinality(A) \in Nat /\ Cardinality(B) < Cardinality(A)
    BY <1>5, <1>6, FS_CardinalityType
  <1>. HIDE DEF B
  <1>8. \E y, z \in A : y # z /\ next[y] = next[z]
    BY <1>5, <1>6, <1>3, <1>7, FS_PigeonHole
  <1>. QED BY <1>4, <1>8

LEMMA Smallest ==
    ASSUME NEW I \in SUBSET Nat, I # {}
    PROVE  \E i \in I : \A j \in I : i <= j
  <1>. SUFFICES ASSUME \A i \in I : \E j \in I : j < i PROVE FALSE
    OBVIOUS
  <1>. DEFINE S == {n \in Nat : \A i \in I : i > n}
  <1>1. 0 \in S
    <2>1. \A i \in I : i # 0
      OBVIOUS
    <2>. QED  BY <2>1
  <1>2. ASSUME NEW n \in Nat, n \in S PROVE n + 1 \in S
    <2>1. \A i \in I : i # n + 1
      BY <1>2
    <2>. QED  BY <1>2, <2>1
  <1>. HIDE DEF S
  <1>3. Nat \subseteq S
    BY <1>1, <1>2, SetInduction
  <1>4. PICK i \in I : TRUE
    OBVIOUS
  <1>5. i \in S
    BY <1>3
  <1>. QED  BY <1>5 DEF S

LEMMA Largest ==
    ASSUME NEW n \in Nat, NEW I \in SUBSET (0..n), I # {}
    PROVE  \E i \in I : \A j \in I : i >= j
  <1>. DEFINE J == {n - i : i \in I}
  <1>1. \A i \in I : i \in 0..n
    OBVIOUS
  <1>2. J \in SUBSET Nat /\ J # {}
    <2>1. \A i \in I : n - i \in Nat
      BY <1>1
    <2>2. PICK i \in I : TRUE
      OBVIOUS
    <2>. QED  BY <2>1, <2>2
  <1>3. PICK k \in J : \A j \in J : k <= j
    <2>. HIDE DEF J
    <2>. QED  BY <1>2, Smallest
  <1>4. PICK i \in I : k = n - i
    OBVIOUS
  <1>5. \A j \in I : n - i <= n - j
    BY <1>3, <1>4
  <1>. QED  BY <1>1, <1>5

\* indexOf gives the first place of a piece, or 0 if there is none.
LEMMA IndexIsFirst ==
    ASSUME NEW S, NEW text \in Seq(S), NEW piece
    PROVE  LET i == IndexOf(text, piece)
           IN  /\ i = 0 => \A j \in 1..Len(text) : text[j] # piece
               /\ i # 0 => i \in 1..Len(text) /\ text[i] = piece
                           /\ \A j \in 1..Len(text) : text[j] = piece => i <= j
  <1>. DEFINE I == {i \in 1..Len(text) : text[i] = piece}
  <1>1. I \in SUBSET Nat
    OBVIOUS
  <1>2. IndexOf(text, piece) = IF I # {} THEN Min(I) ELSE 0
    BY Zenon DEF IndexOf, SelectInSeq
  <1>3. I # {} => Min(I) \in I /\ \A j \in I : Min(I) <= j
    <2>1. I # {} => \E i \in I : \A j \in I : i <= j
      BY <1>1, Smallest
    <2>. HIDE DEF I
    <2>. QED  BY <2>1 DEF Min
  <1>. QED  BY <1>2, <1>3

\* lastIndexOf gives the last place.
LEMMA IndexIsLast ==
    ASSUME NEW S, NEW text \in Seq(S), NEW piece
    PROVE  LET i == LastIndexOf(text, piece)
           IN  /\ i = 0 => \A j \in 1..Len(text) : text[j] # piece
               /\ i # 0 => i \in 1..Len(text) /\ text[i] = piece
                           /\ \A j \in 1..Len(text) : text[j] = piece => i >= j
  <1>. DEFINE I == {i \in 1..Len(text) : text[i] = piece}
  <1>1. Len(text) \in Nat /\ I \in SUBSET (0..Len(text))
    BY LenProperties
  <1>2. LastIndexOf(text, piece) = IF I # {} THEN Max(I) ELSE 0
    BY Zenon DEF LastIndexOf, SelectLastInSeq
  <1>3. I # {} => Max(I) \in I /\ \A j \in I : Max(I) >= j
    <2>1. I # {} => \E i \in I : \A j \in I : i >= j
      BY <1>1, Largest
    <2>. HIDE DEF I
    <2>. QED  BY <2>1 DEF Max
  <1>. QED  BY <1>2, <1>3

-----------------------------------------------------------------------------
(* Parts of a text *)

Texts == Seq(Pieces)

\* What a part of a text has at its places
LEMMA PartOf ==
    ASSUME NEW text \in Texts, NEW a \in Nat, NEW b \in Int, a >= 1, b <= Len(text)
    PROVE  LET part == SubSeq(text, a, b)
           IN  /\ part \in Texts /\ Len(part) = IF a <= b THEN b - a + 1 ELSE 0
               /\ \A i \in 1..b - a + 1 : part[i] = text[a + i - 1]
  <1>1. Len(text) \in Nat
    BY LenProperties DEF Texts
  <1>2. \A i \in a..b : text[i] \in Pieces
    <2>. SUFFICES ASSUME NEW i \in a..b PROVE text[i] \in Pieces
      OBVIOUS
    <2>1. i \in 1..Len(text)
      BY <1>1
    <2>. QED  BY <2>1, ElementOfSeq DEF Texts
  <1>3. a \in Int
    OBVIOUS
  <1>. QED  BY <1>2, <1>3, SubSeqProperties DEF Texts

LEMMA PartOfPart ==
    ASSUME NEW text \in Texts, NEW a \in Nat, NEW b \in Int, a >= 1, b <= Len(text), a <= b + 1,
           NEW c \in Nat, NEW d \in Int, c >= 1, d <= b - a + 1
    PROVE  SubSeq(SubSeq(text, a, b), c, d) = SubSeq(text, a + c - 1, a + d - 1)
  <1>. DEFINE part == SubSeq(text, a, b)
              inner == SubSeq(part, c, d)
              direct == SubSeq(text, a + c - 1, a + d - 1)
  <1>1. /\ part \in Texts /\ Len(part) = b - a + 1
        /\ \A i \in 1..b - a + 1 : part[i] = text[a + i - 1]
    <2>1. /\ part \in Texts /\ Len(part) = (IF a <= b THEN b - a + 1 ELSE 0)
          /\ \A i \in 1..b - a + 1 : part[i] = text[a + i - 1]
      BY PartOf
    <2>. QED  BY <2>1
  <1>. HIDE DEF part
  <1>2. /\ inner \in Texts /\ Len(inner) = IF c <= d THEN d - c + 1 ELSE 0
        /\ \A i \in 1..d - c + 1 : inner[i] = part[c + i - 1]
    BY <1>1, PartOf
  <1>. DEFINE first == a + c - 1
              last == a + d - 1
  <1>3. first \in Nat /\ last \in Int /\ first >= 1 /\ last <= Len(text)
    <2>1. Len(text) \in Nat
      BY LenProperties DEF Texts
    <2>. QED  BY <2>1
  <1>4. /\ direct \in Texts /\ Len(direct) = IF first <= last THEN last - first + 1 ELSE 0
        /\ \A i \in 1..last - first + 1 : direct[i] = text[first + i - 1]
    <2>. HIDE DEF first, last
    <2>1. direct = SubSeq(text, first, last)
      BY DEF first, last
    <2>. HIDE DEF direct
    <2>. QED  BY <1>3, <2>1, PartOf
  <1>. HIDE DEF inner, direct
  <1>5. Len(inner) = Len(direct)
    BY <1>2, <1>4
  <1>6. ASSUME NEW i \in 1..Len(inner) PROVE inner[i] = direct[i]
    <2>1. /\ i \in 1..d - c + 1 /\ i \in 1..last - first + 1 /\ c + i - 1 \in 1..b - a + 1
          /\ a + (c + i - 1) - 1 = first + i - 1
      BY <1>2
    <2>2. inner[i] = part[c + i - 1] /\ direct[i] = text[first + i - 1]
      BY <1>2, <1>4, <2>1
    <2>3. part[c + i - 1] = text[a + (c + i - 1) - 1]
      BY <1>1, <2>1
    <2>. QED  BY <2>1, <2>2, <2>3
  <1>7. inner = direct
    BY <1>2, <1>4, <1>5, <1>6, SeqEqual DEF Texts
  <1>. QED  BY <1>7 DEF inner, direct, part

\* A part has a piece if the text has it there.
LEMMA PieceOfPart ==
    ASSUME NEW text \in Texts, NEW a \in Nat, NEW b \in Int, a >= 1, b <= Len(text), NEW piece
    PROVE  piece \in ToSet(SubSeq(text, a, b)) <=> \E n \in a..b : text[n] = piece
  <1>. DEFINE part == SubSeq(text, a, b)
  <1>1. /\ part \in Texts /\ Len(part) = IF a <= b THEN b - a + 1 ELSE 0
        /\ \A i \in 1..b - a + 1 : part[i] = text[a + i - 1]
    BY PartOf
  <1>. HIDE DEF part
  <1>2. piece \in ToSet(part) <=> \E i \in 1..Len(part) : part[i] = piece
    <2>1. DOMAIN part = 1..Len(part)
      BY <1>1, LenProperties DEF Texts
    <2>. QED  BY <2>1 DEF ToSet
  <1>3. ASSUME NEW i \in 1..Len(part), part[i] = piece
        PROVE  \E n \in a..b : text[n] = piece
    <2>1. i \in 1..b - a + 1 /\ a + i - 1 \in a..b
      BY <1>1
    <2>. QED  BY <1>1, <1>3, <2>1
  <1>4. ASSUME NEW n \in a..b, text[n] = piece
        PROVE  \E i \in 1..Len(part) : part[i] = piece
    <2>. DEFINE i == n - a + 1
    <2>1. i \in 1..b - a + 1 /\ a + i - 1 = n /\ i \in 1..Len(part)
      BY <1>1
    <2>2. part[i] = text[a + i - 1]
      BY <1>1, <2>1
    <2>. QED  BY <1>4, <2>1, <2>2
  <1>. QED  BY <1>2, <1>3, <1>4 DEF part

-----------------------------------------------------------------------------
(* Divisions of a text *)

HasPlainHost(text, i, j) ==
    j > i /\ text[i + 1] # "[" /\ \A n \in i + 1..j : text[n] # ":"

HasBracketedHost(text, i, j) ==
    j > i + 2 /\ text[i + 1] = "[" /\ text[j] = "]" /\ IsIPv6(SubSeq(text, i + 2, j - 1))

\* A reading by the positions where the user information and the host end
IsDivision(text, i, j) ==
    /\ i \in 0..Len(text) /\ j \in i..Len(text)
    /\ i = 0 \/ text[i] = "@"
    /\ \A n \in i + 1..Len(text) : text[n] # "@"
    /\ HasPlainHost(text, i, j) \/ HasBracketedHost(text, i, j)
    /\ j = Len(text) \/ (text[j + 1] = ":" /\ IsPort(SubSeq(text, j + 2, Len(text))))

\* Two positions in order divide a text into three parts, and no others do.
LEMMA TextIsDivided ==
    ASSUME NEW text \in Texts, NEW i \in 0..Len(text), NEW j \in 0..Len(text)
    PROVE  LET host == SubSeq(text, i + 1, j)
               port == SubSeq(text, j + 1, Len(text))
           IN  /\ text = SubSeq(text, 1, i) \o host \o port <=> i <= j
               /\ i <= j => host \o port = SubSeq(text, i + 1, Len(text))
  <1>. DEFINE len == Len(text)
              user == SubSeq(text, 1, i)
              host == SubSeq(text, i + 1, j)
              port == SubSeq(text, j + 1, len)
  <1>1. len \in Nat /\ i \in Nat /\ j \in Nat /\ i <= len /\ j <= len
    BY LenProperties DEF Texts
  <1>2. text \in Seq(Pieces)
    BY DEF Texts
  <1>3. ASSUME i <= j PROVE host \o port = SubSeq(text, i + 1, len)
    <2>1. i + 1 \in 1..len + 1 /\ j \in (i + 1) - 1..len /\ len \in j..len
      BY <1>1, <1>3
    <2>. QED  BY <1>2, <2>1, ConcatAdjacentSubSeq
  <1>4. user \in Seq(Pieces) /\ host \in Seq(Pieces) /\ port \in Seq(Pieces)
    <2>1. /\ 1 \in Nat /\ i \in Int /\ 1 >= 1 /\ i <= len
          /\ i + 1 \in Nat /\ j \in Int /\ i + 1 >= 1 /\ j <= len
          /\ j + 1 \in Nat /\ len \in Int /\ j + 1 >= 1 /\ len <= len
      BY <1>1
    <2>2. user \in Texts
      BY <2>1, PartOf
    <2>3. host \in Texts
      BY <2>1, PartOf
    <2>4. port \in Texts
      <3>1. j + 1 \in Nat /\ len \in Int /\ j + 1 >= 1 /\ len <= len
        BY <2>1
      <3>. QED  BY <3>1, PartOf
    <2>. QED  BY <2>2, <2>3, <2>4 DEF Texts
  <1>5. ASSUME i <= j PROVE text = user \o host \o port
    <2>1. 1 \in 1..len + 1 /\ i \in 1 - 1..len /\ len \in i..len
      BY <1>1
    <2>2. user \o SubSeq(text, i + 1, len) = SubSeq(text, 1, len)
      BY <1>2, <2>1, ConcatAdjacentSubSeq
    <2>3. SubSeq(text, 1, len) = text
      BY <1>2, SubSeqFull
    <2>4. (user \o host) \o port = user \o (host \o port)
      <3>. HIDE DEF user, host, port
      <3>. QED  BY <1>4, ConcatAssociative
    <2>. QED  BY Zenon, <1>3, <1>5, <2>2, <2>3, <2>4
  <1>6. ASSUME text = user \o host \o port PROVE i <= j
    <2>. SUFFICES ASSUME j < i PROVE FALSE
      BY <1>1
    <2>1. Len(user) = i
      <3>1. Len(user) = IF 1 <= i THEN i - 1 + 1 ELSE 0
        BY <1>1, PartOf
      <3>. QED  BY <1>1, <3>1
    <2>2. Len(port) = len - j
      <3>1. j + 1 \in Nat /\ len \in Int /\ j + 1 >= 1 /\ len <= len
        BY <1>1
      <3>2. Len(port) = IF j + 1 <= len THEN len - (j + 1) + 1 ELSE 0
        BY <3>1, PartOf
      <3>. QED  BY <1>1, <3>2
    <2>3. host = <<>>
      BY <1>1, SubSeqEmpty
    <2>4. user \o host = user
      BY <1>4, <2>3, ConcatEmptySeq
    <2>5. Len(user \o port) = Len(user) + Len(port)
      BY <1>4, ConcatProperties
    <2>6. text = user \o port
      BY <1>6, <2>4
    <2>. HIDE DEF user, port, host
    <2>7. len = i + (len - j)
      BY <2>1, <2>2, <2>5, <2>6
    <2>. HIDE DEF len
    <2>. QED  BY <1>1, <2>7
  <1>. QED  BY <1>3, <1>5, <1>6

Division(text, i, j) ==
    <<SubSeq(text, 1, i), SubSeq(text, i + 1, j), From(text, j + 1)>>

\* What a division says
Answer(text, i, j) ==
    [host |-> IF text[i + 1] # "[" THEN SubSeq(text, i + 1, j) ELSE SubSeq(text, i + 2, j - 1),
     port |-> IF j = Len(text) THEN DefaultPort ELSE SubSeq(text, j + 2, Len(text))]

\* The part for the port, from the position where the host ends
LEMMA SuffixIsPort ==
    ASSUME NEW text \in Texts, NEW j \in 0..Len(text)
    PROVE  LET port == SubSeq(text, j + 1, Len(text))
           IN  /\ port = <<>> <=> j = Len(text)
               /\ j < Len(text) => port[1] = text[j + 1]
                                   /\ Tail(port) = SubSeq(text, j + 2, Len(text))
                                   /\ From(port, 2) = SubSeq(text, j + 2, Len(text))
  <1>. DEFINE len == Len(text)
              port == SubSeq(text, j + 1, len)
  <1>1. len \in Nat /\ j \in Nat /\ j <= len
    BY LenProperties DEF Texts
  <1>2. /\ port \in Texts /\ Len(port) = IF j + 1 <= len THEN len - (j + 1) + 1 ELSE 0
        /\ \A i \in 1..len - (j + 1) + 1 : port[i] = text[(j + 1) + i - 1]
    <2>1. j + 1 \in Nat /\ len \in Int /\ j + 1 >= 1 /\ len <= len
      BY <1>1
    <2>. QED  BY <2>1, PartOf
  <1>3. Len(port) = len - j
    <2>. HIDE DEF port, len
    <2>. QED  BY <1>1, <1>2
  <1>4. port = <<>> <=> j = len
    <2>1. port = <<>> <=> Len(port) = 0
      BY <1>2, EmptySeq DEF Texts
    <2>. HIDE DEF port, len
    <2>. QED  BY <1>1, <1>3, <2>1
  <1>5. ASSUME j < len
        PROVE  /\ port[1] = text[j + 1]
               /\ Tail(port) = SubSeq(text, j + 2, len) /\ From(port, 2) = SubSeq(text, j + 2, len)
    <2>1. port[1] = text[j + 1]
      <3>1. 1 \in 1..len - (j + 1) + 1 /\ (j + 1) + 1 - 1 = j + 1
        BY <1>1, <1>5
      <3>. QED  BY <1>2, <3>1
    <2>2. From(port, 2) = SubSeq(text, j + 2, len)
      <3>1. /\ j + 1 \in Nat /\ len \in Int /\ j + 1 >= 1 /\ len <= len /\ j + 1 <= len + 1
            /\ 2 \in Nat /\ len - j \in Int /\ 2 >= 1 /\ len - j <= len - (j + 1) + 1
        BY <1>1
      <3>2. SubSeq(SubSeq(text, j + 1, len), 2, len - j) =
                SubSeq(text, (j + 1) + 2 - 1, (j + 1) + (len - j) - 1)
        BY <3>1, PartOfPart
      <3>3. (j + 1) + 2 - 1 = j + 2 /\ (j + 1) + (len - j) - 1 = len
        BY <1>1
      <3>4. From(port, 2) = SubSeq(port, 2, len - j)
        BY <1>3 DEF From
      <3>. QED  BY <3>2, <3>3, <3>4
    <2>3. Tail(port) = From(port, 2)
      <3>1. port \in Seq(Pieces) /\ port # <<>>
        BY <1>1, <1>2, <1>4, <1>5 DEF Texts
      <3>2. Tail(port) = SubSeq(port, 2, Len(port))
        BY <3>1, TailIsSubSeq
      <3>. QED  BY <3>2 DEF From
    <2>. QED  BY <2>1, <2>2, <2>3
  <1>. QED  BY <1>4, <1>5

\* The readings of the grammar are the divisions.
LEMMA DivisionIsReading ==
    ASSUME NEW text \in Texts, NEW i \in 0..Len(text), NEW j \in 0..Len(text)
    PROVE  LET reading == Division(text, i, j)
           IN  /\ IsReading(text, reading[1], reading[2], reading[3]) <=> IsDivision(text, i, j)
               /\ IsDivision(text, i, j) => Meaning(reading) = Answer(text, i, j)
  <1>. DEFINE len == Len(text)
              user == SubSeq(text, 1, i)
              host == SubSeq(text, i + 1, j)
              port == SubSeq(text, j + 1, len)
  <1>1. len \in Nat /\ i \in Nat /\ j \in Nat /\ i <= len /\ j <= len
    BY LenProperties DEF Texts
  <1>2. /\ text = user \o host \o port <=> i <= j
        /\ i <= j => host \o port = SubSeq(text, i + 1, len)
    BY TextIsDivided
  <1>3. IsUserInfo(user) <=> i = 0 \/ text[i] = "@"
    <2>1. /\ user \in Texts /\ Len(user) = IF 1 <= i THEN i - 1 + 1 ELSE 0
          /\ \A n \in 1..i - 1 + 1 : user[n] = text[1 + n - 1]
      BY <1>1, PartOf
    <2>2. Len(user) = i
      BY <1>1, <2>1
    <2>3. user = <<>> <=> i = 0
      BY <2>1, <2>2, EmptySeq DEF Texts
    <2>4. i # 0 => user[i] = text[i]
      <3>1. i # 0 => i \in 1..i - 1 + 1 /\ 1 + i - 1 = i
        BY <1>1
      <3>. QED  BY <2>1, <3>1
    <2>. HIDE DEF user
    <2>. QED  BY <2>2, <2>3, <2>4 DEF IsUserInfo
  <1>4. ASSUME i <= j
        PROVE  "@" \notin ToSet(host \o port) <=> \A n \in i + 1..len : text[n] # "@"
    <2>1. i + 1 \in Nat /\ len \in Int /\ i + 1 >= 1 /\ len <= len
      BY <1>1
    <2>2. "@" \in ToSet(SubSeq(text, i + 1, len)) <=> \E n \in i + 1..len : text[n] = "@"
      BY <2>1, PieceOfPart
    <2>3. host \o port = SubSeq(text, i + 1, len)
      BY <1>2, <1>4
    <2>. HIDE DEF host, port, len
    <2>. QED  BY <2>2, <2>3
  <1>5. IsPortSuffix(port) <=> j = len \/ (text[j + 1] = ":" /\ IsPort(SubSeq(text, j + 2, len)))
    <2>1. /\ port = <<>> <=> j = len
          /\ j < len => port[1] = text[j + 1] /\ Tail(port) = SubSeq(text, j + 2, len)
      BY SuffixIsPort
    <2>2. j = len \/ j < len
      BY <1>1
    <2>. HIDE DEF port, len
    <2>. QED  BY <2>1, <2>2 DEF IsPortSuffix
  <1>6. ASSUME i <= j
        PROVE  /\ IsPlainHost(host) <=> HasPlainHost(text, i, j)
               /\ IsBracketedHost(host) <=> HasBracketedHost(text, i, j)
               /\ j > i + 2 => Inside(host) = SubSeq(text, i + 2, j - 1)
    <2>1. i + 1 \in Nat /\ j \in Int /\ i + 1 >= 1 /\ j <= len
      BY <1>1
    <2>2. /\ host \in Texts /\ Len(host) = IF i + 1 <= j THEN j - (i + 1) + 1 ELSE 0
          /\ \A n \in 1..j - (i + 1) + 1 : host[n] = text[(i + 1) + n - 1]
      BY <2>1, PartOf
    <2>3. Len(host) = j - i
      <3>. HIDE DEF host, len
      <3>. QED  BY <1>1, <1>6, <2>2
    <2>4. j > i => host[1] = text[i + 1] /\ host[j - i] = text[j]
      <3>1. j > i => /\ 1 \in 1..j - (i + 1) + 1 /\ (i + 1) + 1 - 1 = i + 1
                     /\ j - i \in 1..j - (i + 1) + 1 /\ (i + 1) + (j - i) - 1 = j
        BY <1>1
      <3>. QED  BY <2>2, <3>1
    <2>5. ":" \in ToSet(host) <=> \E n \in i + 1..j : text[n] = ":"
      BY <2>1, PieceOfPart
    <2>6. ASSUME j > i + 2 PROVE Inside(host) = SubSeq(text, i + 2, j - 1)
      <3>1. /\ i + 1 \in Nat /\ j \in Int /\ i + 1 >= 1 /\ j <= len /\ i + 1 <= j + 1
            /\ 2 \in Nat /\ j - i - 1 \in Int /\ 2 >= 1 /\ j - i - 1 <= j - (i + 1) + 1
        BY <1>1, <2>6
      <3>2. SubSeq(SubSeq(text, i + 1, j), 2, j - i - 1) =
                SubSeq(text, (i + 1) + 2 - 1, (i + 1) + (j - i - 1) - 1)
        BY <3>1, PartOfPart
      <3>3. (i + 1) + 2 - 1 = i + 2 /\ (i + 1) + (j - i - 1) - 1 = j - 1
        BY <1>1
      <3>4. Inside(host) = SubSeq(host, 2, j - i - 1)
        BY <2>3 DEF Inside
      <3>. QED  BY <3>2, <3>3, <3>4
    <2>7. host # <<>> <=> j > i
      <3>1. host = <<>> <=> Len(host) = 0
        BY <2>2, EmptySeq DEF Texts
      <3>. HIDE DEF host, len
      <3>. QED  BY <1>1, <1>6, <2>3, <3>1
    <2>8. IsPlainHost(host) <=> HasPlainHost(text, i, j)
      <3>. HIDE DEF host, len
      <3>. QED  BY <2>4, <2>5, <2>7 DEF IsPlainHost, HasPlainHost
    <2>9. Len(host) > 2 <=> j > i + 2
      <3>. HIDE DEF host, len
      <3>. QED  BY <1>1, <2>3
    <2>10. j > i + 2 => j > i
      BY <1>1
    <2>11. IsBracketedHost(host) <=> HasBracketedHost(text, i, j)
      <3>. HIDE DEF host, len
      <3>. QED  BY <2>3, <2>4, <2>6, <2>9, <2>10 DEF IsBracketedHost, HasBracketedHost
    <2>. QED  BY <2>6, <2>8, <2>11
  <1>7. /\ Division(text, i, j) = <<user, host, port>>
        /\ <<user, host, port>>[1] = user /\ <<user, host, port>>[2] = host
        /\ <<user, host, port>>[3] = port
    BY DEF Division, From
  <1>8. i <= j <=> j \in i..len
    BY <1>1
  <1>9. IsReading(text, user, host, port) <=> IsDivision(text, i, j)
    <2>. HIDE DEF user, host, port
    <2>1. CASE i <= j
      BY <1>2, <1>3, <1>4, <1>5, <1>6, <1>8, <2>1 DEF IsReading, IsDivision
    <2>2. CASE ~(i <= j)
      BY <1>2, <1>8, <2>2 DEF IsReading, IsDivision
    <2>. QED  BY <2>1, <2>2
  <1>10. ASSUME IsDivision(text, i, j)
         PROVE  Meaning(<<user, host, port>>) =
                    [host |-> IF text[i + 1] # "[" THEN host ELSE SubSeq(text, i + 2, j - 1),
                     port |-> IF j = len THEN DefaultPort ELSE SubSeq(text, j + 2, len)]
    <2>1. i <= j /\ (HasPlainHost(text, i, j) \/ HasBracketedHost(text, i, j))
      BY <1>8, <1>10 DEF IsDivision
    <2>2. IsPlainHost(host) <=> text[i + 1] # "["
      BY <1>6, <2>1 DEF HasPlainHost, HasBracketedHost
    <2>3. text[i + 1] = "[" => Inside(host) = SubSeq(text, i + 2, j - 1)
      BY <1>6, <2>1 DEF HasPlainHost, HasBracketedHost
    <2>4. /\ port = <<>> <=> j = len
          /\ j < len => Tail(port) = SubSeq(text, j + 2, len)
      BY SuffixIsPort
    <2>5. j = len \/ j < len
      BY <1>1
    <2>. HIDE DEF user, host, port, len
    <2>. QED  BY <1>7, <2>2, <2>3, <2>4, <2>5 DEF Meaning
  <1>. QED  BY <1>7, <1>9, <1>10 DEF Answer

-----------------------------------------------------------------------------
(* parseAuthority *)

\* All that the proofs use of an IPv6 address: it cannot hold the mark that ends
\* it, and its brackets are not next to one another.
LEMMA AddressPieces ==
    ASSUME NEW text \in Texts, IsIPv6(text)
    PROVE  Len(text) >= 2 /\ "]" \notin ToSet(text)
  <1>. DEFINE colons == {i \in 1..Len(text) - 1 : text[i] = ":" /\ text[i + 1] = ":"}
  <1>1. Cardinality(colons) = 1 /\ ToSet(text) \subseteq {":", "0", "1"}
    BY DEF IsIPv6
  <1>2. colons # {}
    <2>. HIDE DEF colons
    <2>1. Cardinality({}) = 0
      BY FS_EmptySet
    <2>. QED  BY <1>1, <2>1
  <1>3. PICK i \in 1..Len(text) - 1 : TRUE
    BY <1>2
  <1>4. Len(text) \in Nat
    BY LenProperties DEF Texts
  <1>. QED  BY <1>1, <1>3, <1>4

LEMMA PiecesOfPort ==
    ASSUME NEW port, IsPort(port)
    PROVE  ToSet(port) \subseteq Digits \cup {"+", "blank"}
  <1>1. PICK first \in DOMAIN port, last \in DOMAIN port :
           /\ {n \in DOMAIN port : port[n] \in Digits} = first..last
           /\ \A n \in DOMAIN port \ (first..last) :
                 port[n] = "blank" \/ (port[n] = "+" /\ n = first - 1)
    BY DEF IsPort
  <1>2. \A n \in DOMAIN port : port[n] \in Digits \cup {"+", "blank"}
    BY <1>1
  <1>. QED  BY <1>2 DEF ToSet

\* A port has no colon, so the colon before it is the last one.
LEMMA PortPieces ==
    ASSUME NEW text \in Texts, NEW a \in Nat, NEW b \in Int, a >= 1, b <= Len(text),
           IsPort(SubSeq(text, a, b))
    PROVE  \A n \in a..b : text[n] # ":"
  <1>1. ":" \in ToSet(SubSeq(text, a, b)) <=> \E n \in a..b : text[n] = ":"
    BY PieceOfPart
  <1>2. ":" \notin ToSet(SubSeq(text, a, b))
    BY PiecesOfPort DEF Digits
  <1>. QED  BY <1>1, <1>2

\* The cut at a colon, in terms of positions of the whole text
LEMMA PortIsParsed ==
    ASSUME NEW text \in Texts, NEW j \in 0..Len(text), NEW host
    PROVE  PortAfter(host, SubSeq(text, j + 1, Len(text))) =
               IF host = <<>> THEN Failure
               ELSE IF j = Len(text) THEN [host |-> host, port |-> DefaultPort]
               ELSE IF text[j + 1] = ":" /\ IsPort(SubSeq(text, j + 2, Len(text)))
                    THEN [host |-> host, port |-> SubSeq(text, j + 2, Len(text))]
               ELSE Failure
  <1>. DEFINE len == Len(text)
              port == SubSeq(text, j + 1, len)
  <1>1. j = len \/ j < len
    <2>1. len \in Nat
      BY LenProperties DEF Texts
    <2>. QED  BY <2>1
  <1>2. /\ port = <<>> <=> j = len
        /\ j < len => port[1] = text[j + 1] /\ From(port, 2) = SubSeq(text, j + 2, len)
    BY SuffixIsPort
  <1>. HIDE DEF port, len
  <1>3. PortAfter(host, port) =
            IF host = <<>> THEN Failure
            ELSE IF j = len THEN [host |-> host, port |-> DefaultPort]
            ELSE IF text[j + 1] = ":" /\ IsPort(SubSeq(text, j + 2, len))
                 THEN [host |-> host, port |-> SubSeq(text, j + 2, len)]
            ELSE Failure
    <2>1. CASE j = len
      BY <1>2, <2>1 DEF PortAfter
    <2>2. CASE j # len
      <3>1. /\ port # <<>> /\ port[1] = text[j + 1] /\ From(port, 2) = SubSeq(text, j + 2, len)
        BY <1>1, <1>2, <2>2
      <3>. QED  BY <2>2, <3>1 DEF PortAfter
    <2>. QED  BY <2>1, <2>2
  <1>. QED  BY <1>3 DEF port, len

\* What follows the user information
LEMMA Rest ==
    ASSUME NEW text \in Texts, NEW i \in 0..Len(text)
    PROVE  LET rest == SubSeq(text, i + 1, Len(text))
           IN  /\ rest \in Texts /\ Len(rest) = Len(text) - i
               /\ \A n \in 1..Len(text) - i : rest[n] = text[i + n]
               /\ rest = <<>> <=> i = Len(text)
               /\ \A c \in Nat, d \in Int : c >= 1 /\ d <= Len(text) - i =>
                      SubSeq(rest, c, d) = SubSeq(text, i + c, i + d)
  <1>. DEFINE len == Len(text)
              rest == SubSeq(text, i + 1, len)
  <1>1. len \in Nat /\ i \in Nat /\ i <= len
    BY LenProperties DEF Texts
  <1>2. i + 1 \in Nat /\ len \in Int /\ i + 1 >= 1 /\ len <= len /\ i + 1 <= len + 1
    BY <1>1
  <1>3. /\ rest \in Texts /\ Len(rest) = IF i + 1 <= len THEN len - (i + 1) + 1 ELSE 0
        /\ \A n \in 1..len - (i + 1) + 1 : rest[n] = text[(i + 1) + n - 1]
    BY <1>2, PartOf
  <1>4. Len(rest) = len - i
    <2>. HIDE DEF rest, len
    <2>. QED  BY <1>1, <1>3
  <1>5. ASSUME NEW n \in 1..len - i PROVE rest[n] = text[i + n]
    <2>1. n \in 1..len - (i + 1) + 1 /\ (i + 1) + n - 1 = i + n
      BY <1>1
    <2>. QED  BY <1>3, <2>1
  <1>6. rest = <<>> <=> i = len
    BY SuffixIsPort
  <1>7. ASSUME NEW c \in Nat, NEW d \in Int, c >= 1, d <= len - i
        PROVE  SubSeq(rest, c, d) = SubSeq(text, i + c, i + d)
    <2>1. d <= len - (i + 1) + 1 /\ (i + 1) + c - 1 = i + c /\ (i + 1) + d - 1 = i + d
      BY <1>1, <1>7
    <2>2. SubSeq(SubSeq(text, i + 1, len), c, d) = SubSeq(text, (i + 1) + c - 1, (i + 1) + d - 1)
      BY <1>2, <1>7, <2>1, PartOfPart
    <2>. QED  BY <2>1, <2>2
  <1>. QED  BY <1>3, <1>4, <1>5, <1>6, <1>7

\* The cut at the last "@"
LEMMA ParsedAfterUser ==
    ASSUME NEW text \in Texts
    PROVE  LET i == LastIndexOf(text, "@")
               rest == SubSeq(text, i + 1, Len(text))
           IN  /\ i \in 0..Len(text) /\ (i = 0 \/ text[i] = "@")
               /\ \A n \in i + 1..Len(text) : text[n] # "@"
               /\ ParseAuthority(text) = IF i < Len(text) /\ text[i + 1] = "["
                                         THEN ParseBracketed(rest) ELSE ParsePlain(rest)
  <1>. DEFINE i == LastIndexOf(text, "@")
              len == Len(text)
              rest == SubSeq(text, i + 1, len)
  <1>1. text \in Seq(Pieces) /\ len \in Nat
    BY LenProperties DEF Texts
  <1>2. /\ i = 0 => \A j \in 1..len : text[j] # "@"
        /\ i # 0 => i \in 1..len /\ text[i] = "@" /\ \A j \in 1..len : text[j] = "@" => i >= j
    BY <1>1, IndexIsLast
  <1>3. ParseAuthority(text) = IF rest # <<>> /\ rest[1] = "["
                               THEN ParseBracketed(rest) ELSE ParsePlain(rest)
    BY Zenon DEF ParseAuthority, From
  <1>. HIDE DEF i, len
  <1>4. i \in 0..len /\ (i = 0 \/ text[i] = "@")
    BY <1>1, <1>2
  <1>5. \A n \in i + 1..len : text[n] # "@"
    <2>. SUFFICES ASSUME NEW n \in i + 1..len, text[n] = "@" PROVE FALSE
      OBVIOUS
    <2>1. n \in 1..len /\ n > i /\ i \in Int
      BY <1>1, <1>4
    <2>. QED  BY <1>2, <2>1
  <1>6. /\ rest = <<>> <=> i = len
        /\ \A n \in 1..len - i : rest[n] = text[i + n]
    BY <1>4, Rest DEF len
  <1>. HIDE DEF rest
  <1>7. rest # <<>> /\ rest[1] = "[" <=> i < len /\ text[i + 1] = "["
    <2>1. CASE i = len
      BY <1>1, <1>6, <2>1
    <2>2. CASE i # len
      <3>1. i < len /\ 1 \in 1..len - i
        BY <1>1, <1>4, <2>2
      <3>2. rest[1] = text[i + 1]
        BY <1>6, <3>1
      <3>. QED  BY <1>6, <2>2, <3>1, <3>2
    <2>. QED  BY <2>1, <2>2
  <1>. QED  BY <1>3, <1>4, <1>5, <1>7 DEF i, len, rest

\* The cut at the first bracket that closes
LEMMA BracketedIs ==
    ASSUME NEW text \in Texts, NEW i \in 0..Len(text)
    PROVE  LET rest == SubSeq(text, i + 1, Len(text))
               end == IndexOf(rest, "]")
               host == SubSeq(text, i + 2, i + end - 1)
           IN  /\ end = 0 => \A n \in 1..Len(text) - i : text[i + n] # "]"
               /\ end # 0 => /\ end \in 1..Len(text) - i /\ text[i + end] = "]"
                             /\ \A n \in 1..Len(text) - i : text[i + n] = "]" => end <= n
               /\ ParseBracketed(rest) =
                      IF end = 0 \/ ~IsIPv6(host) THEN Failure
                      ELSE PortAfter(host, SubSeq(text, i + end + 1, Len(text)))
  <1>. DEFINE len == Len(text)
              rest == SubSeq(text, i + 1, len)
              end == IndexOf(rest, "]")
              host == SubSeq(text, i + 2, i + end - 1)
  <1>1. len \in Nat /\ i \in Nat /\ i <= len
    BY LenProperties DEF Texts
  <1>2. /\ rest \in Texts /\ Len(rest) = len - i
        /\ \A n \in 1..len - i : rest[n] = text[i + n]
        /\ \A c \in Nat, d \in Int : c >= 1 /\ d <= len - i =>
               SubSeq(rest, c, d) = SubSeq(text, i + c, i + d)
    BY Rest
  <1>3. ParseBracketed(rest) = IF end = 0 \/ ~IsIPv6(SubSeq(rest, 2, end - 1)) THEN Failure
                               ELSE PortAfter(SubSeq(rest, 2, end - 1),
                                              SubSeq(rest, end + 1, Len(rest)))
    BY Zenon DEF ParseBracketed, From
  <1>. HIDE DEF rest
  <1>4. rest \in Seq(Pieces)
    BY <1>2 DEF Texts
  <1>5. /\ end = 0 => \A n \in 1..Len(rest) : rest[n] # "]"
        /\ end # 0 => /\ end \in 1..Len(rest) /\ rest[end] = "]"
                      /\ \A n \in 1..Len(rest) : rest[n] = "]" => end <= n
    BY <1>4, IndexIsFirst
  <1>. HIDE DEF end
  <1>6. /\ end = 0 => \A n \in 1..len - i : text[i + n] # "]"
        /\ end # 0 => /\ end \in 1..len - i /\ text[i + end] = "]"
                      /\ \A n \in 1..len - i : text[i + n] = "]" => end <= n
    BY <1>2, <1>5
  <1>7. ASSUME end # 0
        PROVE  /\ SubSeq(rest, 2, end - 1) = host
               /\ SubSeq(rest, end + 1, Len(rest)) = SubSeq(text, i + end + 1, len)
    <2>1. end \in Nat /\ end <= len - i
      BY <1>1, <1>6, <1>7
    <2>2. SubSeq(rest, 2, end - 1) = host
      <3>1. 2 \in Nat /\ end - 1 \in Int /\ 2 >= 1 /\ end - 1 <= len - i /\ i + (end - 1) = i + end - 1
        BY <1>1, <2>1
      <3>2. SubSeq(rest, 2, end - 1) = SubSeq(text, i + 2, i + (end - 1))
        BY <1>2, <3>1
      <3>. QED  BY <3>1, <3>2
    <2>3. SubSeq(rest, end + 1, Len(rest)) = SubSeq(text, i + end + 1, len)
      <3>1. /\ end + 1 \in Nat /\ len - i \in Int /\ end + 1 >= 1 /\ len - i <= len - i
            /\ i + (end + 1) = i + end + 1 /\ i + (len - i) = len
        BY <1>1, <2>1
      <3>2. SubSeq(rest, end + 1, len - i) = SubSeq(text, i + (end + 1), i + (len - i))
        BY <1>2, <3>1
      <3>. QED  BY <1>2, <3>1, <3>2
    <2>. QED  BY <2>2, <2>3
  <1>. HIDE DEF host
  <1>8. ParseBracketed(rest) = IF end = 0 \/ ~IsIPv6(host) THEN Failure
                               ELSE PortAfter(host, SubSeq(text, i + end + 1, len))
    <2>1. CASE end = 0
      BY <1>3, <2>1
    <2>2. CASE end # 0
      BY <1>3, <1>7, <2>2
    <2>. QED  BY <2>1, <2>2
  <1>. QED  BY <1>6, <1>8 DEF rest, end, host

\* The cut at the only colon
LEMMA PlainIs ==
    ASSUME NEW text \in Texts, NEW i \in 0..Len(text)
    PROVE  LET rest == SubSeq(text, i + 1, Len(text))
               colon == IndexOf(rest, ":")
               latest == LastIndexOf(rest, ":")
               host == SubSeq(text, i + 1, i + colon - 1)
           IN  /\ colon = 0 => \A n \in 1..Len(text) - i : text[i + n] # ":"
               /\ colon # 0 =>
                      /\ colon \in 1..Len(text) - i /\ text[i + colon] = ":"
                      /\ \A n \in 1..Len(text) - i : text[i + n] = ":" => colon <= n
                      /\ latest \in 1..Len(text) - i /\ text[i + latest] = ":"
               /\ ParsePlain(rest) =
                      IF colon = 0 THEN PortAfter(rest, <<>>)
                      ELSE IF latest # colon THEN Failure
                      ELSE PortAfter(host, SubSeq(text, i + colon, Len(text)))
  <1>. DEFINE len == Len(text)
              rest == SubSeq(text, i + 1, len)
              colon == IndexOf(rest, ":")
              latest == LastIndexOf(rest, ":")
              host == SubSeq(text, i + 1, i + colon - 1)
  <1>1. len \in Nat /\ i \in Nat /\ i <= len
    BY LenProperties DEF Texts
  <1>2. /\ rest \in Texts /\ Len(rest) = len - i
        /\ \A n \in 1..len - i : rest[n] = text[i + n]
        /\ \A c \in Nat, d \in Int : c >= 1 /\ d <= len - i =>
               SubSeq(rest, c, d) = SubSeq(text, i + c, i + d)
    BY Rest
  <1>3. ParsePlain(rest) = IF colon = 0 THEN PortAfter(rest, <<>>)
                           ELSE IF latest # colon THEN Failure
                           ELSE PortAfter(SubSeq(rest, 1, colon - 1), SubSeq(rest, colon, Len(rest)))
    BY Zenon DEF ParsePlain, From
  <1>. HIDE DEF rest
  <1>4. rest \in Seq(Pieces)
    BY <1>2 DEF Texts
  <1>5. /\ colon = 0 => \A n \in 1..Len(rest) : rest[n] # ":"
        /\ colon # 0 => /\ colon \in 1..Len(rest) /\ rest[colon] = ":"
                        /\ \A n \in 1..Len(rest) : rest[n] = ":" => colon <= n
    BY <1>4, IndexIsFirst
  <1>6. /\ latest = 0 => \A n \in 1..Len(rest) : rest[n] # ":"
        /\ latest # 0 => latest \in 1..Len(rest) /\ rest[latest] = ":"
    BY <1>4, IndexIsLast
  <1>. HIDE DEF colon, latest
  <1>7. /\ colon = 0 => \A n \in 1..len - i : text[i + n] # ":"
        /\ colon # 0 => /\ colon \in 1..len - i /\ text[i + colon] = ":"
                        /\ \A n \in 1..len - i : text[i + n] = ":" => colon <= n
    BY <1>2, <1>5
  <1>8. colon # 0 => latest \in 1..len - i /\ text[i + latest] = ":"
    BY <1>2, <1>5, <1>6
  <1>9. ASSUME colon # 0
        PROVE  /\ SubSeq(rest, 1, colon - 1) = host
               /\ SubSeq(rest, colon, Len(rest)) = SubSeq(text, i + colon, len)
    <2>1. colon \in Nat /\ colon >= 1 /\ colon <= len - i
      BY <1>1, <1>7, <1>9
    <2>2. SubSeq(rest, 1, colon - 1) = host
      <3>1. 1 \in Nat /\ colon - 1 \in Int /\ 1 >= 1 /\ colon - 1 <= len - i
            /\ i + (colon - 1) = i + colon - 1
        BY <1>1, <2>1
      <3>2. SubSeq(rest, 1, colon - 1) = SubSeq(text, i + 1, i + (colon - 1))
        BY <1>2, <3>1
      <3>. QED  BY <3>1, <3>2
    <2>3. SubSeq(rest, colon, Len(rest)) = SubSeq(text, i + colon, len)
      <3>1. len - i \in Int /\ len - i <= len - i /\ i + (len - i) = len
        BY <1>1
      <3>2. SubSeq(rest, colon, len - i) = SubSeq(text, i + colon, i + (len - i))
        BY <1>2, <2>1, <3>1
      <3>. QED  BY <1>2, <3>1, <3>2
    <2>. QED  BY <2>2, <2>3
  <1>. HIDE DEF host
  <1>10. ParsePlain(rest) = IF colon = 0 THEN PortAfter(rest, <<>>)
                            ELSE IF latest # colon THEN Failure
                            ELSE PortAfter(host, SubSeq(text, i + colon, len))
    <2>1. CASE colon = 0
      BY <1>3, <2>1
    <2>2. CASE colon # 0
      BY <1>3, <1>9, <2>2
    <2>. QED  BY <2>1, <2>2
  <1>. QED  BY <1>7, <1>8, <1>10 DEF rest, colon, latest, host

LEMMA PartIsSome ==
    ASSUME NEW text \in Texts, NEW a \in Nat, NEW b \in Int, a >= 1, b <= Len(text)
    PROVE  SubSeq(text, a, b) # <<>> <=> a <= b
  <1>. DEFINE part == SubSeq(text, a, b)
  <1>1. part \in Texts /\ Len(part) = IF a <= b THEN b - a + 1 ELSE 0
    BY PartOf
  <1>2. part = <<>> <=> Len(part) = 0
    BY <1>1, EmptySeq DEF Texts
  <1>. HIDE DEF part
  <1>3. part # <<>> <=> a <= b
    BY <1>1, <1>2
  <1>. QED  BY <1>3 DEF part

LEMMA BracketedIsParsed ==
    ASSUME NEW text \in Texts, NEW i \in 0..Len(text), NEW j \in 0..Len(text),
           IsDivision(text, i, j), text[i + 1] = "["
    PROVE  ParseBracketed(SubSeq(text, i + 1, Len(text))) = Answer(text, i, j)
  <1>. DEFINE len == Len(text)
              rest == SubSeq(text, i + 1, len)
              end == IndexOf(rest, "]")
              host == SubSeq(text, i + 2, j - 1)
  <1>1. len \in Nat /\ i \in Nat /\ j \in Nat /\ i <= len /\ j <= len
    BY LenProperties DEF Texts
  <1>2. HasBracketedHost(text, i, j)
    BY DEF IsDivision, HasPlainHost
  <1>3. j > i + 2 /\ text[j] = "]" /\ IsIPv6(host)
    BY <1>2 DEF HasBracketedHost
  <1>4. j = len \/ (text[j + 1] = ":" /\ IsPort(SubSeq(text, j + 2, len)))
    BY DEF IsDivision
  <1>5. /\ i + 2 \in Nat /\ j - 1 \in Int /\ i + 2 >= 1 /\ j - 1 <= len
    BY <1>1
  <1>6. \A n \in i + 2..j - 1 : text[n] # "]"
    <2>1. host \in Texts
      BY <1>5, PartOf
    <2>2. "]" \notin ToSet(host)
      BY <1>3, <2>1, AddressPieces
    <2>3. "]" \in ToSet(host) <=> \E n \in i + 2..j - 1 : text[n] = "]"
      BY <1>5, PieceOfPart
    <2>. QED  BY <2>2, <2>3
  <1>7. /\ end = 0 => \A n \in 1..len - i : text[i + n] # "]"
        /\ end # 0 => /\ end \in 1..len - i /\ text[i + end] = "]"
                      /\ \A n \in 1..len - i : text[i + n] = "]" => end <= n
        /\ ParseBracketed(rest) =
               IF end = 0 \/ ~IsIPv6(SubSeq(text, i + 2, i + end - 1)) THEN Failure
               ELSE PortAfter(SubSeq(text, i + 2, i + end - 1), SubSeq(text, i + end + 1, len))
    BY BracketedIs
  <1>. HIDE DEF end
  <1>8. end = j - i
    <2>1. j - i \in 1..len - i /\ i + (j - i) = j
      BY <1>1, <1>3
    <2>2. end # 0 /\ end <= j - i
      BY <1>3, <1>7, <2>1
    <2>3. end \in 1..len - i /\ text[i + end] = "]"
      BY <1>7, <2>2
    <2>4. i + end \notin i + 2..j - 1
      BY <1>6, <2>3
    <2>5. end # 1
      BY <2>3, <1>1
    <2>. QED  BY <1>1, <2>2, <2>3, <2>4, <2>5
  <1>9. end # 0 /\ i + end - 1 = j - 1 /\ i + end + 1 = j + 1
    BY <1>1, <1>3, <1>8
  <1>10. ParseBracketed(rest) = PortAfter(host, SubSeq(text, j + 1, len))
    BY <1>3, <1>7, <1>9
  <1>11. host # <<>>
    <2>1. i + 2 <= j - 1
      BY <1>1, <1>3
    <2>. QED  BY <1>5, <2>1, PartIsSome
  <1>. HIDE DEF host, rest
  <1>12. PortAfter(host, SubSeq(text, j + 1, len)) =
             [host |-> host, port |-> IF j = len THEN DefaultPort ELSE SubSeq(text, j + 2, len)]
    <2>1. PortAfter(host, SubSeq(text, j + 1, len)) =
               IF host = <<>> THEN Failure
               ELSE IF j = len THEN [host |-> host, port |-> DefaultPort]
               ELSE IF text[j + 1] = ":" /\ IsPort(SubSeq(text, j + 2, len))
                    THEN [host |-> host, port |-> SubSeq(text, j + 2, len)]
               ELSE Failure
      BY PortIsParsed
    <2>. QED  BY <1>4, <1>11, <2>1
  <1>. QED  BY <1>10, <1>12 DEF Answer, host, rest

LEMMA PlainIsParsed ==
    ASSUME NEW text \in Texts, NEW i \in 0..Len(text), NEW j \in 0..Len(text),
           IsDivision(text, i, j), text[i + 1] # "["
    PROVE  ParsePlain(SubSeq(text, i + 1, Len(text))) = Answer(text, i, j)
  <1>. DEFINE len == Len(text)
              rest == SubSeq(text, i + 1, len)
              colon == IndexOf(rest, ":")
              latest == LastIndexOf(rest, ":")
              host == SubSeq(text, i + 1, j)
  <1>1. len \in Nat /\ i \in Nat /\ j \in Nat /\ i <= len /\ j <= len
    BY LenProperties DEF Texts
  <1>2. j > i /\ \A n \in i + 1..j : text[n] # ":"
    BY DEF IsDivision, HasPlainHost, HasBracketedHost
  <1>3. j = len \/ (text[j + 1] = ":" /\ IsPort(SubSeq(text, j + 2, len)))
    BY DEF IsDivision
  <1>4. /\ colon = 0 => \A n \in 1..len - i : text[i + n] # ":"
        /\ colon # 0 => /\ colon \in 1..len - i /\ text[i + colon] = ":"
                        /\ \A n \in 1..len - i : text[i + n] = ":" => colon <= n
                        /\ latest \in 1..len - i /\ text[i + latest] = ":"
        /\ ParsePlain(rest) =
               IF colon = 0 THEN PortAfter(rest, <<>>)
               ELSE IF latest # colon THEN Failure
               ELSE PortAfter(SubSeq(text, i + 1, i + colon - 1), SubSeq(text, i + colon, len))
    BY PlainIs
  <1>5. host # <<>>
    <2>1. i + 1 \in Nat /\ j \in Int /\ i + 1 >= 1 /\ j <= len /\ i + 1 <= j
      BY <1>1, <1>2
    <2>. QED  BY <2>1, PartIsSome
  <1>6. PortAfter(host, SubSeq(text, j + 1, len)) =
            [host |-> host, port |-> IF j = len THEN DefaultPort ELSE SubSeq(text, j + 2, len)]
    <2>. HIDE DEF host
    <2>1. PortAfter(host, SubSeq(text, j + 1, len)) =
               IF host = <<>> THEN Failure
               ELSE IF j = len THEN [host |-> host, port |-> DefaultPort]
               ELSE IF text[j + 1] = ":" /\ IsPort(SubSeq(text, j + 2, len))
                    THEN [host |-> host, port |-> SubSeq(text, j + 2, len)]
               ELSE Failure
      BY PortIsParsed
    <2>. QED  BY <1>3, <1>5, <2>1
  <1>7. ParsePlain(rest) = PortAfter(host, SubSeq(text, j + 1, len))
    <2>1. CASE j = len
      <3>1. SubSeq(text, j + 1, len) = <<>>
        BY <2>1, SuffixIsPort
      <3>. HIDE DEF colon, latest
      <3>2. colon = 0
        <4>. SUFFICES ASSUME colon # 0 PROVE FALSE
          OBVIOUS
        <4>1. colon \in 1..len - i /\ text[i + colon] = ":"
          BY <1>4
        <4>2. i + colon \in i + 1..j
          BY <1>1, <2>1, <4>1
        <4>. QED  BY <1>2, <4>1, <4>2
      <3>3. ParsePlain(rest) = PortAfter(rest, <<>>)
        BY <1>4, <3>2
      <3>4. rest = host
        BY <2>1
      <3>. QED  BY <3>1, <3>3, <3>4
    <2>2. CASE j # len
      <3>1. text[j + 1] = ":" /\ IsPort(SubSeq(text, j + 2, len))
        BY <1>3, <2>2
      <3>2. \A n \in j + 2..len : text[n] # ":"
        <4>1. j + 2 \in Nat /\ len \in Int /\ j + 2 >= 1 /\ len <= len
          BY <1>1
        <4>. QED  BY <3>1, <4>1, PortPieces
      <3>. HIDE DEF colon, latest
      <3>3. j + 1 - i \in 1..len - i /\ i + (j + 1 - i) = j + 1
        BY <1>1, <1>2, <2>2
      <3>4. colon # 0
        BY <1>4, <3>1, <3>3
      <3>5. ASSUME NEW n \in 1..len - i, text[i + n] = ":" PROVE n = j + 1 - i
        <4>1. i + n \notin i + 1..j /\ i + n \notin j + 2..len
          BY <1>2, <3>2, <3>5
        <4>2. n \in Nat /\ n >= 1 /\ n <= len - i
          BY <1>1
        <4>. QED  BY <1>1, <4>1, <4>2
      <3>6. colon = j + 1 - i
        BY <1>4, <3>4, <3>5
      <3>7. latest = j + 1 - i
        BY <1>4, <3>4, <3>5
      <3>8. i + colon - 1 = j /\ i + colon = j + 1
        BY <1>1, <3>6
      <3>. QED  BY <1>4, <3>4, <3>6, <3>7, <3>8
    <2>. QED  BY <2>1, <2>2
  <1>. HIDE DEF host, rest
  <1>. QED  BY <1>6, <1>7 DEF Answer, host, rest

\* What is a division is parsed as such, so a text has one meaning.
LEMMA DivisionIsParsed ==
    ASSUME NEW text \in Texts, NEW i \in 0..Len(text), NEW j \in 0..Len(text),
           IsDivision(text, i, j)
    PROVE  ParseAuthority(text) = Answer(text, i, j)
  <1>. DEFINE len == Len(text)
              user == LastIndexOf(text, "@")
  <1>1. len \in Nat /\ i \in Nat /\ j \in Nat /\ i <= len /\ j <= len
    BY LenProperties DEF Texts
  <1>2. /\ user \in 0..len /\ (user = 0 \/ text[user] = "@")
        /\ \A n \in user + 1..len : text[n] # "@"
        /\ ParseAuthority(text) =
               IF user < len /\ text[user + 1] = "["
               THEN ParseBracketed(SubSeq(text, user + 1, len))
               ELSE ParsePlain(SubSeq(text, user + 1, len))
    BY ParsedAfterUser
  <1>3. i = 0 \/ text[i] = "@"
    BY DEF IsDivision
  <1>4. \A n \in i + 1..len : text[n] # "@"
    BY DEF IsDivision
  <1>. HIDE DEF user
  <1>5. user = i
    <2>1. CASE user < i
      <3>1. i \in user + 1..len /\ i # 0
        BY <1>1, <1>2, <2>1
      <3>. QED  BY <1>2, <1>3, <3>1
    <2>2. CASE user > i
      <3>1. user \in i + 1..len /\ user # 0
        BY <1>1, <1>2, <2>2
      <3>. QED  BY <1>2, <1>4, <3>1
    <2>. QED  BY <1>1, <1>2, <2>1, <2>2
  <1>6. i < len
    <2>1. HasPlainHost(text, i, j) \/ HasBracketedHost(text, i, j)
      BY DEF IsDivision
    <2>2. j > i
      BY <1>1, <2>1 DEF HasPlainHost, HasBracketedHost
    <2>. QED  BY <1>1, <2>2
  <1>7. CASE text[i + 1] = "["
    BY <1>2, <1>5, <1>6, <1>7, BracketedIsParsed
  <1>8. CASE text[i + 1] # "["
    BY <1>2, <1>5, <1>8, PlainIsParsed
  <1>. QED  BY <1>7, <1>8

LEMMA AcceptedPort ==
    ASSUME NEW text \in Texts, NEW j \in 0..Len(text), NEW host,
           PortAfter(host, SubSeq(text, j + 1, Len(text))) # Failure
    PROVE  /\ host # <<>>
           /\ j = Len(text) \/ (text[j + 1] = ":" /\ IsPort(SubSeq(text, j + 2, Len(text))))
  <1>1. PortAfter(host, SubSeq(text, j + 1, Len(text))) =
            IF host = <<>> THEN Failure
            ELSE IF j = Len(text) THEN [host |-> host, port |-> DefaultPort]
            ELSE IF text[j + 1] = ":" /\ IsPort(SubSeq(text, j + 2, Len(text)))
                 THEN [host |-> host, port |-> SubSeq(text, j + 2, Len(text))]
            ELSE Failure
    BY PortIsParsed
  <1>. QED  BY Zenon, <1>1

LEMMA AcceptedBracketed ==
    ASSUME NEW text \in Texts, NEW i \in 0..Len(text), i < Len(text), text[i + 1] = "[",
           ParseBracketed(SubSeq(text, i + 1, Len(text))) # Failure
    PROVE  \E j \in i..Len(text) :
               /\ HasBracketedHost(text, i, j)
               /\ j = Len(text) \/ (text[j + 1] = ":" /\ IsPort(SubSeq(text, j + 2, Len(text))))
  <1>. DEFINE len == Len(text)
              rest == SubSeq(text, i + 1, len)
              end == IndexOf(rest, "]")
              host == SubSeq(text, i + 2, i + end - 1)
  <1>1. len \in Nat /\ i \in Nat /\ i < len
    BY LenProperties DEF Texts
  <1>2. /\ end # 0 => /\ end \in 1..len - i /\ text[i + end] = "]"
                      /\ \A n \in 1..len - i : text[i + n] = "]" => end <= n
        /\ ParseBracketed(rest) =
               IF end = 0 \/ ~IsIPv6(host) THEN Failure
               ELSE PortAfter(host, SubSeq(text, i + end + 1, len))
    BY BracketedIs
  <1>3. end # 0 /\ IsIPv6(host) /\ PortAfter(host, SubSeq(text, i + end + 1, len)) # Failure
    <2>. HIDE DEF end, host, len
    <2>. QED  BY <1>2 DEF rest, len
  <1>4. /\ end \in 1..len - i /\ text[i + end] = "]"
        /\ \A n \in 1..len - i : text[i + n] = "]" => end <= n
    BY <1>2, <1>3
  <1>. HIDE DEF end
  <1>. DEFINE j == i + end
  <1>5. j \in i..len /\ j \in 0..len /\ j \in Nat
    BY <1>1, <1>4
  <1>6. host # <<>> /\ (j = len \/ (text[j + 1] = ":" /\ IsPort(SubSeq(text, j + 2, len))))
    <2>. HIDE DEF j, host
    <2>1. PortAfter(host, SubSeq(text, j + 1, len)) # Failure
      BY <1>3 DEF j
    <2>. QED  BY <1>5, <2>1, AcceptedPort
  <1>7. HasBracketedHost(text, i, j)
    <2>1. /\ i + 2 \in Nat /\ i + end - 1 \in Int /\ i + 2 >= 1 /\ i + end - 1 <= len
      BY <1>1, <1>4
    <2>2. i + 2 <= i + end - 1
      BY <1>6, <2>1, PartIsSome
    <2>3. j > i + 2 /\ j - 1 = i + end - 1
      BY <1>1, <1>4, <2>2
    <2>. QED  BY <1>3, <1>4, <2>3 DEF HasBracketedHost
  <1>. HIDE DEF j
  <1>. QED  BY <1>5, <1>6, <1>7

LEMMA AcceptedPlain ==
    ASSUME NEW text \in Texts, NEW i \in 0..Len(text), i < Len(text) => text[i + 1] # "[",
           ParsePlain(SubSeq(text, i + 1, Len(text))) # Failure
    PROVE  \E j \in i..Len(text) :
               /\ HasPlainHost(text, i, j)
               /\ j = Len(text) \/ (text[j + 1] = ":" /\ IsPort(SubSeq(text, j + 2, Len(text))))
  <1>. DEFINE len == Len(text)
              rest == SubSeq(text, i + 1, len)
              colon == IndexOf(rest, ":")
              latest == LastIndexOf(rest, ":")
              host == SubSeq(text, i + 1, i + colon - 1)
  <1>1. len \in Nat /\ i \in Nat /\ i <= len
    BY LenProperties DEF Texts
  <1>2. /\ colon = 0 => \A n \in 1..len - i : text[i + n] # ":"
        /\ colon # 0 => /\ colon \in 1..len - i /\ text[i + colon] = ":"
                        /\ \A n \in 1..len - i : text[i + n] = ":" => colon <= n
                        /\ latest \in 1..len - i /\ text[i + latest] = ":"
        /\ ParsePlain(rest) =
               IF colon = 0 THEN PortAfter(rest, <<>>)
               ELSE IF latest # colon THEN Failure
               ELSE PortAfter(host, SubSeq(text, i + colon, len))
    BY PlainIs
  <1>. HIDE DEF colon, latest
  <1>3. CASE colon = 0
    <2>1. PortAfter(rest, <<>>) # Failure
      BY <1>2, <1>3
    <2>2. rest # <<>>
      BY <2>1 DEF PortAfter
    <2>3. i < len
      <3>1. i + 1 \in Nat /\ len \in Int /\ i + 1 >= 1 /\ len <= len
        BY <1>1
      <3>2. i + 1 <= len
        BY <2>2, <3>1, PartIsSome
      <3>. QED  BY <1>1, <3>2
    <2>4. \A n \in i + 1..len : text[n] # ":"
      <3>. SUFFICES ASSUME NEW n \in i + 1..len PROVE text[n] # ":"
        OBVIOUS
      <3>1. n - i \in 1..len - i /\ i + (n - i) = n
        BY <1>1
      <3>. QED  BY <1>2, <1>3, <3>1
    <2>5. HasPlainHost(text, i, len)
      BY <2>3, <2>4 DEF HasPlainHost
    <2>6. len \in i..len
      BY <1>1
    <2>. QED  BY <2>5, <2>6
  <1>4. CASE colon # 0
    <2>. DEFINE j == i + colon - 1
    <2>1. colon \in 1..len - i /\ \A n \in 1..len - i : text[i + n] = ":" => colon <= n
      BY <1>2, <1>4
    <2>2. j \in i..len /\ j \in 0..len /\ j \in Nat /\ j + 1 = i + colon
      BY <1>1, <2>1
    <2>3. PortAfter(host, SubSeq(text, j + 1, len)) # Failure
      <3>1. PortAfter(host, SubSeq(text, i + colon, len)) # Failure
        <4>. HIDE DEF host, rest, len
        <4>. QED  BY <1>2, <1>4 DEF rest, len
      <3>. QED  BY <2>2, <3>1
    <2>4. host # <<>> /\ (j = len \/ (text[j + 1] = ":" /\ IsPort(SubSeq(text, j + 2, len))))
      <3>. HIDE DEF host, j
      <3>. QED  BY <2>2, <2>3, AcceptedPort
    <2>5. j > i
      <3>1. i + 1 \in Nat /\ j \in Int /\ i + 1 >= 1 /\ j <= len
        BY <1>1, <2>2
      <3>2. i + 1 <= j
        BY <2>4, <3>1, PartIsSome
      <3>. HIDE DEF j
      <3>. QED  BY <1>1, <2>2, <3>2
    <2>6. \A n \in i + 1..j : text[n] # ":"
      <3>. SUFFICES ASSUME NEW n \in i + 1..j, text[n] = ":" PROVE FALSE
        OBVIOUS
      <3>1. n - i \in 1..len - i /\ i + (n - i) = n /\ n - i < colon
        BY <1>1, <2>1, <2>2
      <3>2. colon <= n - i
        BY <2>1, <3>1
      <3>. QED  BY <1>1, <2>1, <3>1, <3>2
    <2>7. HasPlainHost(text, i, j)
      <3>1. i < len
        BY <1>1, <2>2, <2>5
      <3>. HIDE DEF j
      <3>. QED  BY <2>5, <2>6, <3>1 DEF HasPlainHost
    <2>. HIDE DEF j
    <2>. QED  BY <2>2, <2>4, <2>7
  <1>. QED  BY <1>3, <1>4

\* What is parsed is a division.
LEMMA AcceptedIsDivided ==
    ASSUME NEW text \in Texts, ParseAuthority(text) # Failure
    PROVE  \E i, j \in 0..Len(text) : IsDivision(text, i, j)
  <1>. DEFINE len == Len(text)
              i == LastIndexOf(text, "@")
              rest == SubSeq(text, i + 1, len)
  <1>1. len \in Nat
    BY LenProperties DEF Texts
  <1>2. /\ i \in 0..len /\ (i = 0 \/ text[i] = "@")
        /\ \A n \in i + 1..len : text[n] # "@"
        /\ ParseAuthority(text) = IF i < len /\ text[i + 1] = "["
                                  THEN ParseBracketed(rest) ELSE ParsePlain(rest)
    BY ParsedAfterUser
  <1>. HIDE DEF i
  <1>3. \E j \in i..len :
            /\ HasPlainHost(text, i, j) \/ HasBracketedHost(text, i, j)
            /\ j = len \/ (text[j + 1] = ":" /\ IsPort(SubSeq(text, j + 2, len)))
    <2>1. CASE i < len /\ text[i + 1] = "["
      <3>1. ParseBracketed(rest) # Failure
        BY <1>2, <2>1
      <3>. QED  BY <1>2, <2>1, <3>1, AcceptedBracketed
    <2>2. CASE ~(i < len /\ text[i + 1] = "[")
      <3>1. ParsePlain(rest) # Failure
        BY <1>2, <2>2
      <3>. QED  BY <1>2, <2>2, <3>1, AcceptedPlain
    <2>. QED  BY <2>1, <2>2
  <1>4. PICK j \in i..len :
            /\ HasPlainHost(text, i, j) \/ HasBracketedHost(text, i, j)
            /\ j = len \/ (text[j + 1] = ":" /\ IsPort(SubSeq(text, j + 2, len)))
    BY <1>3
  <1>5. IsDivision(text, i, j)
    BY <1>2, <1>4 DEF IsDivision
  <1>6. j \in 0..len
    BY <1>1, <1>2
  <1>. QED  BY <1>2, <1>5, <1>6

-----------------------------------------------------------------------------
\* parseAuthority accepts a text that the grammar divides, with the host and
\* the port of whatever division, and refuses every other.
THEOREM ParsedByTheGrammar ==
    ASSUME NEW text \in Texts
    PROVE  {ParseAuthority(text)} =
               IF Readings(text) = {} THEN {Failure}
               ELSE {Meaning(reading) : reading \in Readings(text)}
  <1>. DEFINE len == Len(text)
              R == Readings(text)
              D == {Division(text, i, j) : i, j \in 0..len}
  <1>1. R = {reading \in D : IsReading(text, reading[1], reading[2], reading[3])}
    BY DEF Readings, Division
  <1>2. ASSUME NEW reading \in R PROVE Meaning(reading) = ParseAuthority(text)
    <2>1. PICK i \in 0..len, j \in 0..len : reading = Division(text, i, j)
      BY <1>1
    <2>2. IsReading(text, reading[1], reading[2], reading[3])
      BY <1>1
    <2>3. IsDivision(text, i, j)
      BY Zenon, <2>1, <2>2, DivisionIsReading
    <2>4. Meaning(Division(text, i, j)) = Answer(text, i, j)
      BY Zenon, <2>3, DivisionIsReading
    <2>5. ParseAuthority(text) = Answer(text, i, j)
      BY <2>3, DivisionIsParsed
    <2>. QED  BY Zenon, <2>1, <2>4, <2>5
  <1>3. ASSUME R = {} PROVE ParseAuthority(text) = Failure
    <2>. SUFFICES ASSUME ParseAuthority(text) # Failure PROVE FALSE
      OBVIOUS
    <2>1. PICK i \in 0..len, j \in 0..len : IsDivision(text, i, j)
      BY AcceptedIsDivided
    <2>. DEFINE reading == Division(text, i, j)
    <2>2. IsReading(text, reading[1], reading[2], reading[3])
      BY Zenon, <2>1, DivisionIsReading
    <2>3. reading \in D
      BY SMT
    <2>. HIDE DEF reading
    <2>. QED  BY <1>1, <1>3, <2>2, <2>3
  <1>. HIDE DEF R
  <1>4. {ParseAuthority(text)} = IF R = {} THEN {Failure} ELSE {Meaning(reading) : reading \in R}
    <2>. HIDE DEF D
    <2>1. CASE R = {}
      BY Zenon, <1>3, <2>1
    <2>2. CASE R # {}
      <3>1. {Meaning(reading) : reading \in R} = {ParseAuthority(text)}
        BY <1>2, <2>2
      <3>. QED  BY Zenon, <2>2, <3>1
    <2>. QED  BY <2>1, <2>2
  <1>. QED  BY <1>4 DEF R

-----------------------------------------------------------------------------
(* formatProxyUrl *)

LEMMA PiecesOfBoth ==
    ASSUME NEW a \in Texts, NEW b \in Texts
    PROVE  ToSet(a \o b) = ToSet(a) \cup ToSet(b)
  <1>. DEFINE both == a \o b
  <1>1. a \in Seq(Pieces) /\ b \in Seq(Pieces)
    BY DEF Texts
  <1>2. /\ both \in Seq(Pieces) /\ Len(both) = Len(a) + Len(b)
        /\ \A i \in 1..Len(a) + Len(b) : both[i] = IF i <= Len(a) THEN a[i] ELSE b[i - Len(a)]
    BY <1>1, ConcatProperties
  <1>3. Len(a) \in Nat /\ Len(b) \in Nat
    BY <1>1, LenProperties
  <1>4. /\ ToSet(a) = {a[i] : i \in 1..Len(a)} /\ ToSet(b) = {b[i] : i \in 1..Len(b)}
        /\ ToSet(both) = {both[i] : i \in 1..Len(both)}
    <2>. HIDE DEF both
    <2>. QED  BY <1>1, <1>2, LenProperties DEF ToSet
  <1>. DEFINE k == Len(a)
              l == Len(b)
  <1>. HIDE DEF both, k, l
  <1>5. ASSUME NEW piece \in ToSet(both) PROVE piece \in ToSet(a) \cup ToSet(b)
    <2>1. PICK i \in 1..Len(both) : piece = both[i]
      BY <1>4
    <2>2. CASE i <= k
      <3>1. i \in 1..k /\ both[i] = a[i]
        BY <1>2, <1>3, <2>1, <2>2 DEF k, l
      <3>. QED  BY <1>4, <2>1, <3>1 DEF k
    <2>3. CASE ~(i <= k)
      <3>1. i - k \in 1..l /\ both[i] = b[i - k]
        BY <1>2, <1>3, <2>1, <2>3 DEF k, l
      <3>. QED  BY <1>4, <2>1, <3>1 DEF l
    <2>. QED  BY <2>2, <2>3
  <1>6. ASSUME NEW piece \in ToSet(a) PROVE piece \in ToSet(both)
    <2>1. PICK i \in 1..k : piece = a[i]
      BY <1>4 DEF k
    <2>2. i \in 1..Len(both) /\ both[i] = a[i]
      BY <1>2, <1>3, <2>1 DEF k
    <2>. QED  BY <1>4, <2>1, <2>2
  <1>7. ASSUME NEW piece \in ToSet(b) PROVE piece \in ToSet(both)
    <2>1. PICK i \in 1..l : piece = b[i]
      BY <1>4 DEF l
    <2>2. k + i \in 1..Len(both) /\ both[k + i] = b[i]
      <3>1. k + i \in 1..k + l /\ ~(k + i <= k) /\ (k + i) - k = i
        BY <1>3, <2>1 DEF k, l
      <3>. QED  BY <1>2, <3>1 DEF k, l
    <2>. QED  BY <1>4, <2>1, <2>2
  <1>. QED  BY <1>5, <1>6, <1>7 DEF both

LEMMA OnePiece ==
    ASSUME NEW piece \in Pieces
    PROVE  /\ <<piece>> \in Texts /\ Len(<<piece>>) = 1 /\ <<piece>>[1] = piece
           /\ ToSet(<<piece>>) = {piece}
  BY DEF Texts, ToSet

\* A host of the grammar and a port after a colon are read back.
LEMMA WrittenIsRead ==
    ASSUME NEW host \in Texts, NEW port \in Texts,
           IsPlainHost(host) \/ IsBracketedHost(host), "@" \notin ToSet(host), IsPort(port)
    PROVE  ParseAuthority(host \o <<":">> \o port) =
               [host |-> IF IsPlainHost(host) THEN host ELSE Inside(host), port |-> port]
  <1>. DEFINE colon == <<":">>
              suffix == colon \o port
              text == host \o suffix
              j == Len(host)
              len == Len(text)
  <1>1. host \in Seq(Pieces) /\ port \in Seq(Pieces) /\ colon \in Seq(Pieces)
        /\ Len(colon) = 1 /\ colon[1] = ":" /\ ToSet(colon) = {":"}
    BY OnePiece DEF Texts, Pieces
  <1>. HIDE DEF colon
  <1>2. /\ suffix \in Seq(Pieces) /\ Len(suffix) = 1 + Len(port)
        /\ \A i \in 1..1 + Len(port) : suffix[i] = IF i <= 1 THEN colon[i] ELSE port[i - 1]
    <2>1. /\ suffix \in Seq(Pieces) /\ Len(suffix) = Len(colon) + Len(port)
          /\ \A i \in 1..Len(colon) + Len(port) :
                 suffix[i] = IF i <= Len(colon) THEN colon[i] ELSE port[i - Len(colon)]
      BY <1>1, ConcatProperties
    <2>. HIDE DEF suffix
    <2>. QED  BY Zenon, <1>1, <2>1
  <1>3. Len(port) \in Nat /\ j \in Nat
    BY <1>1, LenProperties
  <1>4. suffix # <<>> /\ suffix[1] = ":" /\ Tail(suffix) = port
    <2>. DEFINE n == Len(port)
                tail == Tail(suffix)
    <2>0. n \in Nat
      BY <1>3
    <2>. HIDE DEF suffix, n
    <2>1. suffix # <<>>
      <3>1. Len(suffix) # 0
        BY <1>2, <2>0 DEF n
      <3>. QED  BY <1>2, <3>1, EmptySeq
    <2>2. suffix[1] = ":"
      <3>1. 1 \in 1..1 + n /\ 1 <= 1
        BY <2>0
      <3>. QED  BY <1>1, <1>2, <3>1 DEF n
    <2>3. /\ tail \in Seq(Pieces) /\ Len(tail) = Len(suffix) - 1
          /\ \A i \in 1..Len(tail) : tail[i] = suffix[i + 1]
      BY <1>2, <2>1, HeadTailProperties
    <2>. HIDE DEF tail
    <2>4. Len(tail) = n
      BY <1>2, <2>0, <2>3 DEF n
    <2>5. ASSUME NEW i \in 1..n PROVE tail[i] = port[i]
      <3>1. i + 1 \in 1..1 + n /\ ~(i + 1 <= 1) /\ (i + 1) - 1 = i
        BY <2>0
      <3>2. suffix[i + 1] = port[i]
        BY <1>2, <3>1 DEF n
      <3>. QED  BY <2>3, <2>4, <3>2
    <2>6. tail = port
      BY <1>1, <2>3, <2>4, <2>5, SeqEqual DEF n
    <2>. QED  BY <2>1, <2>2, <2>6 DEF tail
  <1>. HIDE DEF suffix
  <1>5. text \in Seq(Pieces) /\ len = j + Len(suffix) /\ Len(suffix) \in Nat
    BY <1>1, <1>2, ConcatProperties, LenProperties
  <1>6. 0 \in 0..len /\ j \in 0..len /\ j < len
    <2>. HIDE DEF j, len
    <2>. QED  BY <1>2, <1>3, <1>5
  <1>7. SubSeq(text, 1, 0) = <<>>
    BY SubSeqEmpty
  <1>8. SubSeq(text, 1, j) = host /\ SubSeq(text, j + 1, len) = suffix
    <2>1. j \in 1..Len(host) /\ 1 \in 1..Len(host)
      <3>1. host # <<>>
        BY DEF IsPlainHost, IsBracketedHost
      <3>2. j # 0
        BY <1>1, <3>1, EmptySeq
      <3>. HIDE DEF j
      <3>3. j \in 1..j /\ 1 \in 1..j
        BY <1>3, <3>2
      <3>. QED  BY <3>3 DEF j
    <2>2. SubSeq(text, 1, j) = SubSeq(host, 1, j)
      BY <1>1, <1>2, <2>1, SubSeqOfConcat1
    <2>3. SubSeq(host, 1, j) = host
      BY <1>1, SubSeqFull
    <2>4. j + 1 \in Len(host) + 1..Len(host) + Len(suffix) /\ len \in Len(host) + 1..Len(host) + Len(suffix)
      <3>. HIDE DEF len
      <3>. QED  BY <1>2, <1>3, <1>5
    <2>5. SubSeq(text, j + 1, len) = SubSeq(suffix, (j + 1) - Len(host), len - Len(host))
      <3>. HIDE DEF len
      <3>. QED  BY <1>1, <1>2, <2>4, SubSeqOfConcat2
    <2>6. (j + 1) - Len(host) = 1 /\ len - Len(host) = Len(suffix)
      <3>. HIDE DEF len
      <3>. QED  BY <1>3, <1>5
    <2>7. SubSeq(suffix, 1, Len(suffix)) = suffix
      BY <1>2, SubSeqFull
    <2>. QED  BY Zenon, <2>2, <2>3, <2>5, <2>6, <2>7
  <1>. HIDE DEF text, len, j
  <1>9. IsReading(text, <<>>, host, suffix)
    <2>1. text = <<>> \o host \o suffix
      BY Zenon, <1>1, ConcatEmptySeq DEF text
    <2>2. "@" \notin ToSet(host \o suffix)
      <3>1. ToSet(suffix) = {":"} \cup ToSet(port)
        BY Zenon, <1>1, PiecesOfBoth DEF suffix, Texts
      <3>2. ToSet(host \o suffix) = ToSet(host) \cup ToSet(suffix)
        BY Zenon, <1>1, <1>2, PiecesOfBoth DEF Texts
      <3>3. "@" \notin ToSet(port)
        BY PiecesOfPort DEF Digits
      <3>. QED  BY <3>1, <3>2, <3>3
    <2>3. IsUserInfo(<<>>)
      BY DEF IsUserInfo
    <2>4. IsPortSuffix(suffix)
      BY <1>4 DEF IsPortSuffix
    <2>. QED  BY Zenon, <2>1, <2>2, <2>3, <2>4 DEF IsReading
  <1>10. Division(text, 0, j) = <<<<>>, host, suffix>>
    <2>1. 0 + 1 = 1
      OBVIOUS
    <2>. QED  BY Zenon, <1>7, <1>8, <2>1 DEF Division, From, len
  <1>11. /\ <<<<>>, host, suffix>>[1] = <<>> /\ <<<<>>, host, suffix>>[2] = host
         /\ <<<<>>, host, suffix>>[3] = suffix
    OBVIOUS
  <1>12. text \in Texts
    BY <1>5 DEF Texts
  <1>13. IsDivision(text, 0, j)
    BY Zenon, <1>6, <1>9, <1>10, <1>11, <1>12, DivisionIsReading DEF len
  <1>14. ParseAuthority(text) = Meaning(<<<<>>, host, suffix>>)
    <2>1. ParseAuthority(text) = Answer(text, 0, j)
      BY Zenon, <1>6, <1>12, <1>13, DivisionIsParsed DEF len
    <2>2. Meaning(Division(text, 0, j)) = Answer(text, 0, j)
      BY Zenon, <1>6, <1>12, <1>13, DivisionIsReading DEF len
    <2>. QED  BY Zenon, <1>10, <2>1, <2>2
  <1>15. Meaning(<<<<>>, host, suffix>>) =
             [host |-> IF IsPlainHost(host) THEN host ELSE Inside(host), port |-> port]
    BY Zenon, <1>4, <1>11 DEF Meaning
  <1>16. text = host \o <<":">> \o port
    <2>1. (host \o colon) \o port = host \o (colon \o port)
      BY <1>1, ConcatAssociative
    <2>. QED  BY Zenon, <2>1 DEF text, suffix, colon
  <1>. QED  BY Zenon, <1>14, <1>15, <1>16

LEMMA BracketsAround ==
    ASSUME NEW host \in Texts, IsIPv6(host)
    PROVE  LET h == <<"[">> \o host \o <<"]">>
           IN  /\ h \in Texts /\ IsBracketedHost(h) /\ ~IsPlainHost(h) /\ Inside(h) = host
               /\ "@" \notin ToSet(h)
  <1>. DEFINE open == <<"[">>
              close == <<"]">>
              left == open \o host
              h == left \o close
              n == Len(host)
  <1>1. /\ open \in Seq(Pieces) /\ Len(open) = 1 /\ open[1] = "[" /\ ToSet(open) = {"["}
        /\ close \in Seq(Pieces) /\ Len(close) = 1 /\ close[1] = "]" /\ ToSet(close) = {"]"}
    BY OnePiece DEF Texts, Pieces
  <1>2. host \in Seq(Pieces) /\ n \in Nat /\ n >= 2
    BY AddressPieces, LenProperties DEF Texts
  <1>. HIDE DEF open, close, n
  <1>3. /\ left \in Seq(Pieces) /\ Len(left) = 1 + n
        /\ \A i \in 1..1 + n : left[i] = IF i <= 1 THEN open[i] ELSE host[i - 1]
    <2>1. /\ left \in Seq(Pieces) /\ Len(left) = Len(open) + Len(host)
          /\ \A i \in 1..Len(open) + Len(host) :
                 left[i] = IF i <= Len(open) THEN open[i] ELSE host[i - Len(open)]
      <3>1. open \in Seq(Pieces) /\ host \in Seq(Pieces)
        BY <1>1, <1>2
      <3>. QED  BY <3>1, ConcatProperties
    <2>. HIDE DEF left
    <2>. QED  BY Zenon, <1>1, <2>1 DEF n
  <1>. HIDE DEF left
  <1>4. /\ h \in Seq(Pieces) /\ Len(h) = n + 2
        /\ \A i \in 1..n + 2 : h[i] = IF i <= n + 1 THEN left[i] ELSE close[i - (n + 1)]
    <2>1. /\ h \in Seq(Pieces) /\ Len(h) = Len(left) + Len(close)
          /\ \A i \in 1..Len(left) + Len(close) :
                 h[i] = IF i <= Len(left) THEN left[i] ELSE close[i - Len(left)]
      BY <1>1, <1>3, ConcatProperties
    <2>2. Len(left) = n + 1 /\ Len(left) + Len(close) = n + 2
      BY <1>1, <1>2, <1>3
    <2>. HIDE DEF h
    <2>. QED  BY Zenon, <2>1, <2>2
  <1>5. h[1] = "["
    <2>1. 1 \in 1..n + 2 /\ 1 <= n + 1 /\ 1 \in 1..1 + n /\ 1 <= 1
      BY <1>2
    <2>. HIDE DEF h
    <2>. QED  BY Zenon, <1>1, <1>3, <1>4, <2>1
  <1>6. h[n + 2] = "]"
    <2>1. n + 2 \in 1..n + 2 /\ ~(n + 2 <= n + 1) /\ (n + 2) - (n + 1) = 1
      BY <1>2
    <2>. HIDE DEF h
    <2>. QED  BY Zenon, <1>1, <1>4, <2>1
  <1>. DEFINE inside == SubSeq(h, 2, n + 1)
  <1>7. inside = host
    <2>. HIDE DEF h
    <2>1. h \in Texts /\ 2 \in Nat /\ n + 1 \in Int /\ 2 >= 1 /\ n + 1 <= Len(h)
      BY <1>2, <1>4 DEF Texts
    <2>2. /\ inside \in Texts /\ Len(inside) = IF 2 <= n + 1 THEN (n + 1) - 2 + 1 ELSE 0
          /\ \A i \in 1..(n + 1) - 2 + 1 : inside[i] = h[2 + i - 1]
      BY <2>1, PartOf
    <2>3. (n + 1) - 2 + 1 = n /\ 2 <= n + 1
      BY <1>2
    <2>. HIDE DEF inside
    <2>4. inside \in Seq(Pieces) /\ Len(inside) = n
      BY <2>2, <2>3 DEF Texts
    <2>5. ASSUME NEW i \in 1..n PROVE inside[i] = host[i]
      <3>1. /\ 2 + i - 1 \in 1..n + 2 /\ 2 + i - 1 <= n + 1 /\ 2 + i - 1 \in 1..1 + n
            /\ ~(2 + i - 1 <= 1) /\ (2 + i - 1) - 1 = i
        BY <1>2
      <3>2. inside[i] = h[2 + i - 1]
        BY Zenon, <2>2, <2>3
      <3>3. h[2 + i - 1] = left[2 + i - 1]
        BY Zenon, <1>4, <3>1
      <3>4. left[2 + i - 1] = host[i]
        BY Zenon, <1>3, <3>1
      <3>. QED  BY <3>2, <3>3, <3>4
    <2>. QED  BY <1>2, <2>4, <2>5, SeqEqual DEF n
  <1>8. "@" \notin ToSet(h)
    <2>1. ToSet(left) = ToSet(open) \cup ToSet(host)
      BY Zenon, <1>1, PiecesOfBoth DEF left, Texts
    <2>2. ToSet(h) = ToSet(left) \cup ToSet(close)
      BY Zenon, <1>1, <1>3, PiecesOfBoth DEF Texts
    <2>3. "@" \notin ToSet(host)
      BY DEF IsIPv6
    <2>. HIDE DEF h
    <2>. QED  BY <1>1, <2>1, <2>2, <2>3
  <1>. HIDE DEF h
  <1>9. Inside(h) = host
    <2>1. Len(h) - 1 = n + 1
      BY <1>2, <1>4
    <2>. QED  BY Zenon, <1>7, <2>1 DEF Inside
  <1>10. IsBracketedHost(h) /\ ~IsPlainHost(h)
    <2>1. Len(h) > 2
      BY <1>2, <1>4
    <2>2. h[Len(h)] = "]"
      BY Zenon, <1>4, <1>6
    <2>. QED  BY Zenon, <1>5, <1>9, <2>1, <2>2 DEF IsBracketedHost, IsPlainHost
  <1>11. h = <<"[">> \o host \o <<"]">> /\ h \in Texts
    BY <1>4 DEF h, left, open, close, Texts
  <1>. QED  BY Zenon, <1>8, <1>9, <1>10, <1>11

\* What formatProxyUrl writes for a host and a port, parseAuthority reads as
\* that host and that port, whatever name, IPv6 address and port they are.
THEOREM UrlIsReadBack ==
    ASSUME NEW host \in Texts, NEW port \in Texts, IsPort(port),
           IsIPv6(host) \/ (IsPlainHost(host) /\ "@" \notin ToSet(host))
    PROVE  ParseAuthority((IF IsIPv6(host) THEN <<"[">> \o host \o <<"]">> ELSE host)
                              \o <<":">> \o port) =
               [host |-> host, port |-> port]
  <1>1. CASE IsIPv6(host)
    <2>. DEFINE h == <<"[">> \o host \o <<"]">>
    <2>1. h \in Texts /\ IsBracketedHost(h) /\ ~IsPlainHost(h) /\ Inside(h) = host /\ "@" \notin ToSet(h)
      BY Zenon, <1>1, BracketsAround
    <2>2. ParseAuthority(h \o <<":">> \o port) =
              [host |-> IF IsPlainHost(h) THEN h ELSE Inside(h), port |-> port]
      <3>. HIDE DEF h
      <3>. QED  BY <2>1, WrittenIsRead
    <2>. QED  BY Zenon, <1>1, <2>1, <2>2
  <1>2. CASE ~IsIPv6(host)
    <2>1. ParseAuthority(host \o <<":">> \o port) =
              [host |-> IF IsPlainHost(host) THEN host ELSE Inside(host), port |-> port]
      BY <1>2, WrittenIsRead
    <2>. QED  BY Zenon, <1>2, <2>1
  <1>. QED  BY <1>1, <1>2

\* The hosts of the specification are written as addresses or names.
LEMMA OnePairIsIPv6 ==
    ASSUME NEW text, NEW k, k \in Nat, ToSet(text) \subseteq {":", "0", "1"},
           {i \in 1..Len(text) - 1 : text[i] = ":" /\ text[i + 1] = ":"} = {k},
           text[1] = ":" => k = 1, text[Len(text)] = ":" => k = Len(text) - 1
    PROVE  IsIPv6(text)
  <1>. DEFINE colons == {i \in 1..Len(text) - 1 : text[i] = ":" /\ text[i + 1] = ":"}
  <1>1. Cardinality({k}) = 1
    BY FS_Singleton
  <1>2. /\ Cardinality(colons) = 1
        /\ text[1] = ":" => 1 \in colons
        /\ text[Len(text)] = ":" => Len(text) - 1 \in colons
    BY Zenon, <1>1
  <1>. QED  BY Zenon, <1>2 DEF IsIPv6

LEMMA HostsAreWritten ==
    ASSUME NEW host \in Hosts
    PROVE  /\ Written(host) \in Texts
           /\ host \in IPv6Hosts => IsIPv6(Written(host))
           /\ host \notin IPv6Hosts => /\ ~IsIPv6(Written(host)) /\ IsPlainHost(Written(host))
                                       /\ "@" \notin ToSet(Written(host))
  <1>1. CASE host = "::1"
    <2>. DEFINE text == <<":", ":", "1">>
    <2>1. text \in Texts /\ Len(text) = 3 /\ ToSet(text) \subseteq {":", "0", "1"}
      BY DEF Texts, Pieces, ToSet
    <2>2. {i \in 1..Len(text) - 1 : text[i] = ":" /\ text[i + 1] = ":"} = {1}
      OBVIOUS
    <2>3. text[Len(text)] # ":"
      OBVIOUS
    <2>4. Written(host) = text /\ host \in IPv6Hosts
      BY <1>1 DEF Written, IPv6Hosts
    <2>5. IsIPv6(text)
      BY <2>1, <2>2, <2>3, OnePairIsIPv6
    <2>. QED  BY Zenon, <2>1, <2>4, <2>5
  <1>2. CASE host = "::"
    <2>. DEFINE text == <<":", ":">>
    <2>1. text \in Texts /\ Len(text) = 2 /\ ToSet(text) \subseteq {":", "0", "1"}
      BY DEF Texts, Pieces, ToSet
    <2>2. {i \in 1..Len(text) - 1 : text[i] = ":" /\ text[i + 1] = ":"} = {1}
      OBVIOUS
    <2>3. 1 = Len(text) - 1
      OBVIOUS
    <2>4. Written(host) = text /\ host \in IPv6Hosts
      BY <1>2 DEF Written, IPv6Hosts
    <2>5. IsIPv6(text)
      BY <2>1, <2>2, <2>3, OnePairIsIPv6
    <2>. QED  BY Zenon, <2>1, <2>4, <2>5
  <1>3. CASE host = "fd00::5"
    <2>. DEFINE text == <<"0", ":", ":", "1">>
    <2>1. text \in Texts /\ Len(text) = 4 /\ ToSet(text) \subseteq {":", "0", "1"}
      BY DEF Texts, Pieces, ToSet
    <2>2. {i \in 1..Len(text) - 1 : text[i] = ":" /\ text[i + 1] = ":"} = {2}
      OBVIOUS
    <2>3. text[1] # ":" /\ text[Len(text)] # ":"
      OBVIOUS
    <2>4. Written(host) = text /\ host \in IPv6Hosts
      BY <1>3 DEF Written, IPv6Hosts
    <2>5. IsIPv6(text)
      BY <2>1, <2>2, <2>3, OnePairIsIPv6
    <2>. QED  BY Zenon, <2>1, <2>4, <2>5
  <1>4. CASE host \notin IPv6Hosts
    <2>. DEFINE text == <<"name">>
    <2>1. Written(host) = text
      BY <1>4 DEF Written, IPv6Hosts
    <2>2. text \in Texts /\ ToSet(text) = {"name"} /\ text # <<>> /\ text[1] = "name"
      BY OnePiece DEF Pieces
    <2>3. ~IsIPv6(text)
      BY <2>2 DEF IsIPv6
    <2>4. IsPlainHost(text)
      BY <2>2 DEF IsPlainHost
    <2>5. "@" \notin ToSet(text)
      BY <2>2
    <2>. QED  BY Zenon, <1>4, <2>1, <2>2, <2>3, <2>4, <2>5
  <1>. QED  BY <1>1, <1>2, <1>3, <1>4 DEF IPv6Hosts

LEMMA UrlIsRead ==
    ASSUME NEW local \in LocalAddresses
    PROVE  ParseAuthority(ProxyUrl(local)) =
               [host |-> Written(ProxyConnectionHost(local.host)), port |-> local.port]
  <1>. DEFINE host == ProxyConnectionHost(local.host)
              text == Written(host)
              port == local.port
  <1>1. host \in Hosts
    BY DEF LocalAddresses, ProxyConnectionHost, Hosts
  <1>2. port \in Texts /\ IsPort(port)
    <2>1. port = <<"1">> \/ port = <<"1", "0">>
      BY DEF LocalAddresses
    <2>2. <<"1">> \in Texts /\ IsPort(<<"1">>)
      <3>. DEFINE digits == <<"1">>
      <3>1. digits \in Texts /\ DOMAIN digits = 1..1 /\ digits[1] = "1"
        BY DEF Texts, Pieces
      <3>. HIDE DEF digits
      <3>2. {n \in DOMAIN digits : digits[n] \in Digits} = 1..1
        BY <3>1 DEF Digits
      <3>. QED  BY <3>1, <3>2 DEF IsPort, ToSet, digits
    <2>3. <<"1", "0">> \in Texts /\ IsPort(<<"1", "0">>)
      <3>. DEFINE digits == <<"1", "0">>
      <3>1. digits \in Texts /\ DOMAIN digits = 1..2 /\ digits[1] = "1" /\ digits[2] = "0"
        BY DEF Texts, Pieces
      <3>. HIDE DEF digits
      <3>2. {n \in DOMAIN digits : digits[n] \in Digits} = 1..2
        BY <3>1 DEF Digits
      <3>3. "1" \in ToSet(digits) /\ "70000" \notin ToSet(digits)
        BY <3>1 DEF ToSet
      <3>. QED  BY <3>1, <3>2, <3>3 DEF IsPort, digits
    <2>. QED  BY Zenon, <2>1, <2>2, <2>3
  <1>. HIDE DEF host, port
  <1>3. /\ text \in Texts
        /\ host \in IPv6Hosts => IsIPv6(text)
        /\ host \notin IPv6Hosts => ~IsIPv6(text) /\ IsPlainHost(text) /\ "@" \notin ToSet(text)
    BY <1>1, HostsAreWritten
  <1>4. ProxyUrl(local) = (IF host \in IPv6Hosts THEN <<"[">> \o text \o <<"]">> ELSE text)
                              \o <<":">> \o port
    BY Zenon DEF ProxyUrl, host, port
  <1>. HIDE DEF text
  <1>5. ParseAuthority((IF IsIPv6(text) THEN <<"[">> \o text \o <<"]">> ELSE text)
                           \o <<":">> \o port) = [host |-> text, port |-> port]
    BY <1>2, <1>3, UrlIsReadBack
  <1>6. ParseAuthority(ProxyUrl(local)) = [host |-> text, port |-> port]
    BY Zenon, <1>3, <1>4, <1>5
  <1>. QED  BY Zenon, <1>6 DEF host, text, port

LEMMA HostIsReached ==
    ASSUME NEW host \in Hosts
    PROVE  /\ Resolved(ProxyConnectionHost(host)) \cap ListenedBySsh(host) # {}
           /\ Resolved(ProxyConnectionHost(host)) \cap ListenedByHttp(host) # {}
  <1>1. CASE host \in {"", "localhost"}
    <2>1. /\ Resolved(ProxyConnectionHost(host)) = {"127.0.0.1", "::1"}
          /\ ListenedBySsh(host) = {"127.0.0.1", "::1"} /\ ListenedByHttp(host) = {"127.0.0.1"}
      BY <1>1 DEF Resolved, ProxyConnectionHost, ListenedBySsh, ListenedByHttp, AnyHosts
    <2>. QED  BY <2>1
  <1>2. CASE host \in AnyHosts
    <2>1. Resolved(ProxyConnectionHost(host)) = {"127.0.0.1", "::1"}
      BY <1>2 DEF Resolved, ProxyConnectionHost, AnyHosts
    <2>2. /\ ListenedBySsh(host) = Interfaces(host) /\ ListenedByHttp(host) = Interfaces(host)
          /\ "127.0.0.1" \in Interfaces(host) \/ "::1" \in Interfaces(host)
      BY <1>2 DEF ListenedBySsh, ListenedByHttp, Interfaces, AnyHosts
    <2>. QED  BY <2>1, <2>2
  <1>3. CASE host \notin {"", "localhost"} \cup AnyHosts
    <2>1. /\ host \in Resolved(ProxyConnectionHost(host))
          /\ host \in ListenedBySsh(host) /\ host \in ListenedByHttp(host)
      BY <1>3 DEF Resolved, ProxyConnectionHost, ListenedBySsh, ListenedByHttp, Interfaces, AnyHosts
    <2>. QED  BY <2>1
  <1>. QED  BY <1>1, <1>2, <1>3

\* A host that is not "any" listens on its normalized address only.
LEMMA ListenedIsNormalized ==
    ASSUME NEW host \in Hosts, HostNormalized(host) # "any"
    PROVE  \A address \in ListenedBySsh(host) \cup ListenedByHttp(host) :
               HostNormalized(address) = HostNormalized(host)
  BY DEF Hosts, HostNormalized, ListenedBySsh, ListenedByHttp, Interfaces, AnyHosts, LoopbackHosts

\* Hosts of different normalized addresses, none of them "any", share no
\* address that is listened on.
LEMMA OthersDoNotOverlap ==
    ASSUME NEW socks \in LocalAddresses, NEW http \in LocalAddresses, socks.port = http.port,
           ~ProxyAddressesConflict(socks, http)
    PROVE  ListenedBySsh(socks.host) \cap ListenedByHttp(http.host) = {}
  <1>. DEFINE a == HostNormalized(socks.host)
              b == HostNormalized(http.host)
  <1>1. socks.host \in Hosts /\ http.host \in Hosts
    BY DEF LocalAddresses
  <1>2. a # b /\ a # "any" /\ b # "any"
    <2>1. Cardinality({a, b}) # 1 /\ "any" \notin {a, b}
      BY DEF ProxyAddressesConflict
    <2>2. Cardinality({a}) = 1
      BY FS_Singleton
    <2>3. a = b => {a, b} = {a}
      OBVIOUS
    <2>. HIDE DEF a, b
    <2>. QED  BY <2>1, <2>2, <2>3
  <1>3. ASSUME NEW address \in ListenedBySsh(socks.host) \cap ListenedByHttp(http.host) PROVE FALSE
    <2>1. HostNormalized(address) = a /\ HostNormalized(address) = b
      BY <1>1, <1>2, <1>3, ListenedIsNormalized
    <2>. QED  BY <1>2, <2>1
  <1>. QED  BY <1>3

-----------------------------------------------------------------------------
(* describeSshError *)

AuthenticationWords == {"Permission denied (", "Too many authentication failures"}
IdentityWords == {"Host key verification failed", "REMOTE HOST IDENTIFICATION HAS CHANGED"}

LEMMA KnownErrorsAre ==
    /\ Len(KnownErrors) = 9 /\ DOMAIN KnownErrors = 1..9
    /\ KnownErrors[1].patterns = AuthenticationWords /\ KnownErrors[1].reason = "authentication"
    /\ KnownErrors[2].patterns = IdentityWords /\ KnownErrors[2].reason = "identity"
    /\ \A i \in 3..9 : KnownErrors[i].reason \notin {"authentication", "identity", ""}
    /\ LastWords \subseteq UNION {KnownErrors[i].patterns : i \in 1..9}
    /\ "" \notin ErrorLines
  <1>1. Len(KnownErrors) = 9 /\ DOMAIN KnownErrors = 1..9
    BY DEF KnownErrors
  <1>2. /\ KnownErrors[1].patterns = AuthenticationWords /\ KnownErrors[1].reason = "authentication"
        /\ KnownErrors[2].patterns = IdentityWords /\ KnownErrors[2].reason = "identity"
    BY DEF KnownErrors, AuthenticationWords, IdentityWords
  <1>3. \A i \in 3..9 : KnownErrors[i].reason \notin {"authentication", "identity", ""}
    <2>. SUFFICES ASSUME NEW i \in 3..9
                  PROVE  KnownErrors[i].reason \notin {"authentication", "identity", ""}
      OBVIOUS
    <2>1. /\ KnownErrors[3].reason = "address" /\ KnownErrors[4].reason = "refused"
          /\ KnownErrors[5].reason = "timeout" /\ KnownErrors[6].reason = "unreachable"
          /\ KnownErrors[7].reason = "busy" /\ KnownErrors[8].reason = "silent"
          /\ KnownErrors[9].reason = "closed"
      BY DEF KnownErrors
    <2>2. i \in {3, 4, 5, 6, 7, 8, 9}
      OBVIOUS
    <2>. QED  BY <2>1, <2>2
  <1>4. /\ KnownErrors[3].patterns = {"Could not resolve hostname"}
        /\ KnownErrors[4].patterns = {"Connection refused"}
        /\ KnownErrors[5].patterns = {"timed out"}
        /\ KnownErrors[6].patterns = {"unreachable"}
        /\ KnownErrors[7].patterns = {"Address already in use", "cannot listen to port"}
        /\ KnownErrors[8].patterns = {"Timeout, server"}
        /\ KnownErrors[9].patterns = {"closed"}
    BY DEF KnownErrors
  <1>5. LastWords \subseteq UNION {KnownErrors[i].patterns : i \in 1..9}
    <2>1. 1 \in 1..9 /\ 2 \in 1..9 /\ 3 \in 1..9 /\ 7 \in 1..9 /\ 8 \in 1..9 /\ 9 \in 1..9
      OBVIOUS
    <2>2. ASSUME NEW line \in LastWords
          PROVE  line \in AuthenticationWords \/ line \in IdentityWords
                     \/ \E i \in {3, 7, 8, 9} : line \in KnownErrors[i].patterns
      BY <1>4 DEF LastWords, AuthenticationWords, IdentityWords
    <2>3. ASSUME NEW line \in LastWords PROVE \E i \in 1..9 : line \in KnownErrors[i].patterns
      BY Zenon, <1>2, <2>1, <2>2
    <2>. QED  BY Zenon, <2>3
  <1>6. "" \notin ErrorLines
    <2>1. \A i \in 1..9 : "" \notin KnownErrors[i].patterns
      <3>. SUFFICES ASSUME NEW i \in 1..9 PROVE "" \notin KnownErrors[i].patterns
        OBVIOUS
      <3>1. i \in {1, 2, 3, 4, 5, 6, 7, 8, 9}
        OBVIOUS
      <3>2. /\ "" \notin KnownErrors[1].patterns /\ "" \notin KnownErrors[2].patterns
            /\ "" \notin KnownErrors[3].patterns /\ "" \notin KnownErrors[4].patterns
            /\ "" \notin KnownErrors[5].patterns /\ "" \notin KnownErrors[6].patterns
            /\ "" \notin KnownErrors[7].patterns /\ "" \notin KnownErrors[8].patterns
            /\ "" \notin KnownErrors[9].patterns
        BY <1>2, <1>4 DEF AuthenticationWords, IdentityWords
      <3>. QED  BY Zenon, <3>1, <3>2
    <2>2. ErrorLines = (UNION {KnownErrors[i].patterns : i \in 1..9}) \cup {"unknown"}
      BY Zenon, <1>1 DEF ErrorLines
    <2>. QED  BY <2>1, <2>2
  <1>. QED  BY <1>1, <1>2, <1>3, <1>5, <1>6

\* findKnownSshError gives the first entry of the list that has a line.
LEMMA KnownIsFirst ==
    ASSUME NEW lines
    PROVE  LET known == FindKnownSshError(lines)
               At(i) == KnownErrors[i].patterns \cap ToSet(lines) # {}
           IN  /\ known = 0 => \A i \in 1..9 : ~At(i)
               /\ known # 0 => known \in 1..9 /\ At(known) /\ \A i \in 1..9 : At(i) => known <= i
  <1>. DEFINE I == {i \in 1..Len(KnownErrors) : KnownErrors[i].patterns \cap ToSet(lines) # {}}
  <1>1. FindKnownSshError(lines) = IF I # {} THEN Min(I) ELSE 0
    BY Zenon DEF FindKnownSshError, SelectInSeq
  <1>2. I = {i \in 1..9 : KnownErrors[i].patterns \cap ToSet(lines) # {}}
    BY Zenon, KnownErrorsAre
  <1>3. I # {} => Min(I) \in I /\ \A j \in I : Min(I) <= j
    <2>1. I \in SUBSET Nat
      BY <1>2
    <2>2. I # {} => \E i \in I : \A j \in I : i <= j
      BY <2>1, Smallest
    <2>. HIDE DEF I
    <2>. QED  BY <2>2 DEF Min
  <1>. DEFINE known == FindKnownSshError(lines)
              At(i) == KnownErrors[i].patterns \cap ToSet(lines) # {}
  <1>4. ASSUME known = 0 PROVE \A i \in 1..9 : ~At(i)
    <2>1. \A n \in I : n # 0
      BY <1>2
    <2>2. I = {}
      <3>. HIDE DEF I
      <3>. QED  BY <1>1, <1>3, <1>4, <2>1
    <2>. QED  BY Zenon, <1>2, <2>2
  <1>5. ASSUME known # 0 PROVE known \in 1..9 /\ At(known) /\ \A i \in 1..9 : At(i) => known <= i
    <2>1. known \in I /\ \A j \in I : known <= j
      <3>. HIDE DEF I
      <3>. QED  BY <1>1, <1>3, <1>5
    <2>. QED  BY Zenon, <1>2, <2>1
  <1>. QED  BY Zenon, <1>4, <1>5

\* A changed key is followed by the refusal that it leads to.
ChangedKeyIsRefused(lines) ==
    \A n \in 1..Len(lines) - 1 :
        lines[n] = "REMOTE HOST IDENTIFICATION HAS CHANGED" =>
            lines[n + 1] = "Host key verification failed"

LEMMA NotTheLast ==
    ASSUME NEW k \in Nat, NEW n \in 1..k, n # k
    PROVE  n \in 1..k - 1 /\ n + 1 \in 1..k
  OBVIOUS

\* Lines of refusals are those of the first two entries, except for the report
\* of a changed key, which is never the last line.
LEMMA FailureIsNamed ==
    ASSUME NEW lines \in Seq(ErrorLines), ChangedKeyIsRefused(lines), Ended(lines)
    PROVE  AuthenticationFailed(lines) <=>
               DescribeSshError(lines) \in {"authentication", "identity"}
  <1>. DEFINE known == FindKnownSshError(lines)
              said == ToSet(lines)
              At(i) == KnownErrors[i].patterns \cap said # {}
  <1>1. Len(lines) \in Nat /\ DOMAIN lines = 1..Len(lines)
    BY LenProperties
  <1>2. /\ known = 0 => \A i \in 1..9 : ~At(i)
        /\ known # 0 => known \in 1..9 /\ At(known) /\ \A i \in 1..9 : At(i) => known <= i
    BY Zenon, KnownIsFirst
  <1>3. lines # <<>> /\ Len(lines) \in 1..Len(lines) /\ lines[Len(lines)] \in LastWords
    <2>1. lines # <<>> /\ lines[Len(lines)] \in LastWords
      BY DEF Ended
    <2>2. Len(lines) # 0
      BY <2>1, EmptySeq
    <2>. QED  BY <1>1, <2>1, <2>2
  <1>4. \A n \in 1..Len(lines) : lines[n] \in said
    BY <1>1 DEF ToSet
  <1>5. \E i \in 1..9 : At(i)
    <2>1. lines[Len(lines)] \in said /\ lines[Len(lines)] \in LastWords
      BY <1>3, <1>4
    <2>2. lines[Len(lines)] \in UNION {KnownErrors[i].patterns : i \in 1..9}
      BY Zenon, <2>1, KnownErrorsAre
    <2>. QED  BY Zenon, <2>1, <2>2
  <1>6. "REMOTE HOST IDENTIFICATION HAS CHANGED" \in said =>
            "Host key verification failed" \in said
    <2>. SUFFICES ASSUME "REMOTE HOST IDENTIFICATION HAS CHANGED" \in said
                  PROVE  "Host key verification failed" \in said
      OBVIOUS
    <2>1. PICK n \in 1..Len(lines) : lines[n] = "REMOTE HOST IDENTIFICATION HAS CHANGED"
      BY <1>1 DEF ToSet
    <2>2. lines[n] \notin LastWords
      BY <2>1 DEF LastWords
    <2>3. n \in 1..Len(lines) - 1 /\ n + 1 \in 1..Len(lines)
      <3>1. n # Len(lines)
        BY Zenon, <1>3, <2>2
      <3>2. Len(lines) \in Nat
        BY Zenon, <1>1
      <3>3. n \in 1..Len(lines)
        BY Zenon, <2>1
      <3>. QED  BY Zenon, <3>1, <3>2, <3>3, NotTheLast
    <2>4. lines[n + 1] = "Host key verification failed"
      BY <2>1, <2>3 DEF ChangedKeyIsRefused
    <2>. QED  BY <1>4, <2>3, <2>4
  <1>7. AuthenticationFailed(lines) <=> At(1) \/ At(2)
    <2>1. KnownErrors[1].patterns = AuthenticationWords /\ KnownErrors[2].patterns = IdentityWords
      BY Zenon, KnownErrorsAre
    <2>. HIDE DEF said
    <2>. QED  BY <1>6, <2>1 DEF AuthenticationFailed, said, AuthenticationWords, IdentityWords
  <1>. HIDE DEF known, said
  <1>8. known \in 1..9 /\ At(known) /\ \A i \in 1..9 : At(i) => known <= i
    BY <1>2, <1>5
  <1>. HIDE DEF At
  <1>9. At(1) \/ At(2) <=> known \in {1, 2}
    BY <1>8
  <1>10. DescribeSshError(lines) = KnownErrors[known].reason
    <2>1. known # 0
      BY <1>8
    <2>. QED  BY <2>1 DEF DescribeSshError, known
  <1>11. KnownErrors[known].reason \in {"authentication", "identity"} <=> known \in {1, 2}
    <2>1. known \in {1, 2} \/ known \in 3..9
      BY <1>8
    <2>2. CASE known \in {1, 2}
      BY <2>2, KnownErrorsAre
    <2>3. CASE known \in 3..9
      <3>1. known \notin {1, 2}
        BY <2>3
      <3>2. KnownErrors[known].reason \notin {"authentication", "identity", ""}
        BY Zenon, <2>3, KnownErrorsAre
      <3>. QED  BY Zenon, <3>1, <3>2
    <2>. QED  BY <2>1, <2>2, <2>3
  <1>. QED  BY <1>7, <1>9, <1>10, <1>11

\* No line is empty, so a failure with lines has a reason in both places.
LEMMA FailureIsShown ==
    ASSUME NEW lines \in Seq(ErrorLines)
    PROVE  DescribeSshError(lines) = "" <=> SummarizeSshError(lines) = ""
  <1>. DEFINE known == FindKnownSshError(lines)
  <1>1. CASE known # 0
    BY <1>1 DEF DescribeSshError, SummarizeSshError
  <1>2. CASE known = 0 /\ lines = <<>>
    BY <1>2 DEF DescribeSshError, SummarizeSshError
  <1>3. CASE known = 0 /\ lines # <<>>
    <2>1. Len(lines) \in 1..Len(lines)
      BY <1>3, EmptySeq, LenProperties
    <2>2. lines[Len(lines)] \in ErrorLines
      BY <2>1, ElementOfSeq
    <2>3. lines[Len(lines)] # ""
      BY <2>2, KnownErrorsAre
    <2>4. DescribeSshError(lines) = lines[Len(lines)] /\ SummarizeSshError(lines) = "unknown"
      BY <1>3 DEF DescribeSshError, SummarizeSshError
    <2>. QED  BY <2>3, <2>4
  <1>. QED  BY <1>1, <1>2, <1>3

-----------------------------------------------------------------------------
(* The specification *)

TextsInv ==
    /\ authority \in Texts
    /\ errorOutput \in Seq(ErrorLines)
    /\ ChangedKeyIsRefused(errorOutput)

LEMMA TextsStayWellFormed == Spec => []TextsInv
  <1>1. Init => TextsInv
    BY DEF Init, Unused, TextsInv, Texts, ChangedKeyIsRefused
  <1>2. TextsInv /\ [Next]_utilitiesVars => TextsInv'
    <2>. SUFFICES ASSUME TextsInv, [Next]_utilitiesVars PROVE TextsInv'
      OBVIOUS
    <2>1. ASSUME NEW piece \in Pieces, SpellAuthority(piece) PROVE TextsInv'
      <3>1. authority \in Seq(Pieces)
        BY DEF TextsInv, Texts
      <3>2. Append(authority, piece) \in Seq(Pieces)
        BY <3>1, AppendProperties
      <3>. QED  BY <2>1, <3>2 DEF SpellAuthority, TextsInv, Texts, ChangedKeyIsRefused
    <2>2. ASSUME NEW socks \in LocalAddresses, NEW http \in LocalAddresses, EnterLocals(socks, http)
          PROVE  TextsInv'
      BY <2>2 DEF EnterLocals, TextsInv, ChangedKeyIsRefused
    <2>3. ASSUME NEW line \in ErrorLines, SshWrites(line) PROVE TextsInv'
      <3>. DEFINE lines == errorOutput
                  next == Append(lines, line)
      <3>1. lines \in Seq(ErrorLines) /\ ChangedKeyIsRefused(lines) /\ MayFollow(lines, line)
        BY <2>3 DEF TextsInv, SshWrites
      <3>2. errorOutput' = next /\ authority' = authority
        BY <2>3 DEF SshWrites
      <3>3. /\ next \in Seq(ErrorLines) /\ Len(next) = Len(lines) + 1
            /\ \A n \in 1..Len(lines) : next[n] = lines[n]
            /\ next[Len(lines) + 1] = line /\ Len(lines) \in Nat
        BY <3>1, AppendProperties, LenProperties
      <3>4. lines # <<>> <=> Len(lines) # 0
        BY <3>1, EmptySeq
      <3>. HIDE DEF next, lines
      <3>5. ASSUME NEW n \in 1..Len(next) - 1, next[n] = "REMOTE HOST IDENTIFICATION HAS CHANGED"
            PROVE  next[n + 1] = "Host key verification failed"
        <4>1. n \in 1..Len(lines) /\ next[n] = lines[n]
          BY <3>3
        <4>2. CASE n = Len(lines)
          <5>1. Len(lines) # 0
            BY <4>1, <4>2
          <5>2. line = "Host key verification failed"
            BY <3>1, <3>4, <3>5, <4>1, <4>2, <5>1 DEF MayFollow
          <5>. QED  BY <3>3, <4>2, <5>2
        <4>3. CASE n # Len(lines)
          <5>1. n \in 1..Len(lines) - 1 /\ n + 1 \in 1..Len(lines)
            BY <3>3, <4>1, <4>3
          <5>2. lines[n + 1] = "Host key verification failed"
            BY <3>1, <3>5, <4>1, <5>1 DEF ChangedKeyIsRefused
          <5>. QED  BY <3>3, <5>1, <5>2
        <4>. QED  BY <4>2, <4>3
      <3>6. ChangedKeyIsRefused(next)
        BY <3>5 DEF ChangedKeyIsRefused
      <3>. QED  BY <3>2, <3>3, <3>6 DEF TextsInv
    <2>4. CASE UNCHANGED utilitiesVars
      BY <2>4 DEF utilitiesVars, TextsInv, ChangedKeyIsRefused
    <2>. QED  BY <2>1, <2>2, <2>3, <2>4 DEF Next
  <1>. QED  BY <1>1, <1>2, PTL DEF Spec

\* parseAuthority and the grammar agree on every authority, of any length: a
\* client is connected to the host and the port it named, or refused.
THEOREM AuthoritiesAreRead == Spec => []AuthoritiesAreParsed
  <1>1. TextsInv => AuthoritiesAreParsed
    BY ParsedByTheGrammar DEF TextsInv, AuthoritiesAreParsed
  <1>. QED  BY <1>1, TextsStayWellFormed, PTL

\* However many lines ssh wrote before it ended, the long delay after a refusal
\* goes with the reason shown, and the menu has one when the notification does.
THEOREM FailuresKeepTheirNames == Spec => []FailuresAreNamed
  <1>1. TextsInv => FailuresAreNamed
    BY FailureIsNamed, FailureIsShown DEF TextsInv, FailuresAreNamed
  <1>. QED  BY <1>1, TextsStayWellFormed, PTL

\* Whatever pair of local proxies is accepted, each is reached by the URL that
\* is copied for it, and they do not want the same port of the same interface.
THEOREM ProxiesWork == Spec => []LocalProxiesWork
  <1>. DEFINE LocalsInv == \/ locals = NoLocals
                           \/ \E socks, http \in LocalAddresses : locals = <<socks, http>>
  <1>1. Init => LocalsInv
    BY DEF Init, Unused
  <1>2. LocalsInv /\ [Next]_utilitiesVars => LocalsInv'
    <2>1. ASSUME NEW socks \in LocalAddresses, NEW http \in LocalAddresses, EnterLocals(socks, http)
          PROVE  LocalsInv'
      BY <2>1 DEF EnterLocals
    <2>. QED  BY <2>1 DEF Next, SpellAuthority, SshWrites, utilitiesVars
  <1>3. LocalsInv => LocalProxiesWork
    <2>. SUFFICES ASSUME NEW socks \in LocalAddresses, NEW http \in LocalAddresses,
                         locals = <<socks, http>>
                  PROVE  LocalProxiesWork
      BY DEF LocalProxiesWork
    <2>1. UrlLeadsTo(socks, ListenedBySsh(socks.host)) /\ UrlLeadsTo(http, ListenedByHttp(http.host))
      <3>1. socks.host \in Hosts /\ http.host \in Hosts
        BY DEF LocalAddresses
      <3>. QED  BY Zenon, <3>1, UrlIsRead, HostIsReached DEF UrlLeadsTo
    <2>2. \/ socks.port # http.port \/ ProxyAddressesConflict(socks, http)
          \/ ListenedBySsh(socks.host) \cap ListenedByHttp(http.host) = {}
      BY Zenon, OthersDoNotOverlap
    <2>3. locals[1] = socks /\ locals[2] = http
      OBVIOUS
    <2>. QED  BY Zenon, <2>1, <2>2, <2>3 DEF LocalProxiesWork
  <1>. QED  BY <1>1, <1>2, <1>3, PTL DEF Spec
=============================================================================
