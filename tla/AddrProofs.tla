----------------------------- MODULE AddrProofs -----------------------------
(***************************************************************************)
(* Texts of every length: the split at the last colon loses nothing, and   *)
(* the name in the log, read again, leads to the same address and port.    *)
(***************************************************************************)
EXTENDS Addr, SequenceTheorems, FiniteSetTheorems, WellFoundedInduction, TLAPS

\* A set of natural numbers that has a member and a bound has a greatest member.
LEMMA Greatest ==
  ASSUME NEW n \in Nat, NEW T, T \subseteq 0 .. n, T # {}
  PROVE  \E c \in T : \A d \in T : d <= c
<1> DEFINE R == OpToRel(<, Nat)
           M == {n - c : c \in T}
<1>1. IsWellFoundedOn(R, Nat)
  BY NatLessThanWellFounded
<1>2. M \subseteq Nat /\ M # {}
  <2>1. ASSUME NEW d \in T PROVE n - d \in Nat
    <3>1. d \in 0 .. n
      OBVIOUS
    <3> QED  BY <3>1
  <2> QED  BY <2>1
<1>3. \E x \in M : \A y \in M : ~(<<y, x>> \in R)
  <2> HIDE DEF R, M
  <2> QED  BY <1>1, <1>2, WFMin
<1>4. PICK c \in T : \A y \in M : ~(<<y, n - c>> \in R)
  BY <1>3
<1>5. ASSUME NEW d \in T PROVE d <= c
  <2>1. n - d \in M /\ n - d \in Nat /\ n - c \in Nat
    OBVIOUS
  <2>2. ~(n - d < n - c)
    BY <2>1, <1>4 DEF OpToRel
  <2> QED  BY <2>2
<1> QED  BY <1>5

LEMMA TextProperties ==
  ASSUME NEW u \in Text
  PROVE  /\ Len(u) \in Nat
         /\ \A i \in 1 .. Len(u) : u[i] \in Chars
         /\ Positions(u) \subseteq 0 .. Len(u)
         /\ Colons(u) \subseteq 0 .. Len(u)
         /\ \A i \in Positions(u) : At(u, i) = u[i + 1] /\ At(u, i) \in Chars
<1>1. Len(u) \in Nat /\ \A i \in 1 .. Len(u) : u[i] \in Chars
  BY LenProperties, ElementOfSeq DEF Text
<1>2. \A i \in Positions(u) : i + 1 \in 1 .. Len(u)
  BY <1>1 DEF Positions
<1>3. Positions(u) \subseteq 0 .. Len(u)
  BY <1>1 DEF Positions
<1> QED  BY <1>1, <1>2, <1>3 DEF At, Colons

\* The last colon is one, and none is behind it.
LEMMA LastColonIsLast ==
  ASSUME NEW u \in Text, Colons(u) # {}
  PROVE  /\ LastColon(u) \in Colons(u)
         /\ LastColon(u) \in 0 .. Len(u) - 1 /\ u[LastColon(u) + 1] = ":"
         /\ \A d \in Colons(u) : d <= LastColon(u)
<1>1. \E c \in Colons(u) : \A d \in Colons(u) : d <= c
  BY TextProperties, Greatest
<1>2. LastColon(u) \in Colons(u) /\ \A d \in Colons(u) : d <= LastColon(u)
  BY <1>1 DEF LastColon
<1> QED  BY <1>2 DEF Colons, Positions, At

\* A colon with none behind it is the last.
LEMMA LastColonIs ==
  ASSUME NEW u \in Text, NEW c \in 0 .. Len(u) - 1, u[c + 1] = ":",
         \A d \in c + 2 .. Len(u) : u[d] # ":"
  PROVE  Colons(u) # {} /\ LastColon(u) = c
<1>1. c \in Colons(u)
  BY DEF Colons, Positions, At
<1>2. ASSUME NEW d \in Colons(u) PROVE d <= c
  <2>1. d \in 0 .. Len(u) - 1 /\ u[d + 1] = ":"
    BY DEF Colons, Positions, At
  <2>2. Len(u) \in Nat
    BY TextProperties
  <2> QED  BY <2>1, <2>2
<1>3. LastColon(u) \in Colons(u) /\ c <= LastColon(u)
  BY <1>1, LastColonIsLast
<1>4. LastColon(u) \in Int
  BY <1>3, LastColonIsLast
<1> QED  BY <1>1, <1>2, <1>3, <1>4

\* What a part of a text and the end of a text are.
LEMMA PartProperties ==
  ASSUME NEW u \in Text, NEW i \in 0 .. Len(u), NEW n \in 0 .. Len(u) - i
  PROVE  /\ Part(u, i, n) \in Text /\ Len(Part(u, i, n)) = n
         /\ \A k \in 1 .. n : Part(u, i, n)[k] = u[i + k]
<1>1. Len(u) \in Nat /\ i \in Nat /\ n \in Nat
  BY TextProperties
<1>2. \A k \in i + 1 .. i + n : u[k] \in Chars
  BY <1>1, TextProperties
<1>3. /\ SubSeq(u, i + 1, i + n) \in Seq(Chars)
      /\ Len(SubSeq(u, i + 1, i + n)) = IF i + 1 <= i + n THEN i + n - (i + 1) + 1 ELSE 0
      /\ \A k \in 1 .. i + n - (i + 1) + 1 : SubSeq(u, i + 1, i + n)[k] = u[i + 1 + k - 1]
  BY <1>1, <1>2, SubSeqProperties
<1>4. /\ i + n - (i + 1) + 1 = n /\ (i + 1 <= i + n <=> n # 0)
      /\ \A k \in 1 .. n : i + 1 + k - 1 = i + k
  BY <1>1
<1>5. Len(SubSeq(u, i + 1, i + n)) = n
  BY <1>3, <1>4
<1>6. ASSUME NEW k \in 1 .. n PROVE SubSeq(u, i + 1, i + n)[k] = u[i + k]
  <2>1. SubSeq(u, i + 1, i + n)[k] = u[i + 1 + k - 1]
    BY <1>3, <1>4
  <2> QED  BY <2>1, <1>4
<1> QED  BY <1>3, <1>5, <1>6 DEF Part, Text

LEMMA Tail0Properties ==
  ASSUME NEW u \in Text, NEW i \in 0 .. Len(u)
  PROVE  /\ Tail0(u, i) \in Text /\ Len(Tail0(u, i)) = Len(u) - i
         /\ \A k \in 1 .. Len(u) - i : Tail0(u, i)[k] = u[i + k]
<1> DEFINE n == Len(u) - i
<1>1. Len(u) \in Nat /\ i \in Nat /\ i + n = Len(u) /\ n \in 0 .. Len(u) - i
  BY TextProperties
<1>2. Tail0(u, i) = Part(u, i, n)
  BY <1>1 DEF Tail0, Part
<1>3. /\ Part(u, i, n) \in Text /\ Len(Part(u, i, n)) = n
      /\ \A k \in 1 .. n : Part(u, i, n)[k] = u[i + k]
  <2> HIDE DEF n
  <2> QED  BY <1>1, PartProperties
<1> QED  BY <1>2, <1>3

LEMMA Marks ==
  /\ <<":">> \in Text /\ Len(<<":">>) = 1 /\ <<":">>[1] = ":"
  /\ <<"[">> \in Text /\ Len(<<"[">>) = 1 /\ <<"[">>[1] = "["
  /\ <<"]", ":">> \in Text /\ Len(<<"]", ":">>) = 2
  /\ <<"]", ":">>[1] = "]" /\ <<"]", ":">>[2] = ":"
BY AddrAssumption DEF Text

LEMMA JoinedProperties ==
  ASSUME NEW h \in Text, NEW p \in Text
  PROVE  /\ Joined(h, p) \in Text /\ Len(Joined(h, p)) = Len(h) + 1 + Len(p)
         /\ \A i \in 1 .. Len(h) : Joined(h, p)[i] = h[i]
         /\ Joined(h, p)[Len(h) + 1] = ":"
         /\ \A i \in 1 .. Len(p) : Joined(h, p)[Len(h) + 1 + i] = p[i]
<1> DEFINE a == h \o <<":">>
<1>1. Len(h) \in Nat /\ Len(p) \in Nat
  BY TextProperties
<1>2. /\ a \in Text /\ Len(a) = Len(h) + 1
      /\ \A i \in 1 .. Len(h) + 1 : a[i] = IF i <= Len(h) THEN h[i] ELSE <<":">>[i - Len(h)]
  BY Marks, ConcatProperties DEF Text
<1>3. /\ a \o p \in Text /\ Len(a \o p) = Len(a) + Len(p)
      /\ \A i \in 1 .. Len(a) + Len(p) : (a \o p)[i] = IF i <= Len(a) THEN a[i] ELSE p[i - Len(a)]
  <2>1. a \in Seq(Chars) /\ p \in Seq(Chars)
    BY <1>2 DEF Text
  <2> HIDE DEF a
  <2> QED  BY <2>1, ConcatProperties DEF Text
<1>4. Joined(h, p) = a \o p
  BY DEF Joined
<1> HIDE DEF a
<1>5. \A i \in 1 .. Len(h) : Joined(h, p)[i] = h[i]
  BY <1>1, <1>2, <1>3, <1>4
<1>6. Joined(h, p)[Len(h) + 1] = ":"
  <2>1. Len(h) + 1 \in 1 .. Len(a) + Len(p) /\ Len(h) + 1 - Len(h) = 1 /\ ~(Len(h) + 1 <= Len(h))
    BY <1>1, <1>2
  <2> QED  BY <2>1, <1>1, <1>2, <1>3, <1>4, Marks
<1>7. \A i \in 1 .. Len(p) : Joined(h, p)[Len(h) + 1 + i] = p[i]
  BY <1>1, <1>2, <1>3, <1>4
<1> QED  BY <1>1, <1>2, <1>3, <1>4, <1>5, <1>6, <1>7

LEMMA JoinedInProperties ==
  ASSUME NEW h \in Text, NEW p \in Text
  PROVE  /\ JoinedIn(h, p) \in Text /\ Len(JoinedIn(h, p)) = Len(h) + 3 + Len(p)
         /\ JoinedIn(h, p)[1] = "["
         /\ \A i \in 1 .. Len(h) : JoinedIn(h, p)[1 + i] = h[i]
         /\ JoinedIn(h, p)[Len(h) + 2] = "]" /\ JoinedIn(h, p)[Len(h) + 3] = ":"
         /\ \A i \in 1 .. Len(p) : JoinedIn(h, p)[Len(h) + 3 + i] = p[i]
<1> DEFINE a == <<"[">> \o h
           b == a \o <<"]", ":">>
<1>1. Len(h) \in Nat /\ Len(p) \in Nat
  BY TextProperties
<1>2. /\ a \in Text /\ Len(a) = 1 + Len(h)
      /\ \A i \in 1 .. 1 + Len(h) : a[i] = IF i <= 1 THEN <<"[">>[i] ELSE h[i - 1]
  BY Marks, ConcatProperties DEF Text
<1>3. /\ b \in Text /\ Len(b) = Len(a) + 2
      /\ \A i \in 1 .. Len(a) + 2 : b[i] = IF i <= Len(a) THEN a[i] ELSE <<"]", ":">>[i - Len(a)]
  <2> HIDE DEF a
  <2> QED  BY <1>2, Marks, ConcatProperties DEF Text
<1>4. /\ b \o p \in Text /\ Len(b \o p) = Len(b) + Len(p)
      /\ \A i \in 1 .. Len(b) + Len(p) : (b \o p)[i] = IF i <= Len(b) THEN b[i] ELSE p[i - Len(b)]
  <2>1. b \in Seq(Chars) /\ p \in Seq(Chars)
    BY <1>3 DEF Text
  <2> HIDE DEF b
  <2> QED  BY <2>1, ConcatProperties DEF Text
<1>5. JoinedIn(h, p) = b \o p
  BY DEF JoinedIn
<1> HIDE DEF a, b
<1>6. JoinedIn(h, p)[1] = "["
  <2>1. 1 \in 1 .. Len(b) + Len(p) /\ 1 \in 1 .. Len(a) + 2 /\ 1 \in 1 .. 1 + Len(h)
        /\ 1 <= Len(b) /\ 1 <= Len(a)
    BY <1>1, <1>2, <1>3
  <2> QED  BY <2>1, <1>2, <1>3, <1>4, <1>5, Marks
<1>7. ASSUME NEW i \in 1 .. Len(h) PROVE JoinedIn(h, p)[1 + i] = h[i]
  <2>1. 1 + i \in 1 .. Len(b) + Len(p) /\ 1 + i \in 1 .. Len(a) + 2 /\ 1 + i \in 1 .. 1 + Len(h)
        /\ 1 + i <= Len(b) /\ 1 + i <= Len(a) /\ ~(1 + i <= 1) /\ 1 + i - 1 = i
    BY <1>1, <1>2, <1>3
  <2> QED  BY <2>1, <1>2, <1>3, <1>4, <1>5
<1>8. JoinedIn(h, p)[Len(h) + 2] = "]" /\ JoinedIn(h, p)[Len(h) + 3] = ":"
  <2>1. ASSUME NEW k \in 1 .. 2
        PROVE  JoinedIn(h, p)[Len(h) + 1 + k] = <<"]", ":">>[k]
    <3>1. /\ Len(h) + 1 + k \in 1 .. Len(b) + Len(p) /\ Len(h) + 1 + k \in 1 .. Len(a) + 2
          /\ Len(h) + 1 + k <= Len(b) /\ ~(Len(h) + 1 + k <= Len(a))
          /\ Len(h) + 1 + k - Len(a) = k
      BY <1>1, <1>2, <1>3
    <3> QED  BY <3>1, <1>3, <1>4, <1>5
  <2>2. Len(h) + 1 + 1 = Len(h) + 2 /\ Len(h) + 1 + 2 = Len(h) + 3 /\ 1 \in 1 .. 2 /\ 2 \in 1 .. 2
    BY <1>1
  <2> QED  BY <2>1, <2>2, Marks
<1>9. ASSUME NEW i \in 1 .. Len(p) PROVE JoinedIn(h, p)[Len(h) + 3 + i] = p[i]
  <2>1. /\ Len(h) + 3 + i \in 1 .. Len(b) + Len(p)
        /\ ~(Len(h) + 3 + i <= Len(b)) /\ Len(h) + 3 + i - Len(b) = i
    BY <1>1, <1>2, <1>3
  <2> QED  BY <2>1, <1>4, <1>5
<1>10. Len(JoinedIn(h, p)) = Len(h) + 3 + Len(p)
  BY <1>1, <1>2, <1>3, <1>4, <1>5
<1> QED  BY <1>4, <1>5, <1>6, <1>7, <1>8, <1>9, <1>10

\* A host in brackets with a port is split into the two.
LEMMA SplitsBracketed ==
  ASSUME NEW h \in Text, NEW p \in Text, Colons(p) = {},
         NEW u, u = JoinedIn(h, p)
  PROVE  /\ Colons(u) # {} /\ Bracketed(u) /\ Closed(u)
         /\ HostCopy(u).text = h /\ Tail0(u, PortAt(u)) = p
<1> DEFINE c == Len(h) + 2
<1>1. Len(h) \in Nat /\ Len(p) \in Nat /\ c \in Nat
  BY TextProperties
<1>2. /\ u \in Text /\ Len(u) = Len(h) + 3 + Len(p)
      /\ u[1] = "[" /\ u[c] = "]" /\ u[c + 1] = ":"
      /\ \A i \in 1 .. Len(h) : u[1 + i] = h[i]
      /\ \A i \in 1 .. Len(p) : u[c + 1 + i] = p[i]
  <2>1. c + 1 = Len(h) + 3
    BY <1>1
  <2>2. /\ JoinedIn(h, p) \in Text /\ Len(JoinedIn(h, p)) = Len(h) + 3 + Len(p)
        /\ JoinedIn(h, p)[1] = "["
        /\ \A i \in 1 .. Len(h) : JoinedIn(h, p)[1 + i] = h[i]
        /\ JoinedIn(h, p)[Len(h) + 2] = "]" /\ JoinedIn(h, p)[Len(h) + 3] = ":"
        /\ \A i \in 1 .. Len(p) : JoinedIn(h, p)[Len(h) + 3 + i] = p[i]
    BY JoinedInProperties
  <2> QED  BY <2>1, <2>2
<1> HIDE DEF c
<1>3. \A d \in c + 2 .. Len(u) : u[d] # ":"
  <2> SUFFICES ASSUME NEW d \in c + 2 .. Len(u) PROVE u[d] # ":"
    OBVIOUS
  <2>1. d - c - 1 \in 1 .. Len(p) /\ c + 1 + (d - c - 1) = d /\ d - c - 2 \in 0 .. Len(p) - 1
        /\ d - c - 2 + 1 = d - c - 1
    BY <1>1, <1>2 DEF c
  <2>2. u[d] = p[d - c - 1]
    BY <2>1, <1>2
  <2> QED  BY <2>1, <2>2 DEF Colons, Positions, At
<1>4. Colons(u) # {} /\ LastColon(u) = c
  <2>1. c \in 0 .. Len(u) - 1
    BY <1>1, <1>2 DEF c
  <2> QED  BY <2>1, <1>2, <1>3, LastColonIs
<1>5. Bracketed(u) /\ Closed(u)
  <2>1. 0 + 1 = 1 /\ c - 1 + 1 = c
    BY <1>1
  <2> QED  BY <2>1, <1>2, <1>4 DEF Bracketed, Closed, At
<1>6. HostCopy(u).text = h
  <2>1. HostCopy(u).text = Part(u, 1, Len(h))
    <3>1. c - 2 = Len(h)
      BY <1>1 DEF c
    <3> QED  BY <3>1, <1>4, <1>5 DEF HostCopy, Copy
  <2>2. /\ Part(u, 1, Len(h)) \in Text /\ Len(Part(u, 1, Len(h))) = Len(h)
        /\ \A k \in 1 .. Len(h) : Part(u, 1, Len(h))[k] = u[1 + k]
    <3>1. 1 \in 0 .. Len(u) /\ Len(h) \in 0 .. Len(u) - 1
      BY <1>1, <1>2
    <3> QED  BY <3>1, <1>2, PartProperties
  <2>3. Part(u, 1, Len(h)) = h
    <3>1. \A k \in 1 .. Len(h) : Part(u, 1, Len(h))[k] = h[k]
      BY <2>2, <1>2
    <3> QED  BY <2>2, <3>1, SeqEqual DEF Text
  <2> QED  BY <2>1, <2>3
<1>7. Tail0(u, PortAt(u)) = p
  <2>1. PortAt(u) = c + 1 /\ c + 1 \in 0 .. Len(u) /\ Len(u) - (c + 1) = Len(p)
    BY <1>1, <1>2, <1>4 DEF PortAt, c
  <2>2. /\ Tail0(u, c + 1) \in Text /\ Len(Tail0(u, c + 1)) = Len(p)
        /\ \A k \in 1 .. Len(p) : Tail0(u, c + 1)[k] = u[c + 1 + k]
    <3>1. u \in Text /\ c + 1 \in 0 .. Len(u)
      BY <2>1, <1>2
    <3>2. /\ Tail0(u, c + 1) \in Text /\ Len(Tail0(u, c + 1)) = Len(u) - (c + 1)
          /\ \A k \in 1 .. Len(u) - (c + 1) : Tail0(u, c + 1)[k] = u[c + 1 + k]
      BY <3>1, Tail0Properties
    <3> QED  BY <2>1, <3>2
  <2>3. \A k \in 1 .. Len(p) : Tail0(u, c + 1)[k] = p[k]
    BY <2>2, <1>2
  <2> QED  BY <2>1, <2>2, <2>3, SeqEqual DEF Text
<1> QED  BY <1>4, <1>5, <1>6, <1>7

\* So is a host that does not begin with a bracket.
LEMMA SplitsPlain ==
  ASSUME NEW h \in Text, h # <<>> => h[1] # "[", NEW p \in Text, Colons(p) = {},
         NEW u, u = Joined(h, p)
  PROVE  /\ Colons(u) # {} /\ ~Bracketed(u)
         /\ HostCopy(u).text = h /\ Tail0(u, PortAt(u)) = p
<1> DEFINE c == Len(h)
<1>1. c \in Nat /\ Len(p) \in Nat
  BY TextProperties
<1>2. /\ u \in Text /\ Len(u) = c + 1 + Len(p)
      /\ u[c + 1] = ":"
      /\ \A i \in 1 .. c : u[i] = h[i]
      /\ \A i \in 1 .. Len(p) : u[c + 1 + i] = p[i]
  BY JoinedProperties
<1>3. u[1] # "["
  <2>1. CASE c = 0
    BY <2>1, <1>2
  <2>2. CASE c # 0
    <3>1. h # <<>> /\ 1 \in 1 .. c
      BY <2>2, <1>1, EmptySeq
    <3> QED  BY <3>1, <1>2
  <2> QED  BY <2>1, <2>2
<1> HIDE DEF c
<1>4. \A d \in c + 2 .. Len(u) : u[d] # ":"
  <2> SUFFICES ASSUME NEW d \in c + 2 .. Len(u) PROVE u[d] # ":"
    OBVIOUS
  <2>1. d - c - 1 \in 1 .. Len(p) /\ c + 1 + (d - c - 1) = d /\ d - c - 2 \in 0 .. Len(p) - 1
        /\ d - c - 2 + 1 = d - c - 1
    BY <1>1, <1>2
  <2>2. u[d] = p[d - c - 1]
    BY <2>1, <1>2
  <2> QED  BY <2>1, <2>2 DEF Colons, Positions, At
<1>5. Colons(u) # {} /\ LastColon(u) = c
  <2>1. c \in 0 .. Len(u) - 1
    BY <1>1, <1>2
  <2> QED  BY <2>1, <1>2, <1>4, LastColonIs
<1>6. ~Bracketed(u)
  BY <1>3 DEF Bracketed, At
<1>7. HostCopy(u).text = h
  <2>1. HostCopy(u).text = Part(u, 0, c)
    BY <1>5, <1>6 DEF HostCopy, Copy
  <2>2. /\ Part(u, 0, c) \in Text /\ Len(Part(u, 0, c)) = c
        /\ \A k \in 1 .. c : Part(u, 0, c)[k] = u[0 + k]
    <3>1. 0 \in 0 .. Len(u) /\ c \in 0 .. Len(u) - 0
      BY <1>1, <1>2
    <3> QED  BY <3>1, <1>2, PartProperties
  <2>3. \A k \in 1 .. c : Part(u, 0, c)[k] = h[k]
    BY <2>2, <1>1, <1>2
  <2> QED  BY <2>1, <2>2, <2>3, SeqEqual DEF Text, c
<1>8. Tail0(u, PortAt(u)) = p
  <2>1. PortAt(u) = c + 1 /\ c + 1 \in 0 .. Len(u) /\ Len(u) - (c + 1) = Len(p)
    BY <1>1, <1>2, <1>5 DEF PortAt
  <2>2. /\ Tail0(u, c + 1) \in Text /\ Len(Tail0(u, c + 1)) = Len(p)
        /\ \A k \in 1 .. Len(p) : Tail0(u, c + 1)[k] = u[c + 1 + k]
    <3>1. u \in Text /\ c + 1 \in 0 .. Len(u)
      BY <2>1, <1>2
    <3>2. /\ Tail0(u, c + 1) \in Text /\ Len(Tail0(u, c + 1)) = Len(u) - (c + 1)
          /\ \A k \in 1 .. Len(u) - (c + 1) : Tail0(u, c + 1)[k] = u[c + 1 + k]
      BY <3>1, Tail0Properties
    <3> QED  BY <2>1, <3>2
  <2>3. \A k \in 1 .. Len(p) : Tail0(u, c + 1)[k] = p[k]
    BY <2>2, <1>2
  <2> QED  BY <2>1, <2>2, <2>3, SeqEqual DEF Text
<1> QED  BY <1>5, <1>6, <1>7, <1>8

\* What a text with a colon is split into, put together again, is the text.
LEMMA SplitJoins ==
  ASSUME NEW u \in Text, Colons(u) # {}, Bracketed(u) => Closed(u)
  PROVE  /\ HostCopy(u).text \in Text /\ HostCopy(u).size \in Nat /\ Fits(HostCopy(u))
         /\ PortAt(u) \in 0 .. Len(u)
         /\ Colons(Tail0(u, PortAt(u))) = {}
         /\ u = IF Bracketed(u) THEN JoinedIn(HostCopy(u).text, Tail0(u, PortAt(u)))
                                ELSE Joined(HostCopy(u).text, Tail0(u, PortAt(u)))
<1> DEFINE c == LastColon(u)
           h == HostCopy(u).text
           p == Tail0(u, PortAt(u))
<1>1. /\ Len(u) \in Nat /\ c \in 0 .. Len(u) - 1 /\ u[c + 1] = ":"
      /\ \A d \in Colons(u) : d <= c
  BY TextProperties, LastColonIsLast
<1> HIDE DEF c
<1>2. PortAt(u) = c + 1 /\ c + 1 \in 0 .. Len(u)
  BY <1>1 DEF PortAt, c
<1>3. /\ p \in Text /\ Len(p) = Len(u) - (c + 1)
      /\ \A k \in 1 .. Len(p) : p[k] = u[c + 1 + k]
  <2>1. /\ Tail0(u, c + 1) \in Text /\ Len(Tail0(u, c + 1)) = Len(u) - (c + 1)
        /\ \A k \in 1 .. Len(u) - (c + 1) : Tail0(u, c + 1)[k] = u[c + 1 + k]
    BY <1>2, Tail0Properties
  <2> QED  BY <2>1, <1>2
<1>4. Colons(p) = {}
  <2> SUFFICES ASSUME NEW i \in Colons(p) PROVE FALSE
    OBVIOUS
  <2>1. i \in 0 .. Len(p) - 1 /\ p[i + 1] = ":"
    BY DEF Colons, Positions, At
  <2>2. i + 1 \in 1 .. Len(p) /\ c + 1 + i \in 0 .. Len(u) - 1 /\ c + 1 + (i + 1) = c + 1 + i + 1
    BY <2>1, <1>1, <1>3
  <2>3. u[c + 1 + i + 1] = ":"
    BY <2>1, <2>2, <1>3
  <2>4. c + 1 + i \in Colons(u)
    BY <2>2, <2>3 DEF Colons, Positions, At
  <2> QED  BY <2>1, <2>2, <2>4, <1>1
<1>5. CASE Bracketed(u)
  <2>1. u[1] = "[" /\ u[c] = "]"
    <3>1. 0 + 1 = 1 /\ c - 1 + 1 = c
      BY <1>1
    <3> QED  BY <3>1, <1>5 DEF Bracketed, Closed, At, c
  <2>2. c \in 2 .. Len(u) - 1
    <3>1. c # 0
      BY <1>1, <2>1
    <3>2. c # 1
      BY <2>1
    <3> QED  BY <3>1, <3>2, <1>1
  <2>3. HostCopy(u) = [size |-> c - 1, text |-> Part(u, 1, c - 2)]
    BY <1>5 DEF HostCopy, Copy, c
  <2>4. /\ Part(u, 1, c - 2) \in Text /\ Len(Part(u, 1, c - 2)) = c - 2
        /\ \A k \in 1 .. c - 2 : Part(u, 1, c - 2)[k] = u[1 + k]
    <3>1. 1 \in 0 .. Len(u) /\ c - 2 \in 0 .. Len(u) - 1
      BY <1>1, <2>2
    <3> QED  BY <3>1, PartProperties
  <2>5. /\ h \in Text /\ Len(h) = c - 2 /\ HostCopy(u).size = c - 1
        /\ \A k \in 1 .. c - 2 : h[k] = u[1 + k]
    BY <2>3, <2>4
  <2> HIDE DEF h, p
  <2>6. u = JoinedIn(h, p)
    <3>1. /\ JoinedIn(h, p) \in Text /\ Len(JoinedIn(h, p)) = Len(h) + 3 + Len(p)
          /\ JoinedIn(h, p)[1] = "["
          /\ \A i \in 1 .. Len(h) : JoinedIn(h, p)[1 + i] = h[i]
          /\ JoinedIn(h, p)[Len(h) + 2] = "]" /\ JoinedIn(h, p)[Len(h) + 3] = ":"
          /\ \A i \in 1 .. Len(p) : JoinedIn(h, p)[Len(h) + 3 + i] = p[i]
      BY <1>3, <2>5, JoinedInProperties
    <3>2. /\ Len(JoinedIn(h, p)) = Len(u) /\ Len(h) + 2 = c /\ Len(h) + 3 = c + 1
      BY <3>1, <1>1, <1>3, <2>2, <2>5
    <3>3. ASSUME NEW i \in 1 .. Len(u) PROVE JoinedIn(h, p)[i] = u[i]
      <4>1. CASE i = 1
        BY <4>1, <3>1, <2>1
      <4>2. CASE i \in 2 .. c - 1
        <5>1. i - 1 \in 1 .. c - 2 /\ 1 + (i - 1) = i
          BY <4>2, <2>2
        <5> QED  BY <5>1, <3>1, <2>5
      <4>3. CASE i = c
        BY <4>3, <3>1, <3>2, <2>1
      <4>4. CASE i = c + 1
        BY <4>4, <3>1, <3>2, <1>1
      <4>5. CASE i \in c + 2 .. Len(u)
        <5>1. i - (c + 1) \in 1 .. Len(p) /\ c + 1 + (i - (c + 1)) = i
          BY <4>5, <1>1, <1>3
        <5>2. JoinedIn(h, p)[Len(h) + 3 + (i - (c + 1))] = p[i - (c + 1)]
          BY <5>1, <3>1
        <5>3. p[i - (c + 1)] = u[c + 1 + (i - (c + 1))]
          BY <5>1, <1>3
        <5> QED  BY <5>1, <5>2, <5>3, <3>2
      <4> QED  BY <4>1, <4>2, <4>3, <4>4, <4>5, <2>2
    <3> QED  BY <3>1, <3>2, <3>3, SeqEqual DEF Text
  <2>7. HostCopy(u).text = h /\ Tail0(u, PortAt(u)) = p
    BY DEF h, p
  <2>8. Fits(HostCopy(u)) /\ HostCopy(u).size \in Nat
    BY <2>2, <2>5, <2>7 DEF Fits
  <2> QED  BY <1>2, <1>4, <1>5, <2>5, <2>6, <2>7, <2>8
<1>6. CASE ~Bracketed(u)
  <2>1. HostCopy(u) = [size |-> c + 1, text |-> Part(u, 0, c)]
    BY <1>6 DEF HostCopy, Copy, c
  <2>2. /\ Part(u, 0, c) \in Text /\ Len(Part(u, 0, c)) = c
        /\ \A k \in 1 .. c : Part(u, 0, c)[k] = u[0 + k]
    <3>1. 0 \in 0 .. Len(u) /\ c \in 0 .. Len(u) - 0
      BY <1>1
    <3> QED  BY <3>1, PartProperties
  <2>3. /\ h \in Text /\ Len(h) = c /\ HostCopy(u).size = c + 1
        /\ \A k \in 1 .. c : h[k] = u[k]
    <3>1. \A k \in 1 .. c : 0 + k = k
      BY <1>1
    <3> QED  BY <2>1, <2>2, <3>1
  <2> HIDE DEF h, p
  <2>4. u = Joined(h, p)
    <3>1. /\ Joined(h, p) \in Text /\ Len(Joined(h, p)) = Len(h) + 1 + Len(p)
          /\ \A i \in 1 .. Len(h) : Joined(h, p)[i] = h[i]
          /\ Joined(h, p)[Len(h) + 1] = ":"
          /\ \A i \in 1 .. Len(p) : Joined(h, p)[Len(h) + 1 + i] = p[i]
      BY <1>3, <2>3, JoinedProperties
    <3>2. Len(Joined(h, p)) = Len(u)
      BY <3>1, <1>1, <1>3, <2>3
    <3>3. ASSUME NEW i \in 1 .. Len(u) PROVE Joined(h, p)[i] = u[i]
      <4>1. CASE i \in 1 .. c
        BY <4>1, <3>1, <2>3
      <4>2. CASE i = c + 1
        BY <4>2, <3>1, <2>3, <1>1
      <4>3. CASE i \in c + 2 .. Len(u)
        <5>1. i - (c + 1) \in 1 .. Len(p) /\ c + 1 + (i - (c + 1)) = i
          BY <4>3, <1>1, <1>3
        <5> QED  BY <5>1, <3>1, <2>3, <1>3, ZenonT(30)
      <4> QED  BY <4>1, <4>2, <4>3, <1>1
    <3> QED  BY <3>1, <3>2, <3>3, SeqEqual DEF Text
  <2>5. HostCopy(u).text = h /\ Tail0(u, PortAt(u)) = p
    BY DEF h, p
  <2>6. Fits(HostCopy(u)) /\ HostCopy(u).size \in Nat
    BY <1>1, <2>3, <2>5 DEF Fits
  <2> QED  BY <1>2, <1>4, <1>6, <2>3, <2>4, <2>5, <2>6
<1> QED  BY <1>5, <1>6

-----------------------------------------------------------------------------
(* The invariant *)

\* What is looked up is what the text was split into.
Split ==
  IF Colons(url) = {}
  THEN host = None /\ port = 0
  ELSE (Bracketed(url) => Closed(url)) /\ host = HostCopy(url) /\ port = PortAt(url)

\* The name is made of a numeric address and the port.
Named ==
  \/ family = "inet" /\ ip \in Inet /\ name.text = Joined(ip, PortText)
  \/ family = "inet6" /\ ip \in Inet6 /\ name.text = JoinedIn(ip, PortText)

\* What there is to free before each step.
Held ==
  /\ pc = "resolve" => held = {}
  /\ pc = "lookup" => held \subseteq {"host"}
  /\ pc = "format" => held = {"answer"}

AddrInv ==
  /\ TypeOK /\ MemoryInOrder /\ Held
  /\ pc = "resolve" => host = None /\ port = 0
  /\ pc \in {"lookup", "format"} => Split
  /\ pc = "invalid" => Colons(url) # {} /\ Bracketed(url) /\ ~Closed(url)
  /\ pc = "format" /\ family = "inet" => ip \in Inet
  /\ pc = "format" /\ family = "inet6" => ip \in Inet6
  /\ pc = "done" /\ family \in {"inet", "inet6"} => Colons(PortText) = {} /\ Named

\* Split in two or not, the text of the port has no colon.
LEMMA PortHasNoColon ==
  ASSUME TypeOK, Split
  PROVE  PortText \in Text /\ Colons(PortText) = {}
<1>1. url \in Text /\ port \in 0 .. Len(url)
  BY DEF TypeOK
<1>2. PortText \in Text
  BY <1>1, Tail0Properties DEF PortText
<1>3. CASE Colons(url) = {}
  <2>1. SubSeq(url, 1, Len(url)) = url
    BY <1>1, SubSeqFull DEF Text
  <2>2. PortText = url
    BY <1>3, <2>1 DEF Split, PortText, Tail0
  <2> QED  BY <1>2, <1>3, <2>2
<1>4. CASE Colons(url) # {}
  <2>1. PortText = Tail0(url, PortAt(url)) /\ (Bracketed(url) => Closed(url))
    BY <1>4 DEF Split, PortText
  <2> QED  BY <1>1, <1>2, <1>4, <2>1, SplitJoins
<1> QED  BY <1>3, <1>4

LEMMA InitHolds == ASSUME Init PROVE AddrInv
<1>1. <<>> \in Text /\ None.text = <<>> /\ None.size = 0
  BY EmptySeq DEF Text, None, Copy
<1>2. 0 \in 0 .. Len(url)
  <2>1. Len(url) \in Nat
    BY TextProperties DEF Init
  <2> QED  BY <2>1
<1>3. TypeOK
  BY <1>1, <1>2 DEF Init, TypeOK
<1>4. MemoryInOrder
  BY DEF Init, MemoryInOrder, Fits, Errors
<1> QED  BY <1>3, <1>4 DEF Init, AddrInv, Held

LEMMA ResolveFailsKeeps == ASSUME AddrInv, ResolveFails PROVE AddrInv'
BY DEF AddrInv, ResolveFails, Held, End, TypeOK, MemoryInOrder, Errors, Fits, None, Copy

LEMMA InitUnixKeeps == ASSUME AddrInv, InitUnix PROVE AddrInv'
<1>1. url \in Text /\ Len(url) \in Nat
  BY TextProperties DEF AddrInv, TypeOK
<1>2. CASE UNCHANGED <<family, ip, name>>
  BY <1>2 DEF AddrInv, InitUnix, Held, End, TypeOK, MemoryInOrder, Errors, Fits, None, Copy
<1>3. CASE /\ Len(url) < SunPath
           /\ family' = "unix" /\ ip' = url /\ name' = Copy(Len(url) + 1, url)
           /\ End("done")
  <2>1. TypeOK'
    BY <1>1, <1>3 DEF AddrInv, InitUnix, Held, End, TypeOK, Copy
  <2>2. MemoryInOrder'
    BY <1>1, <1>3 DEF AddrInv, InitUnix, Held, End, MemoryInOrder, Fits, Copy, None
  <2> QED  BY <2>1, <2>2, <1>3 DEF AddrInv, Held, End
<1> QED  BY <1>2, <1>3 DEF InitUnix

LEMMA PortOnlyKeeps == ASSUME AddrInv, PortOnly PROVE AddrInv'
<1>1. TypeOK' /\ MemoryInOrder'
  BY DEF AddrInv, PortOnly, TypeOK, MemoryInOrder, Errors, Fits, None, Copy
<1>2. Split'
  BY DEF AddrInv, PortOnly, Split, None, Copy, Colons, Positions, At
<1> QED  BY <1>1, <1>2 DEF AddrInv, Held, PortOnly

LEMMA InvalidInet6Keeps == ASSUME AddrInv, InvalidInet6 PROVE AddrInv'
<1>1. TypeOK' /\ MemoryInOrder'
  BY DEF AddrInv, InvalidInet6, Held, End, TypeOK, MemoryInOrder, Errors, Fits, None, Copy
<1>2. url' = url /\ pc' = "invalid" /\ Colons(url) # {} /\ Bracketed(url) /\ ~Closed(url)
  BY DEF InvalidInet6, End
<1>3. (Colons(url) # {} /\ Bracketed(url) /\ ~Closed(url))'
  BY <1>2 DEF Colons, Positions, At, Bracketed, Closed, LastColon
<1> QED  BY <1>1, <1>2, <1>3 DEF AddrInv, Held

LEMMA CopyHostKeeps == ASSUME AddrInv, CopyHost PROVE AddrInv'
<1>1. /\ url \in Text /\ Colons(url) # {} /\ (Bracketed(url) => Closed(url))
      /\ host' = HostCopy(url) /\ port' = PortAt(url) /\ pc' = "lookup" /\ held' = {"host"}
      /\ UNCHANGED <<unix, url, family, ip, name>>
  BY DEF AddrInv, TypeOK, Held, CopyHost
<1>2. /\ HostCopy(url).text \in Text /\ HostCopy(url).size \in Nat /\ Fits(HostCopy(url))
      /\ PortAt(url) \in 0 .. Len(url)
  BY <1>1, SplitJoins
<1>3. TypeOK'
  BY <1>1, <1>2 DEF AddrInv, TypeOK
<1>4. MemoryInOrder'
  BY <1>1, <1>2 DEF AddrInv, MemoryInOrder, Errors, Fits, None, Copy
<1>5. Split'
  BY <1>1 DEF Split, Colons, Positions, At, Bracketed, Closed, LastColon, HostCopy, PortAt, Copy, Part
<1> QED  BY <1>1, <1>3, <1>4, <1>5 DEF AddrInv, Held

LEMMA LookupKeeps == ASSUME AddrInv, Lookup PROVE AddrInv'
<1>1. CASE held' = held \ {"host"} /\ End("not found") /\ UNCHANGED <<family, ip>>
  BY <1>1 DEF AddrInv, Lookup, Held, End, TypeOK, MemoryInOrder, Errors, Fits, None, Copy
<1>2. ASSUME NEW a \in Answers, ip' = a, pc' = "format",
             held' = (held \cup {"answer"}) \ {"host"},
             family' \in {IF a \in Inet THEN "inet" ELSE "inet6", "other"}
      PROVE  AddrInv'
  <2>1. a \in Inet \/ a \in Inet6
    BY AddrAssumption DEF Answers
  <2>2. a \in Text
    BY <2>1, AddrAssumption
  <2>3. TypeOK'
    BY <1>2, <2>2 DEF AddrInv, Lookup, TypeOK
  <2>4. MemoryInOrder'
    BY <1>2 DEF AddrInv, Lookup, MemoryInOrder, Errors, Fits, None, Copy
  <2>5. Split'
    BY DEF AddrInv, Lookup, Split, None, Copy, Colons, Positions, At, Bracketed, Closed, LastColon,
           HostCopy, PortAt, Part
  <2>6. Held'
    BY <1>2 DEF AddrInv, Lookup, Held
  <2> QED  BY <1>2, <2>1, <2>3, <2>4, <2>5, <2>6 DEF AddrInv
<1> QED  BY <1>1, <1>2 DEF Lookup

LEMMA FormatFailsKeeps == ASSUME AddrInv, FormatFails PROVE AddrInv'
<1>1. pc' \in {"other family", "no memory"} /\ held' = {}
  BY DEF FormatFails, End, AddrInv, Held
<1> QED  BY <1>1 DEF AddrInv, FormatFails, Held, TypeOK, MemoryInOrder, Errors, Fits, None, Copy

LEMMA FormatKeeps == ASSUME AddrInv, Format PROVE AddrInv'
<1>1. /\ pc = "format" /\ pc' = "done" /\ held' = {} /\ TypeOK /\ Split
      /\ UNCHANGED <<unix, url, host, port, family, ip>>
  BY DEF AddrInv, Format, End, Held
<1>2. PortText \in Text /\ Colons(PortText) = {} /\ Len(PortText) \in Nat
  BY <1>1, PortHasNoColon, TextProperties
<1>3. ip \in Text /\ Len(ip) \in Nat
  BY <1>1, TextProperties DEF TypeOK
<1>4. /\ name'.text \in Text /\ name'.size = Len(name'.text) + 1 /\ Len(name'.text) \in Nat
      /\ \/ family = "inet" /\ name'.text = Joined(ip, PortText)
         \/ family = "inet6" /\ name'.text = JoinedIn(ip, PortText)
  <2>1. CASE family = "inet"
    <3>1. name' = Copy(Len(ip) + (Len(PortText) + 1) + 1, Joined(ip, PortText))
      BY <2>1 DEF Format, Joined
    <3>2. Joined(ip, PortText) \in Text /\ Len(Joined(ip, PortText)) = Len(ip) + 1 + Len(PortText)
      BY <1>2, <1>3, JoinedProperties
    <3> QED  BY <2>1, <3>1, <3>2, <1>2, <1>3 DEF Copy
  <2>2. CASE family = "inet6"
    <3>1. name' = Copy(Len(ip) + (Len(PortText) + 1) + 3, JoinedIn(ip, PortText))
      BY <2>2 DEF Format, JoinedIn
    <3>2. JoinedIn(ip, PortText) \in Text /\ Len(JoinedIn(ip, PortText)) = Len(ip) + 3 + Len(PortText)
      BY <1>2, <1>3, JoinedInProperties
    <3> QED  BY <2>2, <3>1, <3>2, <1>2, <1>3 DEF Copy
  <2> QED  BY <2>1, <2>2 DEF Format
<1>5. TypeOK'
  <2>1. name'.size \in Nat
    BY <1>4
  <2> QED  BY <1>1, <1>4, <2>1 DEF TypeOK
<1>6. MemoryInOrder'
  <2>1. Fits(host)' /\ (family' = "unix" => Len(ip') < SunPath)
    BY <1>1 DEF AddrInv, MemoryInOrder, Fits, None, Copy
  <2>2. Fits(name)'
    BY <1>4 DEF Fits
  <2> QED  BY <2>1, <2>2, <1>1 DEF MemoryInOrder
<1>7. PortText' = PortText
  BY <1>1 DEF PortText, Tail0
<1>8. Colons(PortText)' = {}
  BY <1>2, <1>7 DEF Colons, Positions, At
<1>9. Named'
  BY <1>1, <1>4, <1>7 DEF AddrInv, Named, Joined, JoinedIn
<1> QED  BY <1>1, <1>5, <1>6, <1>8, <1>9 DEF AddrInv, Held

\* The invariant of a resolution, from which the theorems below follow.
THEOREM AddrInvariance == Spec => []AddrInv
<1>1. Init => AddrInv
  BY InitHolds
<1>2. AddrInv /\ [Next]_vars => AddrInv'
  <2> SUFFICES ASSUME AddrInv, [Next]_vars PROVE AddrInv'
    OBVIOUS
  <2>1. CASE ResolveFails
    BY <2>1, ResolveFailsKeeps
  <2>2. CASE InitUnix
    BY <2>2, InitUnixKeeps
  <2>3. CASE PortOnly
    BY <2>3, PortOnlyKeeps
  <2>4. CASE InvalidInet6
    BY <2>4, InvalidInet6Keeps
  <2>5. CASE CopyHost
    BY <2>5, CopyHostKeeps
  <2>6. CASE Lookup
    BY <2>6, LookupKeeps
  <2>7. CASE Format
    BY <2>7, FormatKeeps
  <2>8. CASE FormatFails
    BY <2>8, FormatFailsKeeps
  <2>9. CASE UNCHANGED vars
    <3>1. TypeOK' /\ MemoryInOrder'
      BY <2>9 DEF vars, AddrInv, TypeOK, MemoryInOrder, Errors, Fits, None, Copy
    <3>2. PortText' = PortText /\ Colons(url)' = Colons(url)
      BY <2>9 DEF vars, PortText, Tail0, Colons, Positions, At
    <3>3. Colons(PortText)' = Colons(PortText) /\ (Named' <=> Named)
      BY <2>9, <3>2 DEF vars, Named, Joined, JoinedIn, Colons, Positions, At
    <3>4. /\ (Bracketed(url) <=> Bracketed(url)') /\ (Closed(url) <=> Closed(url)')
          /\ HostCopy(url)' = HostCopy(url) /\ PortAt(url)' = PortAt(url)
      BY <2>9, <3>2 DEF vars, Bracketed, Closed, HostCopy, PortAt, LastColon, At, Part, Copy
    <3>5. Split' <=> Split
      BY <2>9, <3>2, <3>4 DEF vars, Split, None, Copy
    <3> QED  BY <2>9, <3>1, <3>2, <3>3, <3>4, <3>5 DEF vars, AddrInv, Held, None, Copy
  <2> QED  BY <2>1, <2>2, <2>3, <2>4, <2>5, <2>6, <2>7, <2>8, <2>9 DEF Next
<1> QED  BY <1>1, <1>2, PTL DEF Spec

\* Every variable keeps its type; in particular the port begins in the text.
THEOREM TypeCorrect == Spec => []TypeOK
<1>1. AddrInv => TypeOK
  BY DEF AddrInv
<1> QED  BY <1>1, AddrInvariance, PTL

\* wsgi_addr_resolve writes no copy longer than its memory, and keeps none.
THEOREM MemoryStaysInOrder == Spec => []MemoryInOrder
<1>1. AddrInv => MemoryInOrder
  BY DEF AddrInv
<1> QED  BY <1>1, AddrInvariance, PTL

\* getaddrinfo is asked for what the directive says, and no host in brackets
\* is refused.
THEOREM AsksRight == Spec => []AsksForTheText
<1>1. AddrInv => AsksForTheText
  <2> SUFFICES ASSUME AddrInv PROVE AsksForTheText
    OBVIOUS
  <2>1. url \in Text /\ Len(url) \in Nat
    BY TextProperties DEF AddrInv, TypeOK
  <2>2. ASSUME pc = "lookup", host # None
        PROVE  /\ Colons(PortText) = {}
               /\ url = IF Bracketed(url) THEN JoinedIn(host.text, PortText)
                                          ELSE Joined(host.text, PortText)
    <3>1. /\ Colons(url) # {} /\ (Bracketed(url) => Closed(url))
          /\ host = HostCopy(url) /\ PortText = Tail0(url, PortAt(url))
      BY <2>2 DEF AddrInv, Split, PortText
    <3> QED  BY <2>1, <3>1, SplitJoins
  <2>3. ASSUME pc = "invalid", NEW i \in Positions(url),
               Colons(Tail0(url, i + 3)) = {},
               url = JoinedIn(Part(url, 1, i), Tail0(url, i + 3))
        PROVE  FALSE
    <3> DEFINE h == Part(url, 1, i)
               p == Tail0(url, i + 3)
    <3>1. h \in Text
      BY <2>1, <2>3 DEF Part, Text, Positions
    <3>2. p \in Text
      BY <2>1, <2>3 DEF Tail0, Text, Positions
    <3>3. Closed(url)
      <4> HIDE DEF h, p
      <4>1. url = JoinedIn(h, p) /\ Colons(p) = {}
        BY <2>3 DEF h, p
      <4> QED  BY <3>1, <3>2, <4>1, SplitsBracketed
    <3> QED  BY <2>3, <3>3 DEF AddrInv
  <2> QED  BY <2>2, <2>3 DEF AsksForTheText
<1> QED  BY <1>1, AddrInvariance, PTL

\* The name of an address in the log is a directive for that address.
THEOREM NamesLeadBack == Spec => []NameLeadsBack
<1>1. AddrInv => NameLeadsBack
  <2> SUFFICES ASSUME AddrInv, pc = "done", family \in {"inet", "inet6"}
               PROVE  /\ Colons(name.text) # {}
                      /\ Bracketed(name.text) => Closed(name.text)
                      /\ HostCopy(name.text).text = ip
                      /\ Tail0(name.text, PortAt(name.text)) = PortText
    BY DEF NameLeadsBack
  <2>1. ip \in Text /\ PortText \in Text /\ Colons(PortText) = {} /\ Named
    BY Tail0Properties DEF AddrInv, TypeOK, PortText
  <2>2. CASE ip \in Inet /\ name.text = Joined(ip, PortText)
    <3>1. ip # <<>> => ip[1] # "["
      BY <2>2, AddrAssumption
    <3> QED  BY <2>1, <2>2, <3>1, SplitsPlain
  <2>3. CASE name.text = JoinedIn(ip, PortText)
    BY <2>1, <2>3, SplitsBracketed
  <2> QED  BY <2>1, <2>2, <2>3 DEF Named
<1> QED  BY <1>1, AddrInvariance, PTL
=============================================================================
