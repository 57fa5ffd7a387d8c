------------------------- MODULE RequestBuffer_proofs -------------------------
(***************************************************************************)
(* For buffers of any size, any header table, any Content-Length and any   *)
(* reads: what of a request is its own, whatever earlier requests left in  *)
(* the buffer.                                                             *)
(*                                                                         *)
(* The properties speak of the parser's result.  The invariants of its     *)
(* loop say where it is: pos is at the beginning of a line (Scanning), the *)
(* headers found so far end before it (EndBefore), and in a read with a    *)
(* whole head they are the header lines before it (Found).                 *)
(***************************************************************************)
EXTENDS RequestBuffer, SequenceTheorems, FiniteSetTheorems, TLAPS

-------------------------------------------------------------------------------
\* Places and line ends.

\* A set of numbers that is not empty has a least element.
LEMMA LeastIs ==
    ASSUME NEW places \in SUBSET Nat, places # {}
    PROVE  Least(places) \in places /\ \A n \in places : Least(places) <= n
<1>1. PICK x \in places : \A y \in places : ~(<<y, x>> \in OpToRel(<, Nat))
  BY WFMin, NatLessThanWellFounded
<1>2. ASSUME NEW y \in places PROVE x <= y
  <2>1. x \in Nat /\ y \in Nat
    BY <1>1
  <2>2. ~(y < x)
    BY <1>1, <2>1 DEF OpToRel
  <2> QED BY <2>1, <2>2
<1>3. \E m \in places : \A n \in places : m <= n
  BY <1>2
<1> QED BY <1>3 DEF Least

\* There is one such element.
LEMMA LeastUnique ==
    ASSUME NEW places \in SUBSET Nat, NEW m \in places, \A n \in places : m <= n
    PROVE  Least(places) = m
<1>1. Least(places) \in places /\ \A n \in places : Least(places) <= n
  BY LeastIs
<1>2. Least(places) <= m /\ m <= Least(places) /\ m \in Nat /\ Least(places) \in Nat
  BY <1>1
<1> QED BY <1>2

\* strstr finds the first line end behind from with no NUL before it, or there is
\* none.
LEMMA LineEndIs ==
    ASSUME NEW bytes \in Seq(Pieces), NEW from \in Nat \ {0}
    PROVE  \/ /\ LineEnd(bytes, from) = 0
              /\ \A i \in Nat : i >= from /\ CrLf(bytes, i)
                                 => \E k \in from..i : bytes[k] = "nul"
           \/ /\ LineEnd(bytes, from) \in Nat
              /\ LineEnd(bytes, from) >= from
              /\ CrLf(bytes, LineEnd(bytes, from))
              /\ \A k \in from..LineEnd(bytes, from) : bytes[k] # "nul"
              /\ \A i \in Nat : i >= from /\ i < LineEnd(bytes, from) => ~CrLf(bytes, i)
<1> DEFINE ends == {i \in from..Len(bytes) :
                      CrLf(bytes, i) /\ \A k \in from..i : bytes[k] # "nul"}
<1>1. Len(bytes) \in Nat
  OBVIOUS
<1>2. ends \in SUBSET Nat
  BY <1>1
<1>3. \A i \in Nat : /\ i >= from /\ CrLf(bytes, i)
                     /\ \A k \in from..i : bytes[k] # "nul"
                     => i \in ends
  BY <1>1 DEF CrLf
<1>4. CASE ends = {}
  <2>1. LineEnd(bytes, from) = 0
    BY <1>4 DEF LineEnd
  <2>2. \A i \in Nat : i >= from /\ CrLf(bytes, i)
                       => \E k \in from..i : bytes[k] = "nul"
    BY <1>3, <1>4
  <2> QED BY <2>1, <2>2
<1>5. CASE ends # {}
  <2>1. LineEnd(bytes, from) = Least(ends)
    BY <1>5 DEF LineEnd
  <2>2. Least(ends) \in ends /\ \A n \in ends : Least(ends) <= n
    <3> HIDE DEF ends
    <3> QED BY <1>2, <1>5, LeastIs
  <2>3. LineEnd(bytes, from) \in Nat /\ LineEnd(bytes, from) >= from
        /\ CrLf(bytes, LineEnd(bytes, from))
        /\ \A k \in from..LineEnd(bytes, from) : bytes[k] # "nul"
    BY <1>1, <2>1, <2>2
  <2>4. ASSUME NEW i \in Nat, i >= from, i < LineEnd(bytes, from) PROVE ~CrLf(bytes, i)
    <3>1. i \notin ends
      BY <2>1, <2>2, <2>3, <2>4
    <3>2. \A k \in from..i : bytes[k] # "nul"
      BY <2>3, <2>4
    <3> QED BY <1>3, <2>4, <3>1, <3>2
  <2> QED BY <2>3, <2>4
<1> QED BY <1>4, <1>5

\* The first line end is the one before which there is none.
LEMMA LineEndUnique ==
    ASSUME NEW bytes \in Seq(Pieces), NEW from \in Nat \ {0}, NEW e \in Nat,
           e >= from, CrLf(bytes, e), \A k \in from..e : bytes[k] # "nul",
           \A i \in Nat : i >= from /\ i < e => ~CrLf(bytes, i)
    PROVE  LineEnd(bytes, from) = e
<1>1. LineEnd(bytes, from) # 0
  BY LineEndIs
<1>2. /\ LineEnd(bytes, from) \in Nat
      /\ LineEnd(bytes, from) >= from
      /\ CrLf(bytes, LineEnd(bytes, from))
      /\ \A i \in Nat : i >= from /\ i < LineEnd(bytes, from) => ~CrLf(bytes, i)
  BY <1>1, LineEndIs
<1>3. ~(e < LineEnd(bytes, from))
  BY <1>2
<1>4. ~(LineEnd(bytes, from) < e)
  BY <1>2
<1> QED BY <1>2, <1>3, <1>4

\* Line ends do not overlap.
LEMMA CrLfApart ==
    ASSUME NEW bytes, NEW i \in Nat, CrLf(bytes, i)
    PROVE  ~CrLf(bytes, i + 1)
BY DEF CrLf

\* A part of a byte string has its pieces.
LEMMA PartIs ==
    ASSUME NEW bytes \in Seq(Pieces), NEW i \in Nat \ {0}, NEW j \in Int, j <= Len(bytes)
    PROVE  /\ SubSeq(bytes, i, j) \in Seq(Pieces)
           /\ Len(SubSeq(bytes, i, j)) = IF i <= j THEN j - i + 1 ELSE 0
           /\ \A k \in 1..(j - i + 1) : SubSeq(bytes, i, j)[k] = bytes[i + k - 1]
<1>1. \A k \in i..j : bytes[k] \in Pieces
  <2>1. \A k \in 1..Len(bytes) : bytes[k] \in Pieces
    OBVIOUS
  <2> QED BY <2>1
<1> QED BY <1>1, SubSeqProperties

\* A line's text, which is empty where no line end follows.
LEMMA LineIs ==
    ASSUME NEW bytes \in Seq(Pieces), NEW at \in Nat \ {0}
    PROVE  /\ LineAt(bytes, at) \in Seq(Pieces)
           /\ LineEnd(bytes, at) = 0 => LineAt(bytes, at) = <<>>
           /\ LineAt(bytes, at) # <<>> => LineAt(bytes, at)[1] = bytes[at]
<1>1. LineEnd(bytes, at) \in Nat /\ LineEnd(bytes, at) - 1 <= Len(bytes)
  BY LineEndIs DEF CrLf
<1>2. /\ LineAt(bytes, at) \in Seq(Pieces)
      /\ Len(LineAt(bytes, at)) = IF at <= LineEnd(bytes, at) - 1
                                  THEN LineEnd(bytes, at) - 1 - at + 1 ELSE 0
      /\ \A k \in 1..(LineEnd(bytes, at) - 1 - at + 1) :
             LineAt(bytes, at)[k] = bytes[at + k - 1]
  BY <1>1, PartIs DEF LineAt
<1>3. LineEnd(bytes, at) = 0 => LineAt(bytes, at) = <<>>
  BY <1>2
<1>4. ASSUME LineAt(bytes, at) # <<>> PROVE LineAt(bytes, at)[1] = bytes[at]
  <2>1. Len(LineAt(bytes, at)) # 0
    BY <1>2, <1>4
  <2>2. 1 \in 1..(LineEnd(bytes, at) - 1 - at + 1)
    BY <1>1, <1>2, <2>1
  <2> QED BY <1>2, <2>2
<1> QED BY <1>2, <1>3, <1>4

\* A line with two spaces has one, and is not empty.
LEMMA SpacesAreSpace ==
    ASSUME NEW line, HasSpaces(line)
    PROVE  line # <<>> /\ HasSpace(line)
<1>1. PICK i \in DOMAIN line : line[i] \in RequestLines \cup {"POST half"}
  <2>1. CASE \E i \in DOMAIN line : line[i] \in RequestLines
    BY <2>1
  <2>2. CASE \E i, j \in DOMAIN line :
               i < j /\ line[i] = "POST half" /\ line[j] = "POST half"
    BY <2>2, Zenon
  <2> QED BY <2>1, <2>2 DEF HasSpaces
<1>2. line # <<>>
  <2> SUFFICES ASSUME line = <<>> PROVE FALSE
    OBVIOUS
  <2>1. DOMAIN << >> = {}
    <3>1. DOMAIN << >> = 1..Len(<< >>) /\ Len(<< >>) = 0 /\ << >> \in Seq(Pieces)
      BY Zenon, EmptySeq, LenProperties
    <3> QED BY <3>1
  <2> QED BY <1>1, <2>1, Zenon
<1>3. HasSpace(line)
  BY <1>1, Zenon DEF HasSpace
<1> QED BY <1>2, <1>3

-------------------------------------------------------------------------------
\* The buffer and the read.

\* Where the loop is: at the beginning of a line, with no body found yet.
Scanning ==
    pc = "headers" => /\ pos >= 3 /\ CrLf(buffer, pos - 2)
                      /\ request.offset = 0

TypeInv == TypeOK /\ Scanning

\* The read is the beginning of the buffer.
LEMMA ReceivedIs ==
    ASSUME TypeOK
    PROVE  /\ Received \in Seq(Pieces) /\ Len(Received) = position
           /\ \A i \in 1..position : Received[i] = buffer[i]
           /\ \A i \in Nat \ {0} :
                 CrLf(Received, i) <=> CrLf(buffer, i) /\ i + 1 <= position
<1>1. buffer \in Seq(Pieces) /\ position \in Nat /\ position <= Len(buffer)
      /\ Len(buffer) \in Nat
  BY DEF TypeOK
<1>2. /\ Received \in Seq(Pieces) /\ Len(Received) = position
      /\ \A i \in 1..position : Received[i] = buffer[i]
  BY <1>1, PartIs DEF Received
<1>3. ASSUME NEW i \in Nat \ {0}
      PROVE  CrLf(Received, i) <=> CrLf(buffer, i) /\ i + 1 <= position
  <2>1. CASE i + 1 <= position
    <3>1. Received[i] = buffer[i] /\ Received[i + 1] = buffer[i + 1]
      BY <1>1, <1>2, <2>1
    <3> QED BY <1>1, <1>2, <2>1, <3>1 DEF CrLf
  <2>2. CASE ~(i + 1 <= position)
    BY <1>1, <1>2, <2>2 DEF CrLf
  <2> QED BY <2>1, <2>2
<1> QED BY <1>2, <1>3

\* A line that ends in the read is the same in the buffer.
LEMMA LineReceived ==
    ASSUME TypeOK, NEW at \in Nat \ {0},
           \/ LineEnd(Received, at) # 0
           \/ LineEnd(buffer, at) # 0 /\ LineEnd(buffer, at) + 1 <= position
    PROVE  /\ LineEnd(Received, at) = LineEnd(buffer, at)
           /\ LineAt(Received, at) = LineAt(buffer, at)
           /\ LineEnd(buffer, at) # 0
<1>1. /\ Received \in Seq(Pieces) /\ Len(Received) = position
      /\ buffer \in Seq(Pieces) /\ position \in Nat /\ position <= Len(buffer)
  BY ReceivedIs DEF TypeOK
<1>2. \A i \in Nat \ {0} : CrLf(Received, i) <=> CrLf(buffer, i) /\ i + 1 <= position
  BY ReceivedIs
<1>3. \E e \in Nat : /\ e >= at /\ CrLf(Received, e) /\ CrLf(buffer, e)
                     /\ \A k \in at..e : Received[k] # "nul"
                     /\ \A k \in at..e : buffer[k] # "nul"
                     /\ \A i \in Nat : i >= at /\ i < e => ~CrLf(Received, i)
                     /\ \A i \in Nat : i >= at /\ i < e => ~CrLf(buffer, i)
  <2>1. CASE LineEnd(Received, at) # 0
    <3> DEFINE e == LineEnd(Received, at)
    <3>1. /\ e \in Nat /\ e >= at /\ CrLf(Received, e)
          /\ \A k \in at..e : Received[k] # "nul"
          /\ \A i \in Nat : i >= at /\ i < e => ~CrLf(Received, i)
      BY <1>1, <2>1, LineEndIs
    <3>2. CrLf(buffer, e) /\ e + 1 <= position
      BY <1>2, <3>1
    <3>3. \A i \in Nat : i >= at /\ i < e => ~CrLf(buffer, i)
      BY <1>1, <1>2, <3>1, <3>2
    <3>4. \A k \in at..e : buffer[k] # "nul"
      BY <1>1, <3>1, <3>2, ReceivedIs
    <3> QED BY <3>1, <3>2, <3>3, <3>4
  <2>2. CASE LineEnd(buffer, at) # 0 /\ LineEnd(buffer, at) + 1 <= position
    <3> DEFINE e == LineEnd(buffer, at)
    <3>1. /\ e \in Nat /\ e >= at /\ CrLf(buffer, e)
          /\ \A k \in at..e : buffer[k] # "nul"
          /\ \A i \in Nat : i >= at /\ i < e => ~CrLf(buffer, i)
      BY <1>1, <2>2, LineEndIs
    <3>2. CrLf(Received, e)
      BY <1>2, <2>2, <3>1
    <3>3. \A i \in Nat : i >= at /\ i < e => ~CrLf(Received, i)
      BY <1>2, <3>1
    <3>4. \A k \in at..e : Received[k] # "nul"
      BY <1>1, <2>2, <3>1, ReceivedIs
    <3> QED BY <3>1, <3>2, <3>3, <3>4
  <2> QED BY <2>1, <2>2
<1>4. PICK e \in Nat : /\ e >= at /\ CrLf(Received, e) /\ CrLf(buffer, e)
                       /\ \A k \in at..e : Received[k] # "nul"
                       /\ \A k \in at..e : buffer[k] # "nul"
                       /\ \A i \in Nat : i >= at /\ i < e => ~CrLf(Received, i)
                       /\ \A i \in Nat : i >= at /\ i < e => ~CrLf(buffer, i)
  BY <1>3
<1>5. LineEnd(Received, at) = e
  BY <1>1, <1>4, LineEndUnique
<1>6. LineEnd(buffer, at) = e
  BY <1>1, <1>4, LineEndUnique
<1>7. e + 1 <= position
  BY <1>2, <1>4
<1>8. SubSeq(Received, at, e - 1) = SubSeq(buffer, at, e - 1)
  <2>1. CASE e = at
    <3>1. e - 1 \in Int /\ e - 1 < at /\ at \in Int
      BY <2>1
    <3> QED BY <3>1, SubSeqEmpty
  <2>2. CASE e > at
    <3> DEFINE part == SubSeq(buffer, at, e - 1)  whole == SubSeq(Received, at, e - 1)
    <3>1. /\ part \in Seq(Pieces) /\ Len(part) = e - at
          /\ \A k \in 1..(e - at) : part[k] = buffer[at + k - 1]
      <4>1. e - 1 \in Int /\ e - 1 <= Len(buffer) /\ (e - 1) - at + 1 = e - at /\ at <= e - 1
        BY <1>1, <1>7, <2>2
      <4> QED BY <1>1, <4>1, PartIs
    <3>2. /\ whole \in Seq(Pieces) /\ Len(whole) = e - at
          /\ \A k \in 1..(e - at) : whole[k] = Received[at + k - 1]
      <4>1. e - 1 \in Int /\ e - 1 <= Len(Received) /\ (e - 1) - at + 1 = e - at /\ at <= e - 1
        BY <1>1, <1>7, <2>2
      <4> QED BY <1>1, <4>1, PartIs
    <3>3. ASSUME NEW k \in 1..(e - at) PROVE part[k] = whole[k]
      <4>1. at + k - 1 \in 1..position
        BY <1>1, <1>7, <2>2
      <4>2. Received[at + k - 1] = buffer[at + k - 1]
        BY <4>1, ReceivedIs
      <4> QED BY <3>1, <3>2, <4>2
    <3> HIDE DEF part, whole
    <3>4. part = whole
      BY <3>1, <3>2, <3>3, SeqEqual
    <3> QED BY <3>4 DEF part, whole
  <2> QED BY <1>4, <2>1, <2>2
<1> QED BY <1>4, <1>5, <1>6, <1>8 DEF LineAt

\* The places of a whole read: its first blank line, the lines before it.
LEMMA HeadIs ==
    ASSUME TypeOK, Whole(Received)
    PROVE  /\ HeadEnd(Received) \in Nat /\ HeadEnd(Received) >= 3
           /\ HeadEnd(Received) + 1 <= position
           /\ CrLf(Received, HeadEnd(Received) - 2) /\ CrLf(Received, HeadEnd(Received))
           /\ \A at \in LineStarts(Received) :
                 CrLf(Received, at) => HeadEnd(Received) <= at
<1>1. Received \in Seq(Pieces) /\ Len(Received) = position /\ position \in Nat
  BY ReceivedIs DEF TypeOK
<1>2. BlankLines(Received) \in SUBSET Nat /\ BlankLines(Received) # {}
  BY <1>1 DEF Whole, BlankLines, LineStarts
<1>3. /\ HeadEnd(Received) \in BlankLines(Received)
      /\ \A at \in BlankLines(Received) : HeadEnd(Received) <= at
  BY <1>2, LeastIs DEF HeadEnd
<1>4. HeadEnd(Received) \in 3..position
      /\ CrLf(Received, HeadEnd(Received) - 2) /\ CrLf(Received, HeadEnd(Received))
  BY <1>1, <1>3 DEF BlankLines, LineStarts
<1>5. HeadEnd(Received) + 1 <= position
  BY <1>1, <1>4 DEF CrLf
<1> QED BY <1>1, <1>3, <1>4, <1>5 DEF BlankLines

-------------------------------------------------------------------------------
\* Types, and where the loop is.

LEMMA TypeInit == Init => TypeInv
<1> SUFFICES ASSUME Init PROVE TypeInv
  OBVIOUS
<1>1. buffer \in Seq(Pieces) /\ Len(buffer) = 0 /\ content \in Seq(Pieces)
  BY DEF Init
<1>2. request \in Requests /\ request.offset = 0
  <2>1. <<>> \in Seq(Seq(Pieces))
    OBVIOUS
  <2> QED BY <2>1 DEF Init, Unparsed, Requests
<1> QED BY <1>1, <1>2, BufferAssumption DEF Init, TypeInv, TypeOK, Scanning

LEMMA UnparsedType == Unparsed \in Requests /\ Unparsed.offset = 0
<1>1. <<>> \in Seq(Seq(Pieces))
  OBVIOUS
<1> QED BY <1>1 DEF Unparsed, Requests

LEMMA RequestType ==
    ASSUME TypeOK
    PROVE  /\ request.method \in RequestLines \cup {"unknown"}
           /\ request.headers \in Seq(Seq(Pieces))
           /\ request.offset \in Nat
           /\ request = [method |-> request.method, headers |-> request.headers,
                         offset |-> request.offset]
BY DEF TypeOK, Requests

LEMMA ReadType == ASSUME TypeInv, NEW bytes \in Arrivals, Read(bytes) PROVE TypeInv'
<1>1. /\ bytes \in Seq(Pieces) /\ Len(bytes) \in Nat
      /\ Len(bytes) <= BufferSize /\ Len(bytes) >= 1
  BY ArrivalAssumption, BufferAssumption
<1>2. buffer \in Seq(Pieces) /\ Len(buffer) <= BufferSize /\ Len(buffer) \in Nat
  BY DEF TypeInv, TypeOK
<1> DEFINE rest == SubSeq(buffer, Len(bytes) + 1, Len(buffer))
<1>3. /\ rest \in Seq(Pieces)
      /\ Len(rest) = IF Len(bytes) + 1 <= Len(buffer) THEN Len(buffer) - Len(bytes) ELSE 0
  <2>1. Len(bytes) + 1 \in Nat \ {0} /\ Len(buffer) \in Int
        /\ Len(buffer) - (Len(bytes) + 1) + 1 = Len(buffer) - Len(bytes)
    BY <1>1, <1>2
  <2> QED BY <1>2, <2>1, PartIs
<1> HIDE DEF rest
<1>4. bytes \o rest \in Seq(Pieces) /\ Len(bytes \o rest) = Len(bytes) + Len(rest)
  BY <1>1, <1>3, ConcatProperties
<1>5. buffer' = bytes \o rest
  BY DEF Read, rest
<1>6. buffer' \in Seq(Pieces) /\ Len(buffer') <= BufferSize /\ Len(bytes) <= Len(buffer')
  BY <1>1, <1>2, <1>3, <1>4, <1>5, BufferAssumption
<1>7. position' = Len(bytes) /\ pc' = "parse" /\ UNCHANGED <<pos, request, content>>
  BY DEF Read
<1> QED BY <1>1, <1>6, <1>7 DEF TypeInv, TypeOK, Scanning

LEMMA ReadFailsType == ASSUME TypeInv, ReadFails PROVE TypeInv'
<1>1. pc = "read" /\ position' = 0 /\ UNCHANGED <<pc, buffer, pos, request, content>>
  BY DEF ReadFails
<1>2. buffer \in Seq(Pieces) /\ Len(buffer) \in Nat
  BY DEF TypeInv, TypeOK
<1> QED BY <1>1, <1>2 DEF TypeInv, TypeOK, Scanning

LEMMA RequestLineType == ASSUME TypeInv, RequestLine PROVE TypeInv'
<1>1. UNCHANGED <<buffer, position, content>>
  BY DEF RequestLine
<1>2. buffer \in Seq(Pieces) /\ position \in Nat
  BY DEF TypeInv, TypeOK
<1>3. /\ request' = [Unparsed EXCEPT !.method = Method(LineAt(buffer, 1))]
      /\ Method(LineAt(buffer, 1)) \in RequestLines \cup {"unknown"}
  BY DEF RequestLine, Method, RequestLines
<1>4. request' \in Requests /\ request'.offset = 0
  BY <1>3, UnparsedType DEF Requests, Unparsed
<1>5. CASE HasSpaces(LineAt(buffer, 1))
  <2>1. pos' = Behind(LineEnd(buffer, 1)) /\ pc' = "headers"
    BY <1>5 DEF RequestLine
  <2>2. LineEnd(buffer, 1) # 0
    <3>1. LineAt(buffer, 1) # <<>>
      BY <1>5, SpacesAreSpace
    <3>2. 1 \in Nat \ {0}
      OBVIOUS
    <3> QED BY <1>2, <3>1, <3>2, LineIs
  <2>3. /\ LineEnd(buffer, 1) \in Nat /\ LineEnd(buffer, 1) >= 1
        /\ CrLf(buffer, LineEnd(buffer, 1))
    BY <1>2, <2>2, LineEndIs
  <2>4. pos' \in Nat /\ pos' >= 3 /\ pos' - 2 = LineEnd(buffer, 1)
    BY <2>1, <2>3 DEF Behind
  <2>5. CrLf(buffer, pos - 2)'
    BY <1>1, <2>3, <2>4
  <2> QED BY <1>1, <1>4, <2>1, <2>4, <2>5 DEF TypeInv, TypeOK, Scanning
<1>6. CASE ~HasSpaces(LineAt(buffer, 1))
  <2>1. pc' = "handle" /\ pos' = pos
    BY <1>6 DEF RequestLine
  <2> QED BY <1>1, <1>2, <1>4, <2>1 DEF TypeInv, TypeOK, Scanning
<1> QED BY <1>5, <1>6

LEMMA BlankLineType == ASSUME TypeInv, BlankLine PROVE TypeInv'
<1>1. /\ pc = "headers" /\ pos + 1 <= position /\ pc' = "handle"
      /\ request' = [request EXCEPT !.offset = pos + 1]
      /\ UNCHANGED <<buffer, position, pos, content>>
  BY DEF BlankLine, AtLine, Blank
<1>2. request \in Requests /\ pos \in Nat
  BY DEF TypeInv, TypeOK
<1>3. pos + 1 \in Nat
  BY <1>2
<1>4. request' \in Requests /\ request'.offset = pos + 1
  BY <1>1, <1>2, <1>3, Zenon DEF Requests
<1> QED BY <1>1, <1>4 DEF TypeInv, TypeOK, Scanning

LEMMA HeaderLineType == ASSUME TypeInv, HeaderLine PROVE TypeInv'
<1>1. /\ pc = "headers" /\ LineEnd(buffer, pos) # 0
      /\ pos' = Behind(LineEnd(buffer, pos))
      /\ UNCHANGED <<pc, buffer, position, content>>
  BY DEF HeaderLine, AtLine
<1>2. buffer \in Seq(Pieces) /\ pos \in Nat \ {0} /\ pos >= 3 /\ request.offset = 0
  BY <1>1 DEF TypeInv, TypeOK, Scanning
<1>3. /\ LineEnd(buffer, pos) \in Nat /\ LineEnd(buffer, pos) >= pos
      /\ CrLf(buffer, LineEnd(buffer, pos))
  BY <1>1, <1>2, LineEndIs
<1>4. pos' \in Nat /\ pos' >= 3 /\ pos' - 2 = LineEnd(buffer, pos)
  BY <1>1, <1>2, <1>3 DEF Behind
<1>5. CrLf(buffer, pos - 2)'
  BY <1>1, <1>3, <1>4
<1>6. request' \in Requests /\ request'.offset = 0
  <2>1. request \in Requests
    BY DEF TypeInv, TypeOK
  <2>2. LineAt(buffer, pos) \in Seq(Pieces)
    BY <1>2, LineIs
  <2>3. request.headers \in Seq(Seq(Pieces))
    BY <2>1 DEF Requests
  <2>4. Append(request.headers, LineAt(buffer, pos)) \in Seq(Seq(Pieces))
    BY <2>2, <2>3, AppendProperties
  <2>5. CASE HasColon(LineAt(buffer, pos))
    <3>1. request' = [request EXCEPT !.headers = Append(request.headers, LineAt(buffer, pos))]
      BY <2>5 DEF HeaderLine
    <3> QED BY <1>2, <2>1, <2>4, <3>1 DEF Requests
  <2>6. CASE ~HasColon(LineAt(buffer, pos))
    <3>1. request' = request
      BY <2>6 DEF HeaderLine
    <3> QED BY <1>2, <2>1, <3>1
  <2> QED BY <2>5, <2>6
<1> QED BY <1>1, <1>4, <1>5, <1>6 DEF TypeInv, TypeOK, Scanning

LEMMA HeadersEndType == ASSUME TypeInv, HeadersEnd PROVE TypeInv'
<1>1. /\ pc = "headers" /\ pc' = "handle"
      /\ UNCHANGED <<buffer, position, pos, request, content>>
  BY DEF HeadersEnd
<1>2. request.offset = 0 /\ position \in Nat
  BY <1>1 DEF TypeInv, TypeOK, Scanning
<1> QED BY <1>1, <1>2 DEF TypeInv, TypeOK, Scanning

LEMMA SmallerIs ==
    \A m, n \in Int : /\ Smaller(m, n) \in {m, n} /\ Smaller(m, n) \in Int
                      /\ Smaller(m, n) <= m /\ Smaller(m, n) <= n
BY DEF Smaller

\* What a handler takes ends where the read ends.
LEMMA ContentEnd ==
    ASSUME TypeInv, pc = "handle"
    PROVE  LET end == request.offset
                      + Smaller(ContentLength(request.headers), position - request.offset)
           IN  end \in Nat /\ end <= position
<1>1. /\ position \in Nat /\ request.offset \in Nat
      /\ request.offset <= position
  BY RequestType DEF TypeInv, TypeOK
<1>2. ContentLength(request.headers) \in Nat
  BY BufferAssumption DEF ContentLength
<1>3. position - request.offset \in Nat
  BY <1>1
<1> DEFINE taken == Smaller(ContentLength(request.headers), position - request.offset)
<1>4. taken \in Nat /\ taken <= position - request.offset
  BY <1>2, <1>3 DEF Smaller
<1> HIDE DEF taken
<1>5. request.offset + taken \in Nat /\ request.offset + taken <= position
  BY <1>1, <1>4
<1> QED BY <1>5 DEF taken

LEMMA HandleType == ASSUME TypeInv, Handle PROVE TypeInv'
<1>1. /\ pc = "handle" /\ pc' = "read"
      /\ UNCHANGED <<buffer, position, pos, request>>
  BY DEF Handle
<1>2. content' \in Seq(Pieces)
  <2> DEFINE end == request.offset
                    + Smaller(ContentLength(request.headers), position - request.offset)
  <2>1. end \in Nat /\ end <= position
    BY <1>1, ContentEnd
  <2>2. /\ buffer \in Seq(Pieces) /\ position <= Len(buffer) /\ position \in Nat
        /\ Len(buffer) \in Nat /\ request.offset \in Nat
    BY RequestType DEF TypeInv, TypeOK
  <2>3. Content(request, buffer, position) = SubSeq(buffer, request.offset + 1, end)
    BY DEF Content
  <2> HIDE DEF end
  <2>4. end \in Int /\ end <= Len(buffer) /\ request.offset + 1 \in Nat \ {0}
    BY <2>1, <2>2
  <2>5. Content(request, buffer, position) \in Seq(Pieces)
    BY <2>2, <2>3, <2>4, PartIs
  <2>6. <<>> \in Seq(Pieces)
    OBVIOUS
  <2> QED BY <2>5, <2>6 DEF Handle
<1> QED BY <1>1, <1>2 DEF TypeInv, TypeOK, Scanning

LEMMA TypeStep == TypeInv /\ [Next]_vars => TypeInv'
<1> SUFFICES ASSUME TypeInv, [Next]_vars PROVE TypeInv'
  OBVIOUS
<1>1. CASE \E bytes \in Arrivals : Read(bytes)
  BY <1>1, ReadType
<1>2. CASE ReadFails
  BY <1>2, ReadFailsType
<1>3. CASE RequestLine
  BY <1>3, RequestLineType
<1>4. CASE BlankLine
  BY <1>4, BlankLineType
<1>5. CASE HeaderLine
  BY <1>5, HeaderLineType
<1>6. CASE HeadersEnd
  BY <1>6, HeadersEndType
<1>7. CASE Handle
  BY <1>7, HandleType
<1>8. CASE UNCHANGED vars
  BY <1>8 DEF vars, TypeInv, TypeOK, Scanning
<1> QED BY <1>1, <1>2, <1>3, <1>4, <1>5, <1>6, <1>7, <1>8 DEF Next

LEMMA TypeAlways == Spec => []TypeInv
<1>1. Init => TypeInv
  BY TypeInit
<1>2. TypeInv /\ [Next]_vars => TypeInv'
  BY TypeStep
<1> QED BY <1>1, <1>2, PTL DEF Spec

\* The type invariant, with the offset of the body in the read: for a buffer of
\* any size the parser and the handler stay inside of what was read.
THEOREM TypeCorrect == Spec => []TypeOK
<1>1. TypeInv => TypeOK
  BY DEF TypeInv
<1> QED BY <1>1, TypeAlways, PTL

-------------------------------------------------------------------------------
\* How far a cut request reads on.

\* A header is a line of the buffer that ends before pos.
EndsBefore(header) ==
    \E at \in Nat : /\ at >= 3 /\ CrLf(buffer, at - 2)
                    /\ LineEnd(buffer, at) # 0 /\ LineEnd(buffer, at) + 2 <= pos
                    /\ LineAt(buffer, at) = header

EndBefore ==
    pc = "headers" => \A i \in 1..Len(request.headers) : EndsBefore(request.headers[i])

RunsInv == EndBefore /\ OneLineRunsOn

\* A line of the buffer that ends in the read is one of its lines.
LEMMA LineOfRead ==
    ASSUME TypeInv, NEW header, EndsBefore(header), pos <= position
    PROVE  \E at \in LineStarts(Received) :
              LineEnd(Received, at) # 0 /\ LineAt(Received, at) = header
<1>1. PICK at \in Nat : /\ at >= 3 /\ CrLf(buffer, at - 2)
                        /\ LineEnd(buffer, at) # 0 /\ LineEnd(buffer, at) + 2 <= pos
                        /\ LineAt(buffer, at) = header
  BY DEF EndsBefore
<1>2. buffer \in Seq(Pieces) /\ position \in Nat /\ pos \in Nat
  BY DEF TypeInv, TypeOK
<1>3. LineEnd(buffer, at) \in Nat /\ LineEnd(buffer, at) >= at
  BY <1>1, <1>2, LineEndIs
<1>4. LineEnd(buffer, at) + 1 <= position
  BY <1>1, <1>2, <1>3
<1>5. /\ LineEnd(Received, at) = LineEnd(buffer, at)
      /\ LineAt(Received, at) = LineAt(buffer, at)
  BY <1>1, <1>4, LineReceived DEF TypeInv
<1>6. at \in LineStarts(Received)
  <2>1. at - 2 \in Nat \ {0} /\ (at - 2) + 1 <= position /\ at \in 3..position
    BY <1>1, <1>2, <1>3, <1>4
  <2>2. CrLf(Received, at - 2)
    BY <1>1, <2>1, ReceivedIs DEF TypeInv
  <2> QED BY <2>1, <2>2, ReceivedIs DEF LineStarts, TypeInv
<1> QED BY <1>1, <1>5, <1>6

LEMMA RunsInit == Init => RunsInv
BY DEF Init, RunsInv, EndBefore, OneLineRunsOn

\* Outside the parser nothing is said.
LEMMA RunsElsewhere ==
    ASSUME pc' \notin {"headers", "handle"} PROVE RunsInv'
BY DEF RunsInv, EndBefore, OneLineRunsOn

\* The parser's start leaves no header.
LEMMA RunsRequestLine == ASSUME TypeInv, RequestLine PROVE RunsInv'
<1>1. request'.headers = <<>>
  BY DEF RequestLine, Unparsed
<1>2. 1..Len(request'.headers) = {} /\ 1..Len(request'.headers) - 1 = {}
  BY <1>1
<1> QED BY <1>2 DEF RunsInv, EndBefore, OneLineRunsOn

\* The loop's end changes nothing it found.
LEMMA RunsEnd ==
    ASSUME RunsInv, pc = "headers", pc' = "handle", request'.headers = request.headers,
           UNCHANGED <<buffer, position>>
    PROVE  RunsInv'
<1>1. Received' = Received
  BY DEF Received
<1>2. OneLineRunsOn'
  BY <1>1 DEF RunsInv, OneLineRunsOn
<1> QED BY <1>2 DEF RunsInv, EndBefore

LEMMA RunsHeaderLine == ASSUME TypeInv, RunsInv, HeaderLine PROVE RunsInv'
<1>1. /\ pc = "headers" /\ pc' = "headers" /\ LineEnd(buffer, pos) # 0
      /\ pos <= position
      /\ pos' = LineEnd(buffer, pos) + 2
      /\ UNCHANGED <<buffer, position>>
  BY DEF HeaderLine, AtLine, More, Behind
<1>2. /\ buffer \in Seq(Pieces) /\ pos \in Nat \ {0} /\ pos >= 3
      /\ CrLf(buffer, pos - 2)
  BY <1>1 DEF TypeInv, TypeOK, Scanning
<1>3. LineEnd(buffer, pos) \in Nat /\ LineEnd(buffer, pos) >= pos
  BY <1>1, <1>2, LineEndIs
<1>4. /\ request.headers \in Seq(Seq(Pieces)) /\ Len(request.headers) \in Nat
      /\ request \in Requests
  <2>1. request.headers \in Seq(Seq(Pieces)) /\ request \in Requests
    BY RequestType DEF TypeInv, TypeOK
  <2> QED BY <2>1
<1>5. \A i \in 1..Len(request.headers) : EndsBefore(request.headers[i])
  BY <1>1 DEF RunsInv, EndBefore
<1>6. Received' = Received
  BY <1>1 DEF Received
\* What was found before this line arrived with the read.
<1>7. ASSUME NEW i \in 1..Len(request.headers)
      PROVE  /\ \E at \in LineStarts(Received) :
                   LineEnd(Received, at) # 0 /\ LineAt(Received, at) = request.headers[i]
             /\ \E at \in Nat : /\ at >= 3 /\ CrLf(buffer, at - 2)
                                /\ LineEnd(buffer, at) # 0
                                /\ LineEnd(buffer, at) + 2 <= pos'
                                /\ LineAt(buffer, at) = request.headers[i]
  <2>1. EndsBefore(request.headers[i])
    BY <1>5
  <2>2. PICK at \in Nat : /\ at >= 3 /\ CrLf(buffer, at - 2)
                          /\ LineEnd(buffer, at) # 0 /\ LineEnd(buffer, at) + 2 <= pos
                          /\ LineAt(buffer, at) = request.headers[i]
    BY <2>1 DEF EndsBefore
  <2>3. LineEnd(buffer, at) \in Nat
    BY <1>2, <2>2, LineEndIs
  <2>4. LineEnd(buffer, at) + 2 <= pos'
    BY <1>1, <1>2, <1>3, <2>2, <2>3
  <2>5. \E s \in LineStarts(Received) :
           LineEnd(Received, s) # 0 /\ LineAt(Received, s) = request.headers[i]
    BY <1>1, <2>1, LineOfRead
  <2> QED BY <2>2, <2>4, <2>5
<1>8. CASE HasColon(LineAt(buffer, pos))
  <2>1. request' = [request EXCEPT !.headers = Append(request.headers, LineAt(buffer, pos))]
    BY <1>8 DEF HeaderLine
  <2>2. request'.headers = Append(request.headers, LineAt(buffer, pos))
    BY <1>4, <2>1 DEF Requests
  <2>3. LineAt(buffer, pos) \in Seq(Pieces)
    BY <1>2, LineIs
  <2>4. /\ Len(request'.headers) = Len(request.headers) + 1
        /\ \A i \in 1..Len(request.headers) : request'.headers[i] = request.headers[i]
        /\ request'.headers[Len(request.headers) + 1] = LineAt(buffer, pos)
    BY <1>4, <2>2, <2>3, AppendProperties
  <2>5. ASSUME NEW i \in 1..Len(request'.headers)
        PROVE  \E at \in Nat : /\ at >= 3 /\ CrLf(buffer, at - 2)
                               /\ LineEnd(buffer, at) # 0
                               /\ LineEnd(buffer, at) + 2 <= pos'
                               /\ LineAt(buffer, at) = request'.headers[i]
    <3>1. CASE i \in 1..Len(request.headers)
      BY <1>7, <2>4, <3>1
    <3>2. CASE i = Len(request.headers) + 1
      <4>1. LineEnd(buffer, pos) + 2 <= pos'
        BY <1>1, <1>3
      <4> QED BY <1>1, <1>2, <2>4, <3>2, <4>1
    <3> QED BY <1>4, <2>4, <3>1, <3>2
  <2>6. EndBefore'
    BY <1>1, <2>5 DEF EndBefore, EndsBefore
  <2>7. 1..Len(request'.headers) - 1 = 1..Len(request.headers)
    BY <1>4, <2>4
  <2>8. OneLineRunsOn'
    BY <1>6, <1>7, <2>4, <2>7 DEF OneLineRunsOn
  <2> QED BY <2>6, <2>8 DEF RunsInv
<1>9. CASE ~HasColon(LineAt(buffer, pos))
  <2>1. request' = request
    BY <1>9 DEF HeaderLine
  <2>2. EndBefore'
    BY <1>1, <1>7, <2>1 DEF EndBefore, EndsBefore
  <2>3. OneLineRunsOn'
    BY <1>1, <1>6, <2>1 DEF OneLineRunsOn, RunsInv
  <2> QED BY <2>2, <2>3 DEF RunsInv
<1> QED BY <1>8, <1>9

LEMMA RunsStep == TypeInv /\ RunsInv /\ [Next]_vars => RunsInv'
<1> SUFFICES ASSUME TypeInv, RunsInv, [Next]_vars PROVE RunsInv'
  OBVIOUS
<1>1. CASE \E bytes \in Arrivals : Read(bytes)
  <2>1. pc' = "parse"
    BY <1>1 DEF Read
  <2> QED BY <2>1, RunsElsewhere
<1>2. CASE ReadFails
  <2>1. pc' = "read"
    BY <1>2 DEF ReadFails
  <2> QED BY <2>1, RunsElsewhere
<1>3. CASE RequestLine
  BY <1>3, RunsRequestLine
<1>4. CASE BlankLine
  <2>1. /\ pc = "headers" /\ pc' = "handle" /\ UNCHANGED <<buffer, position>>
        /\ request' = [request EXCEPT !.offset = pos + 1]
    BY <1>4 DEF BlankLine, AtLine
  <2>2. request'.headers = request.headers
    <3>1. request \in Requests
      BY DEF TypeInv, TypeOK
    <3> QED BY <2>1, <3>1 DEF Requests
  <2> QED BY <2>1, <2>2, RunsEnd
<1>5. CASE HeaderLine
  BY <1>5, RunsHeaderLine
<1>6. CASE HeadersEnd
  <2>1. /\ pc = "headers" /\ pc' = "handle" /\ UNCHANGED <<buffer, position>>
        /\ request'.headers = request.headers
    BY <1>6 DEF HeadersEnd
  <2> QED BY <2>1, RunsEnd
<1>7. CASE Handle
  <2>1. pc' = "read"
    BY <1>7 DEF Handle
  <2> QED BY <2>1, RunsElsewhere
<1>8. CASE UNCHANGED vars
  BY <1>8 DEF vars, RunsInv, EndBefore, EndsBefore, OneLineRunsOn, Received
<1> QED BY <1>1, <1>2, <1>3, <1>4, <1>5, <1>6, <1>7, <1>8 DEF Next

\* A request that is cut takes at most the end of its last header from what was
\* left in the buffer, wherever the cut is.
THEOREM RunsOnCorrect == Spec => []OneLineRunsOn
<1>1. Init => RunsInv
  BY RunsInit
<1>2. TypeInv /\ RunsInv /\ [Next]_vars => RunsInv'
  BY RunsStep
<1>3. RunsInv => OneLineRunsOn
  BY DEF RunsInv
<1> QED BY <1>1, <1>2, <1>3, TypeAlways, PTL DEF Spec

-------------------------------------------------------------------------------
\* A whole head.

PlacesBefore(p) == {at \in HeaderPlaces(Received) : at < p}

\* In a read with a whole head the loop has found the header lines before pos,
\* and does not pass the blank line.
Found ==
    pc = "headers" /\ Whole(Received) =>
        /\ request.method = Method(LineAt(Received, 1))
        /\ pos <= HeadEnd(Received)
        /\ AreLines(request.headers, Received, PlacesBefore(pos))

WholeInv == Found /\ WholeHeadIsOwn

\* Nothing is read as no lines.
LEMMA NoLines == ASSUME NEW bytes PROVE AreLines(<<>>, bytes, {})
<1> DEFINE at == [i \in {} |-> i]
<1>1. DOMAIN <<>> = {} /\ at \in [{} -> {}]
  OBVIOUS
<1>2. at \in [DOMAIN <<>> -> {}]
  BY <1>1
<1> HIDE DEF at
<1> QED BY <1>1, <1>2 DEF AreLines

\* One more line, behind the others.
LEMMA OneMoreLine ==
    ASSUME NEW headers \in Seq(Seq(Pieces)), NEW bytes, NEW places \in SUBSET Nat,
           NEW p \in Nat, \A q \in places : q < p,
           LineAt(bytes, p) \in Seq(Pieces), AreLines(headers, bytes, places)
    PROVE  AreLines(Append(headers, LineAt(bytes, p)), bytes, places \cup {p})
<1> DEFINE longer == Append(headers, LineAt(bytes, p))
           n == Len(headers)
<1>1. /\ n \in Nat /\ DOMAIN headers = 1..n
      /\ longer \in Seq(Seq(Pieces)) /\ Len(longer) = n + 1
      /\ \A i \in 1..n : longer[i] = headers[i]
      /\ longer[n + 1] = LineAt(bytes, p)
  <2>1. n \in Nat /\ DOMAIN headers = 1..n
    OBVIOUS
  <2> QED BY <2>1, AppendProperties
<1>2. DOMAIN longer = 1..(n + 1)
  BY <1>1
<1> HIDE DEF longer, n
<1>3. PICK at \in [1..n -> places] :
        /\ \A q \in places : \E i \in 1..n : at[i] = q
        /\ \A i, j \in 1..n : i < j => at[i] < at[j]
        /\ \A i \in 1..n : headers[i] = LineAt(bytes, at[i])
  BY <1>1 DEF AreLines
<1> DEFINE on == [i \in 1..(n + 1) |-> IF i = n + 1 THEN p ELSE at[i]]
<1>4. /\ on[n + 1] = p /\ \A i \in 1..n : on[i] = at[i]
      /\ on \in [1..(n + 1) -> places \cup {p}]
  <2>1. n + 1 \in 1..(n + 1) /\ \A i \in 1..n : i \in 1..(n + 1) /\ i # n + 1
    BY <1>1
  <2>2. \A i \in 1..(n + 1) : i = n + 1 \/ i \in 1..n
    BY <1>1
  <2> QED BY <2>1, <2>2
<1> HIDE DEF on
<1>5. ASSUME NEW q \in places \cup {p} PROVE \E i \in 1..(n + 1) : on[i] = q
  <2>1. CASE q = p
    BY <1>1, <1>4, <2>1
  <2>2. CASE q \in places
    <3>1. PICK i \in 1..n : at[i] = q
      BY <1>3, <2>2
    <3>2. i \in 1..(n + 1) /\ on[i] = q
      BY <1>1, <1>4, <3>1
    <3> QED BY <3>2
  <2> QED BY <2>1, <2>2
<1>6. ASSUME NEW i \in 1..(n + 1), NEW j \in 1..(n + 1), i < j PROVE on[i] < on[j]
  <2>1. i \in 1..n /\ on[i] = at[i] /\ at[i] \in places
    <3>1. i \in 1..n
      BY <1>1, <1>6
    <3> QED BY <1>3, <1>4, <3>1
  <2>2. CASE j = n + 1
    BY <1>4, <2>1, <2>2
  <2>3. CASE j \in 1..n
    BY <1>3, <1>4, <1>6, <2>1, <2>3
  <2> QED BY <1>1, <2>2, <2>3
<1>7. ASSUME NEW i \in 1..(n + 1) PROVE longer[i] = LineAt(bytes, on[i])
  <2>1. CASE i = n + 1
    BY <1>1, <1>4, <2>1
  <2>2. CASE i \in 1..n
    BY <1>1, <1>3, <1>4, <2>2
  <2> QED BY <1>1, <2>1, <2>2
<1>8. AreLines(longer, bytes, places \cup {p})
  <2>1. on \in [DOMAIN longer -> places \cup {p}]
    BY <1>2, <1>4
  <2>2. \A q \in places \cup {p} : \E i \in DOMAIN longer : on[i] = q
    BY <1>2, <1>5
  <2>3. \A i, j \in DOMAIN longer : i < j => on[i] < on[j]
    BY <1>2, <1>6
  <2>4. \A i \in DOMAIN longer : longer[i] = LineAt(bytes, on[i])
    BY <1>2, <1>7
  <2> QED BY <2>1, <2>2, <2>3, <2>4 DEF AreLines
<1> QED BY <1>8 DEF longer

\* Lines that were found are not more than there are places.
LEMMA LinesCount ==
    ASSUME NEW headers \in Seq(Seq(Pieces)), NEW bytes, NEW places \in SUBSET Nat,
           IsFiniteSet(places), AreLines(headers, bytes, places)
    PROVE  Len(headers) <= Cardinality(places)
<1> DEFINE n == Len(headers)
<1>1. n \in Nat /\ DOMAIN headers = 1..n
  OBVIOUS
<1> HIDE DEF n
<1>2. PICK at \in [1..n -> places] : \A i, j \in 1..n : i < j => at[i] < at[j]
  BY <1>1 DEF AreLines
<1>3. ASSUME NEW i \in 1..n, NEW j \in 1..n, at[i] = at[j] PROVE i = j
  <2>1. i \in Int /\ j \in Int
    BY <1>1
  <2>2. at[i] \in places
    BY <1>2
  <2>3. at[i] \in Nat
    BY <2>2
  <2>4. ~(i < j) /\ ~(j < i)
    BY <1>2, <1>3, <2>3
  <2> QED BY <2>1, <2>4
<1>4. at \in Injection(1..n, places)
  BY <1>2, <1>3 DEF Injection, IsInjective
<1>5. Cardinality(1..n) <= Cardinality(places)
  BY <1>4, FS_Injection
<1>6. Cardinality(1..n) = n
  <2>1. CASE n = 0
    BY <2>1, FS_EmptySet
  <2>2. CASE n # 0
    BY <1>1, <2>2, FS_Interval
  <2> QED BY <2>1, <2>2
<1> QED BY <1>5, <1>6 DEF n

LEMMA PlacesFinite ==
    ASSUME TypeOK
    PROVE  /\ HeaderPlaces(Received) \in SUBSET (3..position)
           /\ IsFiniteSet(HeaderPlaces(Received))
           /\ \A p : /\ PlacesBefore(p) \in SUBSET Nat /\ IsFiniteSet(PlacesBefore(p))
                     /\ Cardinality(PlacesBefore(p)) <= Cardinality(HeaderPlaces(Received))
<1>1. position \in Nat /\ Len(Received) = position
  BY ReceivedIs DEF TypeOK
<1>2. HeaderPlaces(Received) \in SUBSET (3..position)
  BY <1>1 DEF HeaderPlaces, LineStarts
<1>3. IsFiniteSet(HeaderPlaces(Received))
  <2>1. IsFiniteSet(3..position)
    BY <1>1, FS_Interval
  <2> QED BY <1>2, <2>1, FS_Subset
<1>4. ASSUME NEW p
      PROVE  /\ PlacesBefore(p) \in SUBSET Nat /\ IsFiniteSet(PlacesBefore(p))
             /\ Cardinality(PlacesBefore(p)) <= Cardinality(HeaderPlaces(Received))
  <2>1. PlacesBefore(p) \in SUBSET HeaderPlaces(Received)
    BY DEF PlacesBefore
  <2> QED BY <1>1, <1>2, <1>3, <2>1, FS_Subset
<1> QED BY <1>2, <1>3, <1>4

\* At a line of a whole head the loop goes on, and takes the blank line for the
\* first blank one of the read.
LEMMA AtHead ==
    ASSUME TypeInv, Found, pc = "headers", Whole(Received)
    PROVE  /\ pos \in Nat /\ pos >= 3 /\ pos <= HeadEnd(Received)
           /\ CrLf(Received, pos - 2) /\ pos \in LineStarts(Received)
           /\ More(buffer, position, pos, request.headers)
           /\ Blank(buffer, position, pos) <=> pos = HeadEnd(Received)
<1>1. /\ HeadEnd(Received) \in Nat /\ HeadEnd(Received) + 1 <= position
      /\ CrLf(Received, HeadEnd(Received))
      /\ \A at \in LineStarts(Received) : CrLf(Received, at) => HeadEnd(Received) <= at
  BY HeadIs DEF TypeInv
<1>2. /\ pos \in Nat /\ pos >= 3 /\ pos <= HeadEnd(Received)
      /\ CrLf(buffer, pos - 2) /\ position \in Nat
  BY DEF TypeInv, TypeOK, Scanning, Found
<1>3. pos - 2 \in Nat \ {0} /\ (pos - 2) + 1 <= position /\ pos <= position
      /\ pos \in Nat \ {0} /\ pos \in 3..position /\ pos + 1 <= position
  BY <1>1, <1>2
<1>4. CrLf(Received, pos - 2) /\ (CrLf(Received, pos) <=> CrLf(buffer, pos))
  BY <1>2, <1>3, ReceivedIs DEF TypeInv
<1>5. pos \in LineStarts(Received)
  BY <1>3, <1>4, ReceivedIs DEF LineStarts, TypeInv
<1>6. More(buffer, position, pos, request.headers)
  <2>1. request.headers \in Seq(Seq(Pieces)) /\ Len(request.headers) \in Nat
    <3>1. request.headers \in Seq(Seq(Pieces))
      BY RequestType DEF TypeInv
    <3> QED BY <3>1
  <2>2. /\ PlacesBefore(pos) \in SUBSET Nat /\ IsFiniteSet(PlacesBefore(pos))
        /\ Cardinality(PlacesBefore(pos)) <= Cardinality(HeaderPlaces(Received))
        /\ IsFiniteSet(HeaderPlaces(Received))
    BY PlacesFinite DEF TypeInv
  <2>3. AreLines(request.headers, Received, PlacesBefore(pos))
    BY DEF Found
  <2>4. Len(request.headers) <= Cardinality(PlacesBefore(pos))
    BY <2>1, <2>2, <2>3, LinesCount
  <2>5. Cardinality(HeaderPlaces(Received)) < MaxHeaders
    BY DEF Whole
  <2>6. Cardinality(PlacesBefore(pos)) \in Nat /\ Cardinality(HeaderPlaces(Received)) \in Nat
    BY <2>2, FS_CardinalityType
  <2>7. Len(request.headers) < MaxHeaders
    BY <2>1, <2>2, <2>4, <2>5, <2>6, BufferAssumption
  <2> QED BY <1>3, <2>7 DEF More
<1>7. Blank(buffer, position, pos) <=> pos = HeadEnd(Received)
  <2>1. ASSUME Blank(buffer, position, pos) PROVE pos = HeadEnd(Received)
    <3>1. CrLf(Received, pos)
      BY <1>4, <2>1 DEF Blank
    <3>2. HeadEnd(Received) <= pos
      BY <1>1, <1>5, <3>1
    <3> QED BY <1>1, <1>2, <3>2
  <2>2. ASSUME pos = HeadEnd(Received) PROVE Blank(buffer, position, pos)
    BY <1>1, <1>3, <1>4, <2>2 DEF Blank
  <2> QED BY <2>1, <2>2
<1> QED BY <1>2, <1>4, <1>5, <1>6, <1>7

\* The next line of a whole head begins behind the first line end, and no line
\* begins in between.
LEMMA NextLine ==
    ASSUME TypeOK, Whole(Received), NEW at \in Nat \ {0},
           \E i \in Nat : /\ i >= at /\ i + 2 <= HeadEnd(Received) /\ CrLf(Received, i)
    PROVE  /\ LineEnd(Received, at) \in Nat /\ LineEnd(Received, at) >= at
           /\ LineEnd(Received, at) + 2 <= HeadEnd(Received)
           /\ LineEnd(Received, at) = LineEnd(buffer, at) /\ LineEnd(buffer, at) # 0
           /\ LineAt(Received, at) = LineAt(buffer, at)
           /\ \A s \in LineStarts(Received) :
                 s < LineEnd(Received, at) + 2 => s < at + 2
<1>1. PICK i \in Nat : i >= at /\ i + 2 <= HeadEnd(Received) /\ CrLf(Received, i)
  OBVIOUS
<1>2. Received \in Seq(Pieces) /\ HeadEnd(Received) \in Nat
  BY HeadIs, ReceivedIs
<1>3. LineEnd(Received, at) # 0
  <2>1. \A k \in at..i : Received[k] # "nul"
    BY <1>1, <1>2 DEF Whole
  <2>2. ~(\E k \in at..i : Received[k] = "nul")
    BY <2>1
  <2>3. \/ \A j \in Nat : j >= at /\ CrLf(Received, j)
                          => \E k \in at..j : Received[k] = "nul"
        \/ LineEnd(Received, at) \in Nat /\ LineEnd(Received, at) >= at
    BY <1>2, LineEndIs
  <2> QED BY <1>1, <2>2, <2>3
<1>4. /\ LineEnd(Received, at) \in Nat /\ LineEnd(Received, at) >= at
      /\ \A j \in Nat : j >= at /\ j < LineEnd(Received, at) => ~CrLf(Received, j)
  BY <1>2, <1>3, LineEndIs
<1>5. LineEnd(Received, at) <= i
  BY <1>1, <1>4
<1>6. LineEnd(Received, at) + 2 <= HeadEnd(Received)
  BY <1>1, <1>2, <1>4, <1>5
<1>7. /\ LineEnd(Received, at) = LineEnd(buffer, at) /\ LineEnd(buffer, at) # 0
      /\ LineAt(Received, at) = LineAt(buffer, at)
  BY <1>3, LineReceived
<1>8. ASSUME NEW s \in LineStarts(Received), s < LineEnd(Received, at) + 2
      PROVE  s < at + 2
  <2>1. s \in Nat /\ s >= 3 /\ CrLf(Received, s - 2) /\ s - 2 \in Nat
    <3>1. Len(Received) \in Nat
      BY <1>2
    <3> QED BY <3>1 DEF LineStarts
  <2>2. ~(s - 2 >= at)
    BY <1>4, <1>8, <2>1
  <2> QED BY <2>1, <2>2
<1> QED BY <1>4, <1>6, <1>7, <1>8

LEMMA WholeInit == Init => WholeInv
BY DEF Init, WholeInv, Found, WholeHeadIsOwn

\* Outside the parser nothing is said.
LEMMA WholeElsewhere ==
    ASSUME pc' \notin {"headers", "handle"} PROVE WholeInv'
BY DEF WholeInv, Found, WholeHeadIsOwn

\* What a read says depends on its bytes alone.
LEMMA SaysKept ==
    ASSUME Received' = Received
    PROVE  /\ Whole(Received)' = Whole(Received)
           /\ HeadEnd(Received)' = HeadEnd(Received)
           /\ HeaderPlaces(Received)' = HeaderPlaces(Received)
           /\ LineAt(Received, 1)' = LineAt(Received, 1)
           /\ \A p : {at \in HeaderPlaces(Received)' : at < p} = PlacesBefore(p)
           /\ \A headers, places :
                 AreLines(headers, Received', places) = AreLines(headers, Received, places)
<1>1. /\ Whole(Received)' = Whole(Received)
      /\ HeadEnd(Received)' = HeadEnd(Received)
      /\ HeaderPlaces(Received)' = HeaderPlaces(Received)
      /\ LineAt(Received, 1)' = LineAt(Received, 1)
  BY DEF Whole, HeadEnd, HeaderPlaces, LineAt, LineEnd, BlankLines, LineStarts, CrLf
<1> QED BY <1>1 DEF PlacesBefore

LEMMA WholeRequestLine == ASSUME TypeInv, RequestLine PROVE WholeInv'
<1>1. UNCHANGED <<buffer, position>> /\ Received' = Received
  BY DEF RequestLine, Received
<1> SUFFICES ASSUME Whole(Received) PROVE WholeInv'
  BY <1>1, SaysKept DEF WholeInv, Found, WholeHeadIsOwn
<1>2. /\ HeadEnd(Received) \in Nat /\ HeadEnd(Received) >= 3
      /\ CrLf(Received, HeadEnd(Received) - 2)
  BY HeadIs DEF TypeInv
<1>3. \E i \in Nat : i >= 1 /\ i + 2 <= HeadEnd(Received) /\ CrLf(Received, i)
  <2>1. /\ HeadEnd(Received) - 2 \in Nat /\ HeadEnd(Received) - 2 >= 1
        /\ (HeadEnd(Received) - 2) + 2 <= HeadEnd(Received)
    BY <1>2
  <2> QED BY <1>2, <2>1
<1> DEFINE e == LineEnd(Received, 1)
<1>4. /\ e \in Nat /\ e >= 1 /\ e + 2 <= HeadEnd(Received)
      /\ e = LineEnd(buffer, 1) /\ LineEnd(buffer, 1) # 0
      /\ LineAt(Received, 1) = LineAt(buffer, 1)
      /\ \A s \in LineStarts(Received) : s < e + 2 => s < 1 + 2
  BY <1>3, NextLine DEF TypeInv
<1>5. HasSpaces(LineAt(buffer, 1))
  BY <1>4 DEF Whole
<1>6. /\ request' = [Unparsed EXCEPT !.method = Method(LineAt(buffer, 1))]
      /\ pos' = e + 2
      /\ pc' = "headers"
  BY <1>4, <1>5 DEF RequestLine, Behind
<1>7. request'.headers = <<>> /\ request'.method = Method(LineAt(Received, 1))
  BY <1>4, <1>6 DEF Unparsed
<1>8. PlacesBefore(e + 2) = {}
  <2> SUFFICES ASSUME NEW s \in PlacesBefore(e + 2) PROVE FALSE
    OBVIOUS
  <2>1. s \in LineStarts(Received) /\ s < e + 2
    BY DEF PlacesBefore, HeaderPlaces
  <2>2. s < 3
    BY <1>4, <2>1
  <2>3. s \in Nat /\ s >= 3
    <3>1. Len(Received) \in Nat
      BY ReceivedIs DEF TypeInv, TypeOK
    <3> QED BY <2>1, <3>1 DEF LineStarts
  <2> QED BY <2>2, <2>3
<1> HIDE DEF e
<1>9. AreLines(request'.headers, Received, PlacesBefore(pos'))
  BY <1>6, <1>7, <1>8, NoLines
<1>10. Found'
  <2>1. AreLines(request.headers, Received, PlacesBefore(pos))'
    BY <1>1, <1>9, SaysKept DEF PlacesBefore
  <2> QED BY <1>1, <1>4, <1>6, <1>7, <2>1, SaysKept DEF Found
<1> QED BY <1>6, <1>10 DEF WholeInv, WholeHeadIsOwn

LEMMA WholeBlankLine == ASSUME TypeInv, WholeInv, BlankLine PROVE WholeInv'
<1>1. /\ pc = "headers" /\ pc' = "handle"
      /\ Blank(buffer, position, pos)
      /\ request' = [request EXCEPT !.offset = pos + 1]
      /\ UNCHANGED <<buffer, position>> /\ Received' = Received
  BY DEF BlankLine, AtLine, Received
<1> SUFFICES ASSUME Whole(Received) PROVE WholeInv'
  BY <1>1, SaysKept DEF WholeInv, Found, WholeHeadIsOwn
<1>2. pos = HeadEnd(Received)
  BY <1>1, AtHead DEF WholeInv
<1>3. /\ request.method = Method(LineAt(Received, 1))
      /\ AreLines(request.headers, Received, PlacesBefore(pos))
  BY <1>1 DEF WholeInv, Found
<1>4. PlacesBefore(HeadEnd(Received)) = HeaderPlaces(Received)
  BY DEF PlacesBefore, HeaderPlaces
<1>5. /\ request'.method = request.method /\ request'.headers = request.headers
      /\ request'.offset = pos + 1
  <2>1. request \in Requests
    BY DEF TypeInv, TypeOK
  <2> QED BY <1>1, <2>1 DEF Requests
<1>6. WholeHeadIsOwn'
  BY <1>1, <1>2, <1>3, <1>4, <1>5, SaysKept DEF WholeHeadIsOwn
<1> QED BY <1>1, <1>6 DEF WholeInv, Found

LEMMA WholeHeadersEnd == ASSUME TypeInv, WholeInv, HeadersEnd PROVE WholeInv'
<1>1. /\ pc = "headers" /\ pc' = "handle"
      /\ UNCHANGED <<buffer, position>> /\ Received' = Received
  BY DEF HeadersEnd, Received
<1> SUFFICES ASSUME Whole(Received) PROVE FALSE
  BY <1>1, SaysKept DEF WholeInv, Found, WholeHeadIsOwn
\* The loop does not end before the blank line.
<1>2. /\ More(buffer, position, pos, request.headers)
      /\ Blank(buffer, position, pos) <=> pos = HeadEnd(Received)
      /\ pos \in Nat /\ pos >= 3 /\ pos <= HeadEnd(Received) /\ CrLf(Received, pos - 2)
  BY <1>1, AtHead DEF WholeInv
<1>3. pos # HeadEnd(Received) /\ LineEnd(buffer, pos) = 0
  BY <1>2 DEF HeadersEnd
<1>4. /\ HeadEnd(Received) \in Nat /\ CrLf(Received, HeadEnd(Received) - 2)
  BY HeadIs DEF TypeInv
<1>5. HeadEnd(Received) # pos + 1
  <2> SUFFICES ASSUME HeadEnd(Received) = pos + 1 PROVE FALSE
    OBVIOUS
  <2>1. HeadEnd(Received) - 2 = (pos - 2) + 1 /\ pos - 2 \in Nat
    BY <1>2
  <2> QED BY <1>2, <1>4, <2>1, CrLfApart
<1>6. \E i \in Nat : i >= pos /\ i + 2 <= HeadEnd(Received) /\ CrLf(Received, i)
  <2>1. /\ HeadEnd(Received) - 2 \in Nat /\ HeadEnd(Received) - 2 >= pos
        /\ (HeadEnd(Received) - 2) + 2 <= HeadEnd(Received)
    BY <1>2, <1>3, <1>4, <1>5
  <2> QED BY <1>4, <2>1
<1> QED BY <1>2, <1>3, <1>6, NextLine DEF TypeInv

LEMMA WholeHeaderLine == ASSUME TypeInv, WholeInv, HeaderLine PROVE WholeInv'
<1>1. /\ pc = "headers" /\ pc' = "headers"
      /\ ~Blank(buffer, position, pos)
      /\ pos' = LineEnd(buffer, pos) + 2
      /\ UNCHANGED <<buffer, position>> /\ Received' = Received
  BY DEF HeaderLine, AtLine, Received, Behind
<1> SUFFICES ASSUME Whole(Received) PROVE WholeInv'
  BY <1>1, SaysKept DEF WholeInv, Found, WholeHeadIsOwn
<1>2. /\ pos # HeadEnd(Received)
      /\ pos \in Nat \ {0} /\ pos >= 3 /\ pos <= HeadEnd(Received)
      /\ CrLf(Received, pos - 2) /\ pos \in LineStarts(Received)
  BY <1>1, AtHead DEF WholeInv
<1>3. /\ HeadEnd(Received) \in Nat /\ CrLf(Received, HeadEnd(Received) - 2)
  BY HeadIs DEF TypeInv
<1>4. HeadEnd(Received) # pos + 1
  <2> SUFFICES ASSUME HeadEnd(Received) = pos + 1 PROVE FALSE
    OBVIOUS
  <2>1. HeadEnd(Received) - 2 = (pos - 2) + 1 /\ pos - 2 \in Nat
    BY <1>2
  <2> QED BY <1>2, <1>3, <2>1, CrLfApart
<1>5. \E i \in Nat : i >= pos /\ i + 2 <= HeadEnd(Received) /\ CrLf(Received, i)
  <2>1. /\ HeadEnd(Received) - 2 \in Nat /\ HeadEnd(Received) - 2 >= pos
        /\ (HeadEnd(Received) - 2) + 2 <= HeadEnd(Received)
    BY <1>2, <1>3, <1>4
  <2> QED BY <1>3, <2>1
<1>6. /\ LineEnd(Received, pos) \in Nat /\ LineEnd(Received, pos) >= pos
      /\ LineEnd(Received, pos) + 2 <= HeadEnd(Received)
      /\ LineEnd(Received, pos) = LineEnd(buffer, pos)
      /\ LineAt(Received, pos) = LineAt(buffer, pos)
      /\ \A s \in LineStarts(Received) : s < LineEnd(Received, pos) + 2 => s < pos + 2
  BY <1>2, <1>5, NextLine DEF TypeInv
<1>7. pos' = LineEnd(Received, pos) + 2 /\ pos' <= HeadEnd(Received) /\ pos' > pos
      /\ pos < HeadEnd(Received)
  BY <1>1, <1>2, <1>3, <1>6
\* No line begins at pos + 1, so pos is the only new place.
<1>8. \A s \in LineStarts(Received) : s \in Nat /\ (s < pos' <=> s <= pos)
  <2> SUFFICES ASSUME NEW s \in LineStarts(Received)
               PROVE  s \in Nat /\ (s < pos' <=> s <= pos)
    OBVIOUS
  <2>1. s \in Nat /\ s >= 3 /\ CrLf(Received, s - 2)
    <3>1. Len(Received) \in Nat
      BY ReceivedIs DEF TypeInv, TypeOK
    <3> QED BY <3>1 DEF LineStarts
  <2>2. s # pos + 1
    <3> SUFFICES ASSUME s = pos + 1 PROVE FALSE
      OBVIOUS
    <3>1. s - 2 = (pos - 2) + 1 /\ pos - 2 \in Nat
      BY <1>2
    <3> QED BY <1>2, <2>1, <3>1, CrLfApart
  <2>3. s < pos' => s < pos + 2
    BY <1>6, <1>7
  <2> QED BY <1>2, <1>6, <1>7, <2>1, <2>2, <2>3
<1>9. \A s \in HeaderPlaces(Received) : s \in LineStarts(Received) /\ s \in Nat
  BY <1>8 DEF HeaderPlaces
<1>10. /\ request.method = Method(LineAt(Received, 1))
       /\ AreLines(request.headers, Received, PlacesBefore(pos))
  BY <1>1 DEF WholeInv, Found
<1>11. request \in Requests /\ request.headers \in Seq(Seq(Pieces))
  BY RequestType DEF TypeInv, TypeOK
<1>12. request'.method = request.method
       /\ AreLines(request'.headers, Received, PlacesBefore(pos'))
  <2>1. CASE HasColon(LineAt(buffer, pos))
    <3>1. request' = [request EXCEPT !.headers = Append(request.headers, LineAt(buffer, pos))]
      BY <2>1 DEF HeaderLine
    <3>2. /\ request'.headers = Append(request.headers, LineAt(Received, pos))
          /\ request'.method = request.method
      BY <1>6, <1>11, <3>1 DEF Requests
    <3>3. pos \in HeaderPlaces(Received)
      BY <1>2, <1>6, <1>7, <2>1 DEF HeaderPlaces
    <3>4. PlacesBefore(pos') = PlacesBefore(pos) \cup {pos}
      <4>1. \A s \in HeaderPlaces(Received) : s < pos' <=> s < pos \/ s = pos
        BY <1>2, <1>8, <1>9
      <4> QED BY <3>3, <4>1 DEF PlacesBefore
    <3>5. PlacesBefore(pos) \in SUBSET Nat /\ \A q \in PlacesBefore(pos) : q < pos
      BY <1>9 DEF PlacesBefore
    <3>6. LineAt(Received, pos) \in Seq(Pieces)
      BY <1>2, LineIs, ReceivedIs DEF TypeInv
    <3>7. AreLines(Append(request.headers, LineAt(Received, pos)), Received,
                   PlacesBefore(pos) \cup {pos})
      BY <1>2, <1>10, <1>11, <3>5, <3>6, OneMoreLine
    <3> QED BY <3>2, <3>4, <3>7
  <2>2. CASE ~HasColon(LineAt(buffer, pos))
    <3>1. request' = request
      BY <2>2 DEF HeaderLine
    <3>2. pos \notin HeaderPlaces(Received)
      BY <1>6, <2>2 DEF HeaderPlaces
    <3>3. PlacesBefore(pos') = PlacesBefore(pos)
      <4>1. \A s \in HeaderPlaces(Received) : s < pos' <=> s < pos
        BY <1>2, <1>8, <1>9, <3>2
      <4> QED BY <4>1 DEF PlacesBefore
    <3> QED BY <1>10, <3>1, <3>3
  <2> QED BY <2>1, <2>2
<1>13. Found'
  <2>1. AreLines(request.headers, Received, PlacesBefore(pos))'
    BY <1>1, <1>12, SaysKept DEF PlacesBefore
  <2> QED BY <1>1, <1>7, <1>10, <1>12, <2>1, SaysKept DEF Found
<1> QED BY <1>1, <1>13 DEF WholeInv, WholeHeadIsOwn

LEMMA WholeStep == TypeInv /\ WholeInv /\ [Next]_vars => WholeInv'
<1> SUFFICES ASSUME TypeInv, WholeInv, [Next]_vars PROVE WholeInv'
  OBVIOUS
<1>1. CASE \E bytes \in Arrivals : Read(bytes)
  <2>1. pc' = "parse"
    BY <1>1 DEF Read
  <2> QED BY <2>1, WholeElsewhere
<1>2. CASE ReadFails
  <2>1. pc' = "read"
    BY <1>2 DEF ReadFails
  <2> QED BY <2>1, WholeElsewhere
<1>3. CASE RequestLine
  BY <1>3, WholeRequestLine
<1>4. CASE BlankLine
  BY <1>4, WholeBlankLine
<1>5. CASE HeaderLine
  BY <1>5, WholeHeaderLine
<1>6. CASE HeadersEnd
  BY <1>6, WholeHeadersEnd
<1>7. CASE Handle
  <2>1. pc' = "read"
    BY <1>7 DEF Handle
  <2> QED BY <2>1, WholeElsewhere
<1>8. CASE UNCHANGED vars
  <2>1. Received' = Received /\ UNCHANGED <<pc, pos, request>>
    BY <1>8 DEF vars, Received
  <2>2. AreLines(request.headers, Received, PlacesBefore(pos))'
        = AreLines(request.headers, Received, PlacesBefore(pos))
    BY <2>1, SaysKept DEF PlacesBefore
  <2>3. AreLines(request.headers, Received, HeaderPlaces(Received))'
        = AreLines(request.headers, Received, HeaderPlaces(Received))
    BY <2>1, SaysKept
  <2> QED BY <2>1, <2>2, <2>3, SaysKept DEF WholeInv, Found, WholeHeadIsOwn
<1> QED BY <1>1, <1>2, <1>3, <1>4, <1>5, <1>6, <1>7, <1>8 DEF Next

LEMMA WholeAlways == Spec => []WholeInv
<1>1. Init => WholeInv
  BY WholeInit
<1>2. TypeInv /\ WholeInv /\ [Next]_vars => WholeInv'
  BY WholeStep
<1> QED BY <1>1, <1>2, TypeAlways, PTL DEF Spec

\* A request whose head arrives whole is parsed as what it says, whatever reads
\* came before it.
THEOREM WholeHeadCorrect == Spec => []WholeHeadIsOwn
<1>1. WholeInv => WholeHeadIsOwn
  BY DEF WholeInv
<1> QED BY <1>1, WholeAlways, PTL

-------------------------------------------------------------------------------
\* The content.

\* The length a whole head says.
SaidLength ==
    IF \E at \in HeaderPlaces(Received) : Received[at] = "length" THEN Length ELSE 0

\* Every header begins with the first piece of its line.
LEMMA LengthIsSaid ==
    ASSUME TypeInv, Whole(Received),
           AreLines(request.headers, Received, HeaderPlaces(Received))
    PROVE  ContentLength(request.headers) = SaidLength
<1>1. PICK at \in [DOMAIN request.headers -> HeaderPlaces(Received)] :
        /\ \A p \in HeaderPlaces(Received) : \E i \in DOMAIN request.headers : at[i] = p
        /\ \A i \in DOMAIN request.headers :
              request.headers[i] = LineAt(Received, at[i])
  BY DEF AreLines
<1>2. ASSUME NEW p \in HeaderPlaces(Received) PROVE LineAt(Received, p)[1] = Received[p]
  <2>1. HasColon(LineAt(Received, p)) /\ p \in Nat \ {0}
    BY PlacesFinite DEF HeaderPlaces, TypeInv
  <2>2. LineAt(Received, p) # <<>>
    BY <2>1 DEF HasColon
  <2> QED BY <2>1, <2>2, LineIs, ReceivedIs DEF TypeInv
<1>3. \A i \in DOMAIN request.headers : request.headers[i][1] = Received[at[i]]
  <2> SUFFICES ASSUME NEW i \in DOMAIN request.headers
               PROVE  request.headers[i][1] = Received[at[i]]
    OBVIOUS
  <2>1. at[i] \in HeaderPlaces(Received)
    BY <1>1
  <2> QED BY <1>1, <1>2, <2>1
<1>4. (\E i \in DOMAIN request.headers : request.headers[i][1] = "length")
      <=> \E p \in HeaderPlaces(Received) : Received[p] = "length"
  <2>1. ASSUME NEW i \in DOMAIN request.headers, request.headers[i][1] = "length"
        PROVE  \E p \in HeaderPlaces(Received) : Received[p] = "length"
    <3>1. at[i] \in HeaderPlaces(Received)
      BY <1>1
    <3> QED BY <1>3, <2>1, <3>1
  <2>2. ASSUME NEW p \in HeaderPlaces(Received), Received[p] = "length"
        PROVE  \E i \in DOMAIN request.headers : request.headers[i][1] = "length"
    <3>1. PICK i \in DOMAIN request.headers : at[i] = p
      BY <1>1
    <3> QED BY <1>3, <2>2, <3>1
  <2> QED BY <2>1, <2>2
<1> QED BY <1>4 DEF ContentLength, SaidLength

\* The request line of a whole head begins with the read.
LEMMA MethodIsFirst ==
    ASSUME TypeOK, Whole(Received)
    PROVE  Received[1] = "POST" => Method(LineAt(Received, 1)) = "POST"
<1>1. LineAt(Received, 1) # <<>> /\ HasSpace(LineAt(Received, 1))
  BY SpacesAreSpace DEF Whole
<1>2. LineAt(Received, 1)[1] = Received[1]
  <2>1. 1 \in Nat \ {0} /\ Received \in Seq(Pieces)
    BY ReceivedIs
  <2> QED BY <1>1, <2>1, LineIs
<1> QED BY <1>1, <1>2 DEF Method, RequestLines

\* A part of a part of the buffer.
LEMMA PartOfBody ==
    ASSUME TypeOK, NEW h \in Nat, h + 1 <= position,
           NEW n \in Nat, n <= position - (h + 1)
    PROVE  /\ Len(SubSeq(Received, h + 2, Len(Received))) = position - (h + 1)
           /\ SubSeq(SubSeq(Received, h + 2, Len(Received)), 1, n)
              = SubSeq(buffer, h + 2, h + 1 + n)
<1>1. /\ buffer \in Seq(Pieces) /\ position \in Nat /\ position <= Len(buffer)
      /\ Len(buffer) \in Nat
      /\ Received \in Seq(Pieces) /\ Len(Received) = position
      /\ \A i \in 1..position : Received[i] = buffer[i]
  BY ReceivedIs DEF TypeOK
<1> DEFINE body == SubSeq(Received, h + 2, Len(Received))
           part == SubSeq(body, 1, n)
           own == SubSeq(buffer, h + 2, h + 1 + n)
<1>2. /\ body \in Seq(Pieces) /\ Len(body) = position - (h + 1)
      /\ \A k \in 1..(position - (h + 1)) : body[k] = Received[h + 2 + k - 1]
  <2>1. /\ h + 2 \in Nat \ {0} /\ position \in Int
        /\ position - (h + 2) + 1 = position - (h + 1)
        /\ (h + 2 <= position \/ position - (h + 1) = 0)
    BY <1>1
  <2>2. /\ body \in Seq(Pieces)
        /\ Len(body) = IF h + 2 <= position THEN position - (h + 2) + 1 ELSE 0
        /\ \A k \in 1..(position - (h + 2) + 1) : body[k] = Received[h + 2 + k - 1]
    BY <1>1, <2>1, PartIs
  <2> QED BY <1>1, <2>1, <2>2
<1>3. /\ own \in Seq(Pieces) /\ Len(own) = n
      /\ \A k \in 1..n : own[k] = buffer[h + 2 + k - 1]
  <2>1. /\ h + 2 \in Nat \ {0} /\ h + 1 + n \in Int /\ h + 1 + n <= Len(buffer)
        /\ (h + 1 + n) - (h + 2) + 1 = n
        /\ (h + 2 <= h + 1 + n \/ n = 0)
        /\ (n = 0 => ~(h + 2 <= h + 1 + n))
    BY <1>1
  <2>2. /\ own \in Seq(Pieces)
        /\ Len(own) = IF h + 2 <= h + 1 + n THEN (h + 1 + n) - (h + 2) + 1 ELSE 0
        /\ \A k \in 1..((h + 1 + n) - (h + 2) + 1) : own[k] = buffer[h + 2 + k - 1]
    BY <1>1, <2>1, PartIs
  <2> QED BY <2>1, <2>2
<1> HIDE DEF body
<1>4. /\ part \in Seq(Pieces) /\ Len(part) = n
      /\ \A k \in 1..n : part[k] = body[k]
  <2>1. 1 \in Nat \ {0} /\ n \in Int /\ n <= Len(body) /\ n - 1 + 1 = n
        /\ (1 <= n \/ n = 0)
    BY <1>1, <1>2
  <2>2. /\ part \in Seq(Pieces) /\ Len(part) = n
        /\ \A k \in 1..n : part[k] = body[1 + k - 1]
    BY <1>2, <2>1, PartIs
  <2> QED BY <2>2
<1> HIDE DEF part, own
<1>5. ASSUME NEW k \in 1..n PROVE part[k] = own[k]
  <2>1. k \in 1..(position - (h + 1)) /\ h + 2 + k - 1 \in 1..position
    BY <1>1
  <2>2. part[k] = Received[h + 2 + k - 1]
    BY <1>2, <1>4, <2>1
  <2>3. own[k] = buffer[h + 2 + k - 1]
    BY <1>3
  <2> QED BY <1>1, <2>1, <2>2, <2>3
<1>6. part = own
  BY <1>3, <1>4, <1>5, SeqEqual
<1> QED BY <1>2, <1>6 DEF part, own, body

LEMMA ContentHandle == ASSUME TypeInv, WholeInv, Handle PROVE ContentIsBody'
<1>1. /\ pc = "handle" /\ pc' = "read" /\ UNCHANGED <<buffer, position, request>>
      /\ Received' = Received
  BY DEF Handle, Received
<1> SUFFICES ASSUME Whole(Received), Received[1] = "POST"
             PROVE  content' = SubSeq(Body(Received), 1,
                                      Smaller(SaidLength, Len(Body(Received))))
  BY <1>1, SaysKept DEF ContentIsBody, SaidLength, Body
<1>2. /\ request.method = Method(LineAt(Received, 1))
      /\ AreLines(request.headers, Received, HeaderPlaces(Received))
      /\ request.offset = HeadEnd(Received) + 1
  BY <1>1 DEF WholeInv, WholeHeadIsOwn
<1>3. content' = Content(request, buffer, position)
  BY <1>2, MethodIsFirst DEF Handle, TypeInv
<1>4. ContentLength(request.headers) = SaidLength /\ SaidLength \in Nat
  BY <1>2, LengthIsSaid, BufferAssumption DEF SaidLength
<1>5. /\ HeadEnd(Received) \in Nat /\ HeadEnd(Received) + 1 <= position /\ position \in Nat
  BY HeadIs DEF TypeInv, TypeOK
<1> DEFINE h == HeadEnd(Received)
           available == position - (h + 1)
           n == Smaller(SaidLength, available)
<1>6. available \in Nat /\ n \in Nat /\ n <= available
  BY <1>4, <1>5 DEF Smaller
<1>7. content' = SubSeq(buffer, h + 1 + 1, h + 1 + n)
  BY <1>2, <1>3, <1>4 DEF Content
<1>8. h + 1 + 1 = h + 2
  BY <1>5
<1> HIDE DEF n
<1>9. /\ Len(SubSeq(Received, h + 2, Len(Received))) = available
      /\ SubSeq(SubSeq(Received, h + 2, Len(Received)), 1, n)
         = SubSeq(buffer, h + 2, h + 1 + n)
  BY <1>5, <1>6, PartOfBody DEF TypeInv
<1>10. Body(Received) = SubSeq(Received, h + 2, Len(Received))
  BY DEF Body
<1>11. content' = SubSeq(Body(Received), 1, n) /\ Len(Body(Received)) = available
  BY <1>7, <1>8, <1>9, <1>10
<1> QED BY <1>11 DEF n

LEMMA ContentStep ==
    TypeInv /\ WholeInv /\ ContentIsBody /\ [Next]_vars => ContentIsBody'
<1> SUFFICES ASSUME TypeInv, WholeInv, ContentIsBody, [Next]_vars PROVE ContentIsBody'
  OBVIOUS
<1>1. CASE Handle
  BY <1>1, ContentHandle
<1>2. CASE ReadFails
  <2>1. position' = 0
    BY <1>2 DEF ReadFails
  <2> QED BY <2>1 DEF ContentIsBody
<1>3. CASE \/ \E bytes \in Arrivals : Read(bytes)
           \/ RequestLine \/ BlankLine \/ HeaderLine \/ HeadersEnd
  <2>1. pc' # "read"
    BY <1>3 DEF Read, RequestLine, BlankLine, HeaderLine, HeadersEnd, AtLine
  <2> QED BY <2>1 DEF ContentIsBody
<1>4. CASE UNCHANGED vars
  <2>1. Received' = Received /\ UNCHANGED <<pc, position, content>>
    BY <1>4 DEF vars, Received
  <2> QED BY <2>1, SaysKept DEF ContentIsBody, Body
<1> QED BY <1>1, <1>2, <1>3, <1>4 DEF Next

\* What the handler of a POST takes is the body of its own request, as far as
\* it arrived and Content-Length says.
THEOREM ContentCorrect == Spec => []ContentIsBody
<1>1. Init => ContentIsBody
  BY DEF Init, ContentIsBody
<1>2. TypeInv /\ WholeInv /\ ContentIsBody /\ [Next]_vars => ContentIsBody'
  BY ContentStep
<1> QED BY <1>1, <1>2, TypeAlways, WholeAlways, PTL DEF Spec
===============================================================================
