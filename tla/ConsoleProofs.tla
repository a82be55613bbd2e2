---------------------------- MODULE ConsoleProofs ----------------------------
(***************************************************************************)
(* Proofs about Console for every number of readers, every buffer and      *)
(* every index width that is a multiple of the buffer's size.              *)
(*                                                                         *)
(* read_index and write_index run around IndexMod and are reduced once     *)
(* more, modulo BufLen, at every access.  The first lemmas say what that   *)
(* double reduction computes; everything else speaks of Contents.          *)
(* NoSleeperOnLine is not inductive alone: it needs that a sleeper sleeps  *)
(* on the channel that a carriage return wakes, and that a read that goes  *)
(* to sleep has room left, so that it stopped because the ring was empty.  *)
(***************************************************************************)
EXTENDS Console, RingFacts, SequenceTheorems

\* Sleepers are readers that wait for the console.
SleepsOnConsole ==
  \A p \in Slots :
    /\ state[p] \in {"runnable", "running", "sleep"}
    /\ state[p] = "sleep" => channel[p] = console_channel /\ pc[p] = "relock"

\* A read that has not returned has room left.
ReadersHaveRoom == \A p \in Slots : pc[p] # "user" => Len(line[p]) < len[p]

\* One place of the ring stays free when nobody types too far ahead.
RingNotFull == Throttled => Unread < BufLen

IInv ==
  /\ TypeOK
  /\ RunningIsCurrent
  /\ SleepsOnConsole
  /\ ReadersHaveRoom
  /\ NoSleeperOnLine
  /\ RingNotFull

Indices == 0..(IndexMod - 1)

-----------------------------------------------------------------------------
(* Where the constants lie. *)
LEMMA ConsFacts ==
  /\ 1 \in Slots
  /\ None \notin Slots
  /\ console_channel \in Channels /\ SleepChannel \in Channels
  /\ None # console_channel
  /\ \A s \in Slots : NextSlot(s) \in Slots
  /\ BufLen \in Nat \ {0} /\ IndexMod \in Nat \ {0}
  /\ 0 \in Indices
BY SchedulerAssumption, ConsoleAssumption DEF Slots, Channels, NextSlot, Indices

(* How far write_index is ahead of read_index. *)
LEMMA Gap ==
  ASSUME NEW r \in Indices, NEW w \in Indices
  PROVE  /\ r <= w => (w + IndexMod - r) % IndexMod = w - r
         /\ r > w => (w + IndexMod - r) % IndexMod = w + IndexMod - r
<1> USE ConsFacts DEF Indices
<1>1. CASE r <= w
  <2>1. w + IndexMod - r \in IndexMod..(2 * IndexMod - 1)
    BY <1>1
  <2> QED
    BY <1>1, <2>1, ModWrap
<1>2. CASE r > w
  <2>1. w + IndexMod - r \in 0..(IndexMod - 1)
    BY <1>2
  <2> QED
    BY <1>2, <2>1, ModSmall
<1> QED
  BY <1>1, <1>2

(* An index steps forward by at most a whole turn. *)
LEMMA Step ==
  ASSUME NEW r \in Indices, NEW n \in 0..IndexMod
  PROVE  /\ r + n < IndexMod => (r + n) % IndexMod = r + n
         /\ r + n >= IndexMod => (r + n) % IndexMod = r + n - IndexMod
<1> USE ConsFacts DEF Indices
<1>1. CASE r + n < IndexMod
  <2>1. r + n \in 0..(IndexMod - 1)
    BY <1>1
  <2> QED
    BY <1>1, <2>1, ModSmall
<1>2. CASE r + n >= IndexMod
  <2>1. r + n \in IndexMod..(2 * IndexMod - 1)
    BY <1>2
  <2>2. (r + n) % IndexMod = (r + n) - IndexMod
    BY <2>1, ModWrap
  <2> QED
    BY <1>2, <2>2
<1> QED
  BY <1>1, <1>2

(* An index that wraps stays at the same place of the buffer. *)
LEMMA SamePlace ==
  ASSUME NEW a \in Int
  PROVE  /\ (a + IndexMod) % BufLen = a % BufLen
         /\ (a - IndexMod) % BufLen = a % BufLen
<1> DEFINE k == IndexMod \div BufLen
<1> USE ConsFacts
<1>1. k \in Int /\ IndexMod = BufLen * k
  BY DivMod, ConsoleAssumption
<1> HIDE DEF k
<1>2. (a + BufLen * k) % BufLen = a % BufLen
  BY <1>1, ModMultiple
<1>3. -k \in Int /\ a - IndexMod = a + BufLen * (-k)
  BY <1>1
<1>4. (a + BufLen * (-k)) % BufLen = a % BufLen
  BY <1>3, ModMultiple
<1> QED
  BY <1>1, <1>2, <1>3, <1>4

(* The width of the indices is at least the buffer's size. *)
LEMMA WidthBound == BufLen <= IndexMod
<1> DEFINE k == IndexMod \div BufLen
<1> USE ConsFacts
<1>1. k \in Int /\ IndexMod = BufLen * k
  BY DivMod, ConsoleAssumption
<1>2. k >= 1
  <2>1. k <= 0 => BufLen * k <= 0
    BY <1>1
  <2> QED
    BY <1>1, <2>1
<1> QED
  BY <1>1, <1>2

(* What TypeOK says of the ring, and the numbers behind it.                 *)
LEMMA RingFactsOf ==
  ASSUME TypeOK
  PROVE  /\ read_index \in Indices /\ write_index \in Indices
         /\ Unread \in 0..(IndexMod - 1)
         /\ \A i \in Nat : i % BufLen \in 0..(BufLen - 1)
         /\ \A i \in Nat : buf[i % BufLen] \in Chars \cup {"nul"}
         /\ Contents \in [1..Unread -> Chars \cup {"nul"}]
         /\ \A i \in 1..Unread : Contents[i] = buf[(read_index + i - 1) % BufLen]
<1> USE ConsFacts
<1>1. read_index \in Indices /\ write_index \in Indices
  BY DEF TypeOK, Indices
<1>2. Unread \in 0..(IndexMod - 1)
  <2>1. write_index + IndexMod - read_index \in Int
    BY <1>1 DEF Indices
  <2> QED
    BY <2>1, ModRange DEF Unread
<1>3. \A i \in Nat : i % BufLen \in 0..(BufLen - 1)
  BY ModRange
<1>4. \A i \in Nat : buf[i % BufLen] \in Chars \cup {"nul"}
  BY <1>3 DEF TypeOK
<1>5. \A i \in 1..Unread : read_index + i - 1 \in Nat
  BY <1>1, <1>2 DEF Indices
<1> QED
  BY <1>1, <1>2, <1>3, <1>4, <1>5 DEF Contents

(* The place behind the last unread character is where write_index points.  *)
LEMMA NextPlace ==
  ASSUME TypeOK
  PROVE  (read_index + Unread) % BufLen = write_index % BufLen
<1> USE ConsFacts
<1>1. read_index \in Indices /\ write_index \in Indices /\ write_index \in Int
  BY RingFactsOf DEF Indices
<1>2. CASE read_index <= write_index
  <2>1. Unread = write_index - read_index
    BY <1>1, <1>2, Gap DEF Unread
  <2> QED
    BY <1>1, <2>1 DEF Indices
<1>3. CASE read_index > write_index
  <2>1. Unread = write_index + IndexMod - read_index
    BY <1>1, <1>3, Gap DEF Unread
  <2>2. read_index + Unread = write_index + IndexMod
    BY <1>1, <2>1 DEF Indices
  <2> QED
    BY <1>1, <2>2, SamePlace
<1> QED
  BY <1>1, <1>2, <1>3 DEF Indices
(* Reading n characters takes the first n of Contents away, wherever the    *)
(* indices wrap.                                                            *)
LEMMA Consume ==
  ASSUME TypeOK, NEW n \in 0..Unread,
         read_index' = (read_index + n) % IndexMod, UNCHANGED <<buf, write_index>>
  PROVE  /\ read_index' \in Indices
         /\ Unread' = Unread - n
         /\ \A i \in 1..Unread' : Contents'[i] = Contents[n + i]
<1> USE ConsFacts DEF Indices
<1>1. /\ read_index \in Indices /\ write_index \in Indices
      /\ Unread \in 0..(IndexMod - 1) /\ n \in 0..IndexMod /\ n \in Nat
  <2>1. /\ read_index \in Indices /\ write_index \in Indices
        /\ Unread \in 0..(IndexMod - 1)
    BY ONLY RingFactsOf, TypeOK
  <2>2. n \in 0..IndexMod /\ n \in Nat
    BY ONLY <2>1, ConsFacts, n \in 0..Unread
  <2> QED
    BY <2>1, <2>2
<1>2. /\ read_index <= write_index => Unread = write_index - read_index
      /\ read_index > write_index => Unread = write_index + IndexMod - read_index
  BY <1>1, Gap DEF Unread
<1>3. /\ read_index + n < IndexMod => read_index' = read_index + n
      /\ read_index + n >= IndexMod => read_index' = read_index + n - IndexMod
  BY <1>1, Step
<1>4. read_index' \in Indices
  BY <1>1, <1>3
<1>5. Unread' = (write_index + IndexMod - read_index') % IndexMod
  BY DEF Unread
<1>6. /\ read_index' <= write_index => Unread' = write_index - read_index'
      /\ read_index' > write_index => Unread' = write_index + IndexMod - read_index'
  BY <1>1, <1>4, <1>5, Gap
<1>7. Unread' = Unread - n
  BY ONLY <1>1, <1>2, <1>3, <1>4, <1>6, ConsFacts DEF Indices
<1>8. ASSUME NEW i \in 1..Unread'
      PROVE  Contents'[i] = Contents[n + i]
  <2>1. n + i \in 1..Unread /\ i \in Nat
    BY <1>1, <1>7, <1>8
  <2>2. Contents'[i] = buf[(read_index' + i - 1) % BufLen]
    BY <1>8 DEF Contents
  <2>3. Contents[n + i] = buf[(read_index + (n + i) - 1) % BufLen]
    BY <2>1 DEF Contents
  <2>4. (read_index' + i - 1) % BufLen = (read_index + (n + i) - 1) % BufLen
    <3>1. CASE read_index + n < IndexMod
      <4>1. read_index' + i - 1 = read_index + (n + i) - 1
        BY <1>1, <1>3, <2>1, <3>1
      <4> QED
        BY <4>1
    <3>2. CASE read_index + n >= IndexMod
      <4>1. read_index' + i - 1 = (read_index + (n + i) - 1) - IndexMod
        BY <1>1, <1>3, <2>1, <3>2
      <4>2. read_index + (n + i) - 1 \in Int
        BY <1>1, <2>1
      <4> QED
        BY <4>1, <4>2, SamePlace
    <3> QED
      BY <1>1, <3>1, <3>2
  <2> QED
    BY <2>2, <2>3, <2>4
<1> QED
  BY <1>4, <1>7, <1>8

(* A typed character is behind what was unread, unless the index wraps onto *)
(* read_index; nothing else that it overwrites can show up as another one.  *)
LEMMA Produce ==
  ASSUME TypeOK, NEW c \in Chars,
         buf' = [buf EXCEPT ![write_index % BufLen] = c],
         write_index' = (write_index + 1) % IndexMod, UNCHANGED read_index
  PROVE  /\ write_index' \in Indices
         /\ buf' \in [0..(BufLen - 1) -> Chars \cup {"nul"}]
         /\ Unread < IndexMod - 1 => Unread' = Unread + 1
         /\ Unread = IndexMod - 1 => Unread' = 0
         /\ \A i \in 1..Unread' :
              Contents'[i] = IF (read_index + i - 1) % BufLen = write_index % BufLen
                             THEN c ELSE buf[(read_index + i - 1) % BufLen]
<1> USE ConsFacts DEF Indices
<1>1. /\ read_index \in Indices /\ write_index \in Indices
      /\ Unread \in 0..(IndexMod - 1) /\ 1 \in 0..IndexMod
  BY RingFactsOf
<1>2. /\ read_index <= write_index => Unread = write_index - read_index
      /\ read_index > write_index => Unread = write_index + IndexMod - read_index
  BY <1>1, Gap DEF Unread
<1>3. /\ write_index + 1 < IndexMod => write_index' = write_index + 1
      /\ write_index + 1 >= IndexMod => write_index' = write_index + 1 - IndexMod
  BY <1>1, Step
<1>4. write_index' \in Indices
  BY <1>1, <1>3
<1>5. Unread' = (write_index' + IndexMod - read_index) % IndexMod
  BY DEF Unread
<1>6. /\ read_index <= write_index' => Unread' = write_index' - read_index
      /\ read_index > write_index' => Unread' = write_index' + IndexMod - read_index
  BY <1>1, <1>4, <1>5, Gap
<1>7. /\ Unread < IndexMod - 1 => Unread' = Unread + 1
      /\ Unread = IndexMod - 1 => Unread' = 0
  BY ONLY <1>1, <1>2, <1>3, <1>4, <1>6, ConsFacts DEF Indices
<1>8. write_index % BufLen \in 0..(BufLen - 1)
  <2>1. write_index \in Nat
    BY <1>1
  <2> QED
    BY ONLY <2>1, RingFactsOf, TypeOK
<1>9. buf' \in [0..(BufLen - 1) -> Chars \cup {"nul"}]
  BY <1>8 DEF TypeOK
<1>10. ASSUME NEW i \in 1..Unread'
       PROVE  Contents'[i] = IF (read_index + i - 1) % BufLen = write_index % BufLen
                             THEN c ELSE buf[(read_index + i - 1) % BufLen]
  <2>1. Contents'[i] = buf'[(read_index + i - 1) % BufLen]
    BY <1>10 DEF Contents
  <2>2. read_index + i - 1 \in Nat
    BY <1>1, <1>7, <1>10
  <2>3. (read_index + i - 1) % BufLen \in 0..(BufLen - 1)
    BY <2>2, RingFactsOf
  <2> HIDE ConsFacts
  <2> QED
    BY <2>1, <2>3, <1>8 DEF TypeOK
<1> QED
  BY <1>4, <1>7, <1>9, <1>10

(* A backspace takes the last unread character back. *)
LEMMA Unproduce ==
  ASSUME TypeOK, read_index # write_index,
         write_index' = (write_index + IndexMod - 1) % IndexMod,
         UNCHANGED <<buf, read_index>>
  PROVE  /\ write_index' \in Indices
         /\ Unread > 0
         /\ Unread' = Unread - 1
         /\ \A i \in 1..Unread' : Contents'[i] = Contents[i]
<1> USE ConsFacts DEF Indices
<1>1. /\ read_index \in Indices /\ write_index \in Indices
      /\ Unread \in 0..(IndexMod - 1) /\ IndexMod - 1 \in 0..IndexMod
  BY RingFactsOf
<1>2. /\ read_index <= write_index => Unread = write_index - read_index
      /\ read_index > write_index => Unread = write_index + IndexMod - read_index
  BY <1>1, Gap DEF Unread
<1>3. write_index' = (write_index + (IndexMod - 1)) % IndexMod
  <2>1. write_index + IndexMod - 1 = write_index + (IndexMod - 1)
    BY <1>1
  <2> QED
    BY <2>1
<1>4. /\ write_index = 0 => write_index' = IndexMod - 1
      /\ write_index > 0 => write_index' = write_index - 1
  <2> DEFINE n == IndexMod - 1
  <2>1. /\ write_index + n < IndexMod => write_index' = write_index + n
        /\ write_index + n >= IndexMod => write_index' = write_index + n - IndexMod
    BY <1>1, <1>3, Step
  <2> QED
    BY <1>1, <2>1
<1>5. write_index' \in Indices
  BY <1>1, <1>4
<1>6. Unread' = (write_index' + IndexMod - read_index) % IndexMod
  BY DEF Unread
<1>7. /\ read_index <= write_index' => Unread' = write_index' - read_index
      /\ read_index > write_index' => Unread' = write_index' + IndexMod - read_index
  BY <1>1, <1>5, <1>6, Gap
<1>8. Unread > 0 /\ Unread' = Unread - 1
  BY ONLY <1>1, <1>2, <1>4, <1>5, <1>7, ConsFacts, read_index # write_index DEF Indices
<1>9. ASSUME NEW i \in 1..Unread'
      PROVE  Contents'[i] = Contents[i]
  <2>1. i \in 1..Unread
    BY <1>1, <1>8, <1>9
  <2> QED
    BY <1>9, <2>1 DEF Contents
<1> QED
  BY <1>5, <1>8, <1>9
-----------------------------------------------------------------------------
(* A function on 1..n is a sequence of length n. *)
LEMMA FunIsSeq ==
  ASSUME NEW S, NEW n \in Nat, NEW f \in [1..n -> S]
  PROVE  f \in Seq(S) /\ Len(f) = n
<1>1. f \in Seq(S)
  BY SeqDef, Zenon
<1>2. Len(f) \in Nat /\ DOMAIN f = 1..Len(f)
  BY <1>1, LenProperties
<1>3. 1..n = 1..Len(f)
  BY <1>2
<1>4. n = Len(f)
  <2>1. \A i \in Nat : i \in 1..n <=> i \in 1..Len(f)
    BY <1>3
  <2>2. n \in 1..n \/ n = 0
    OBVIOUS
  <2>3. Len(f) \in 1..Len(f) \/ Len(f) = 0
    BY <1>2
  <2> QED
    BY <1>2, <2>1, <2>2, <2>3
<1> QED
  BY <1>1, <1>4

\* What a reader's buffer may hold.
Text == Chars \cup {"nl", "nul"}

(* The inner loop of Console::read always stops, at a carriage return, with *)
(* p's buffer full or with the ring empty, and passes no carriage return.   *)
LEMMA TakenStops ==
  ASSUME TypeOK, NEW p \in Slots, Len(line[p]) < len[p]
  PROVE  /\ Taken(p) \in 0..Unread
         /\ Len(line[p]) + Taken(p) <= len[p]
         /\ \A i \in 1..(Taken(p) - 1) : Contents[i] # "cr"
         /\ \/ Len(line[p]) + Taken(p) = len[p]
            \/ Taken(p) = Unread
            \/ Taken(p) > 0 /\ Contents[Taken(p)] = "cr"
<1> DEFINE room == len[p] - Len(line[p])
           most == IF room < Unread THEN room ELSE Unread
           Stop(n) == /\ \A i \in 1..(n - 1) : Contents[i] # "cr"
                      /\ n = most \/ (n > 0 /\ Contents[n] = "cr")
           S == {i \in 1..most : Contents[i] = "cr"}
<1>1. /\ Unread \in Nat /\ Len(line[p]) \in Nat /\ len[p] \in Nat
  <2>1. line[p] \in Seq(Text)
    BY DEF TypeOK, Text
  <2>2. len[p] \in 1..MaxLen
    BY DEF TypeOK
  <2>3. Unread \in 0..(IndexMod - 1)
    BY RingFactsOf
  <2> QED
    BY <2>1, <2>2, <2>3, LenProperties, ConsFacts, ConsoleAssumption
<1>2. room \in Nat /\ most \in Nat /\ most <= Unread /\ most <= room
  BY <1>1
<1>3. most = room \/ most = Unread
  OBVIOUS
<1> HIDE DEF most
<1>4. \E n \in 0..most : Stop(n)
  <2>1. CASE S = {}
    <3>1. most \in 0..most /\ \A i \in 1..(most - 1) : i \in 1..most
      BY <1>2
    <3>2. Stop(most)
      BY <2>1, <3>1
    <3> QED
      BY <3>1, <3>2
  <2>2. CASE S # {}
    <3>1. S \in SUBSET Nat
      BY <1>2
    <3>2. PICK x \in S : \A y \in S : x <= y
      BY <2>2, <3>1, Least
    <3>3. x \in 1..most /\ Contents[x] = "cr"
      BY <3>2
    <3>4. \A i \in 1..(x - 1) : Contents[i] # "cr"
      BY <1>2, <3>2, <3>3
    <3> QED
      BY <1>2, <3>3, <3>4
  <2> QED
    BY <2>1, <2>2
<1>5. Taken(p) = CHOOSE n \in 0..most : Stop(n)
  BY DEF Taken, most
<1>6. Taken(p) \in 0..most /\ Stop(Taken(p))
  BY <1>4, <1>5
<1> QED
  BY <1>1, <1>2, <1>3, <1>6

(* What ReadLoop appends is text, and a read that does not end with it has  *)
(* emptied the ring and has room left.                                      *)
LEMMA GotText ==
  ASSUME TypeOK, NEW p \in Slots, Len(line[p]) < len[p],
         NEW got, got = line[p] \o [i \in 1..Taken(p) |-> Converted(Contents[i])]
  PROVE  /\ got \in Seq(Text)
         /\ Len(got) = Len(line[p]) + Taken(p)
         /\ \/ Len(got) = len[p]
            \/ \E i \in 1..Len(got) : got[i] = "nl"
            \/ Taken(p) = Unread /\ Len(got) < len[p]
<1> DEFINE n == Taken(p)
           new == [i \in 1..n |-> Converted(Contents[i])]
<1>1. /\ n \in 0..Unread /\ n \in Nat
      /\ Len(line[p]) + n <= len[p]
      /\ Len(line[p]) + n = len[p] \/ n = Unread \/ (n > 0 /\ Contents[n] = "cr")
  <2>1. Unread \in Nat
    BY RingFactsOf, ConsFacts
  <2> QED
    BY <2>1, TakenStops
<1>2. line[p] \in Seq(Text) /\ Len(line[p]) \in Nat /\ len[p] \in Nat
  <2>1. line[p] \in Seq(Text) /\ len[p] \in 1..MaxLen
    BY DEF TypeOK, Text
  <2> QED
    BY <2>1, LenProperties, ConsoleAssumption
<1>3. new \in [1..n -> Text]
  <2> SUFFICES ASSUME NEW i \in 1..n PROVE Converted(Contents[i]) \in Text
    OBVIOUS
  <2>1. i \in 1..Unread
    BY <1>1, RingFactsOf, ConsFacts
  <2>2. Contents[i] \in Chars \cup {"nul"}
    BY <2>1, RingFactsOf
  <2> QED
    BY <2>2 DEF Converted, Text
<1>4. n > 0 /\ Contents[n] = "cr" => new[n] = "nl"
  BY <1>1 DEF Converted
<1> HIDE DEF new, n
<1>5. new \in Seq(Text) /\ Len(new) = n
  BY <1>1, <1>3, FunIsSeq
<1>6. got = line[p] \o new
  BY DEF new, n
<1>7. /\ got \in Seq(Text)
      /\ Len(got) = Len(line[p]) + n
      /\ \A i \in 1..(Len(line[p]) + n) :
           got[i] = IF i <= Len(line[p]) THEN line[p][i] ELSE new[i - Len(line[p])]
  BY ONLY <1>2, <1>5, <1>6, ConcatProperties
<1> DEFINE k == Len(line[p])
           l == Len(got)
<1>8. k \in Nat /\ l = k + n
  BY ONLY <1>2, <1>7
<1>9. n > 0 /\ Contents[n] = "cr" => \E i \in 1..l : got[i] = "nl"
  <2> SUFFICES ASSUME n > 0, Contents[n] = "cr" PROVE got[l] = "nl" /\ l \in 1..l
    BY Zenon
  <2>1. got[l] = IF l <= k THEN line[p][l] ELSE new[l - k]
    <3> HIDE DEF k, l
    <3>1. l \in 1..(k + n)
      BY ONLY <1>1, <1>8, n > 0
    <3> QED
      BY ONLY <1>7, <3>1 DEF k
  <2> HIDE DEF k, l
  <2>2. ~ (l <= k) /\ l - k = n /\ l \in 1..l
    BY ONLY <1>1, <1>8, n > 0
  <2> QED
    BY ONLY <1>4, <2>1, <2>2, n > 0, Contents[n] = "cr"
<1>10. l = len[p] \/ (\E i \in 1..l : got[i] = "nl") \/ (n = Unread /\ l < len[p])
  <2>1. len[p] \in Nat
    BY <1>2
  <2> HIDE DEF k, l
  <2>2. l <= len[p] /\ (l = len[p] \/ n = Unread \/ (n > 0 /\ Contents[n] = "cr"))
    BY ONLY <1>1, <1>8 DEF k
  <2>3. l = len[p] \/ l < len[p]
    BY ONLY <1>1, <1>8, <2>1, <2>2
  <2> QED
    BY ONLY <1>9, <2>2, <2>3
<1> QED
  BY ONLY <1>7, <1>10 DEF n
-----------------------------------------------------------------------------
(* The initial state satisfies the inductive invariant. *)
LEMMA InitInductive == Init => IInv
<1> SUFFICES ASSUME Init PROVE IInv
  OBVIOUS
<1> USE ConsFacts DEF Init
<1>1. Unread = 0
  <2>1. Unread = (0 + IndexMod - 0) % IndexMod
    BY DEF Unread
  <2> QED
    BY <2>1, Gap
<1>2. SchedTypeOK
  BY DEF SchedTypeOK, ProcessState, SavedContext
<1>3. line \in [Slots -> Seq(Chars \cup {"nl", "nul"})]
  BY EmptySeq
<1>4. TypeOK
  <2>1. 1 \in 1..MaxLen
    BY ConsoleAssumption
  <2>2. len \in [Slots -> 1..MaxLen] /\ pc \in [Slots -> ConsoleLabels]
    BY <2>1 DEF ConsoleLabels
  <2>3. buf \in [0..(BufLen - 1) -> Chars \cup {"nul"}]
    OBVIOUS
  <2> QED
    BY <1>2, <1>3, <2>2, <2>3 DEF TypeOK, Indices
<1>5. RunningIsCurrent /\ SleepsOnConsole /\ ReadersHaveRoom /\ NoSleeperOnLine
  BY DEF RunningIsCurrent, SleepsOnConsole, ReadersHaveRoom, NoSleeperOnLine
<1>6. RingNotFull
  BY <1>1 DEF RingNotFull
<1> QED
  BY <1>4, <1>5, <1>6 DEF IInv

(* Steps that leave the ring alone. *)
LEMMA RingQuiet ==
  ASSUME UNCHANGED <<buf, read_index, write_index>>
  PROVE  Unread' = Unread /\ Contents' = Contents
BY DEF Unread, Contents

(* Dispatch runs a reader that is runnable and touches no character. *)
LEMMA DispatchInductive == IInv /\ DispatchStep => IInv'
<1> SUFFICES ASSUME IInv, DispatchStep PROVE IInv'
  OBVIOUS
<1> USE ConsFacts DEF DispatchStep, consVars
<1>1. Unread' = Unread /\ Contents' = Contents
  BY RingQuiet
<1>2. RingNotFull'
  BY <1>1 DEF IInv, RingNotFull
<1>3. CASE DispatchSkip
  <2> USE <1>3 DEF DispatchSkip
  <2>1. TypeOK'
    BY DEF IInv, TypeOK, SchedTypeOK
  <2>2. RunningIsCurrent' /\ SleepsOnConsole' /\ ReadersHaveRoom' /\ NoSleeperOnLine'
    BY <1>1 DEF IInv, RunningIsCurrent, SleepsOnConsole, ReadersHaveRoom, NoSleeperOnLine,
                Alive
  <2> QED
    BY <1>2, <2>1, <2>2 DEF IInv
<1>4. CASE DispatchRun
  <2> USE <1>4 DEF DispatchRun
  <2>1. TypeOK'
    BY DEF IInv, TypeOK, SchedTypeOK, ProcessState, SavedContext, ResumedMie
  <2>2. RunningIsCurrent' /\ SleepsOnConsole'
    BY DEF IInv, TypeOK, SchedTypeOK, RunningIsCurrent, SleepsOnConsole, Alive
  <2>3. ReadersHaveRoom' /\ NoSleeperOnLine'
    BY <1>1 DEF IInv, TypeOK, SchedTypeOK, ReadersHaveRoom, NoSleeperOnLine
  <2> QED
    BY <1>2, <2>1, <2>2, <2>3 DEF IInv
<1> QED
  BY <1>3, <1>4 DEF Dispatch

(* The timer preempts the running process and puts nobody to sleep. *)
LEMMA TimerInductive == IInv /\ ClockInterrupt => IInv'
<1> SUFFICES ASSUME IInv, ClockInterrupt PROVE IInv'
  OBVIOUS
<1> USE ConsFacts DEF ClockInterrupt, consVars
<1>1. Unread' = Unread /\ Contents' = Contents
  BY RingQuiet
<1>2. RingNotFull'
  BY <1>1 DEF IInv, RingNotFull
<1>3. CASE TimerIdle
  <2> USE <1>3 DEF TimerIdle, Wakeup, Sleepers
  <2>1. TypeOK'
    BY DEF IInv, TypeOK, SchedTypeOK, ProcessState
  <2>2. RunningIsCurrent' /\ SleepsOnConsole'
    BY DEF IInv, TypeOK, SchedTypeOK, RunningIsCurrent, SleepsOnConsole, Alive
  <2>3. ReadersHaveRoom' /\ NoSleeperOnLine'
    BY <1>1 DEF IInv, ReadersHaveRoom, NoSleeperOnLine
  <2> QED
    BY <1>2, <2>1, <2>2, <2>3 DEF IInv
<1>4. ASSUME NEW p \in Slots, TimerProcess(p) PROVE IInv'
  <2> USE <1>4 DEF TimerProcess, SwitchToDispatch, Sleepers
  <2>1. TypeOK'
    BY DEF IInv, TypeOK, SchedTypeOK, ProcessState, SavedContext
  <2>2. RunningIsCurrent' /\ SleepsOnConsole'
    BY DEF IInv, TypeOK, SchedTypeOK, RunningIsCurrent, SleepsOnConsole, Alive
  <2>3. ReadersHaveRoom' /\ NoSleeperOnLine'
    BY <1>1 DEF IInv, ReadersHaveRoom, NoSleeperOnLine
  <2> QED
    BY <1>2, <2>1, <2>2, <2>3 DEF IInv
<1> QED
  BY <1>3, <1>4 DEF TimerInterrupt

(* A carriage return wakes every reader; another character adds none to     *)
(* what the sleepers have in front of them, wherever it lands in the ring.  *)
LEMMA TypeCharInductive ==
  ASSUME IInv, NEW c \in Chars, TypeChar(c)
  PROVE  IInv'
<1> USE ConsFacts DEF TypeChar, InterruptContext
<1>1. TypeOK
  BY DEF IInv
<1>2. /\ write_index' \in Indices
      /\ buf' \in [0..(BufLen - 1) -> Chars \cup {"nul"}]
      /\ Unread < IndexMod - 1 => Unread' = Unread + 1
      /\ Unread = IndexMod - 1 => Unread' = 0
      /\ \A i \in 1..Unread' :
           Contents'[i] = IF (read_index + i - 1) % BufLen = write_index % BufLen
                          THEN c ELSE buf[(read_index + i - 1) % BufLen]
  BY <1>1, Produce
<1>3. Unread \in 0..(IndexMod - 1) /\ read_index \in Nat
  BY <1>1, RingFactsOf DEF Indices
<1>4. SchedTypeOK'
  <2>1. CASE UNCHANGED <<state, channel>>
    BY <1>1, <2>1 DEF TypeOK, SchedTypeOK
  <2>2. CASE Wakeup(console_channel)
    BY <1>1, <2>2 DEF TypeOK, SchedTypeOK, Wakeup, Sleepers, ProcessState
  <2> QED
    BY <2>1, <2>2
<1>5. TypeOK'
  BY <1>1, <1>2, <1>4 DEF TypeOK, Indices
<1>6. RunningIsCurrent' /\ SleepsOnConsole' /\ ReadersHaveRoom'
  <2>1. CASE UNCHANGED <<state, channel>>
    BY <2>1 DEF IInv, RunningIsCurrent, SleepsOnConsole, ReadersHaveRoom, Alive
  <2>2. CASE Wakeup(console_channel)
    BY <1>1, <2>2 DEF IInv, TypeOK, SchedTypeOK, Wakeup, Sleepers, RunningIsCurrent,
                      SleepsOnConsole, ReadersHaveRoom, Alive
  <2> QED
    BY <2>1, <2>2
<1>7. NoSleeperOnLine'
  <2>1. CASE Wakeup(console_channel)
    <3>1. \A p \in Slots : state'[p] # "sleep"
      BY <1>1, <2>1 DEF IInv, TypeOK, SchedTypeOK, Wakeup, Sleepers, SleepsOnConsole
    <3> QED
      BY <3>1 DEF NoSleeperOnLine
  <2>2. CASE c # "cr" /\ UNCHANGED <<state, channel>>
    <3> SUFFICES ASSUME NEW p \in Slots, state[p] = "sleep", NEW i \in 1..Unread'
                 PROVE  Contents'[i] # "cr"
      BY <2>2 DEF NoSleeperOnLine
    <3>1. CASE (read_index + i - 1) % BufLen = write_index % BufLen
      BY <1>2, <2>2, <3>1
    <3>2. CASE (read_index + i - 1) % BufLen # write_index % BufLen
      <4>1. i \in 1..Unread \/ i = Unread + 1
        BY <1>2, <1>3
      <4>2. i = Unread + 1 => (read_index + i - 1) % BufLen = write_index % BufLen
        <5>1. i = Unread + 1 => read_index + i - 1 = read_index + Unread
          BY <1>3
        <5> QED
          BY <1>1, <5>1, NextPlace
      <4>3. i \in 1..Unread
        BY <3>2, <4>1, <4>2
      <4>4. Contents'[i] = Contents[i]
        BY <1>1, <1>2, <3>2, <4>3, RingFactsOf
      <4> QED
        BY <4>3, <4>4 DEF IInv, NoSleeperOnLine
    <3> QED
      BY <3>1, <3>2
  <2> QED
    BY <2>1, <2>2 DEF WakesReaders
<1>8. RingNotFull'
  BY <1>2, <1>3, WidthBound DEF RingNotFull
<1> QED
  BY <1>5, <1>6, <1>7, <1>8 DEF IInv

(* A backspace shortens what is unread. *)
LEMMA TypeBackspaceInductive == IInv /\ TypeBackspace => IInv'
<1> SUFFICES ASSUME IInv, TypeBackspace PROVE IInv'
  OBVIOUS
<1> USE ConsFacts DEF TypeBackspace, InterruptContext
<1>1. TypeOK
  BY DEF IInv
<1>2. /\ write_index' \in Indices
      /\ Unread > 0
      /\ Unread' = Unread - 1
      /\ \A i \in 1..Unread' : Contents'[i] = Contents[i]
  BY <1>1, Unproduce
<1>3. Unread \in 0..(IndexMod - 1)
  BY <1>1, RingFactsOf
<1>4. TypeOK'
  BY <1>1, <1>2 DEF TypeOK, SchedTypeOK, Indices
<1>5. RunningIsCurrent' /\ SleepsOnConsole' /\ ReadersHaveRoom'
  BY DEF IInv, RunningIsCurrent, SleepsOnConsole, ReadersHaveRoom, Alive
<1>6. NoSleeperOnLine'
  <2>1. \A i \in 1..Unread' : i \in 1..Unread
    BY <1>2, <1>3
  <2> QED
    BY <1>2, <2>1 DEF IInv, NoSleeperOnLine
<1>7. RingNotFull'
  BY <1>2, <1>3 DEF IInv, RingNotFull
<1> QED
  BY <1>4, <1>5, <1>6, <1>7 DEF IInv

(* A read begins with an empty line and room for at least one character. *)
LEMMA CallReadInductive ==
  ASSUME IInv, NEW p \in Slots, NEW n \in 1..MaxLen, CallRead(p, n)
  PROVE  IInv'
<1> USE ConsFacts DEF CallRead, NoSwitch, Running
<1>1. Unread' = Unread /\ Contents' = Contents
  BY RingQuiet
<1>2. state[p] = "running"
  BY DEF IInv, RunningIsCurrent
<1>3. <<>> \in Seq(Chars \cup {"nl", "nul"}) /\ Len(<<>>) = 0
  BY EmptySeq
<1>4. TypeOK'
  BY <1>3 DEF IInv, TypeOK, SchedTypeOK, ConsoleLabels
<1>5. RunningIsCurrent' /\ SleepsOnConsole'
  BY <1>2 DEF IInv, TypeOK, RunningIsCurrent, SleepsOnConsole, Alive
<1>6. ReadersHaveRoom'
  BY <1>3, ConsoleAssumption DEF IInv, TypeOK, ReadersHaveRoom
<1>7. NoSleeperOnLine' /\ RingNotFull'
  BY <1>1 DEF IInv, NoSleeperOnLine, RingNotFull
<1> QED
  BY <1>4, <1>5, <1>6, <1>7 DEF IInv

(* The guard of Console::read, and the lock behind its Sleep. *)
LEMMA MoveInductive ==
  ASSUME IInv, NEW p \in Slots, EnterRead(p) \/ Relock(p)
  PROVE  IInv'
<1> USE ConsFacts DEF EnterRead, Relock, Goto, NoSwitch, Running, consVars
<1>1. Unread' = Unread /\ Contents' = Contents
  BY RingQuiet
<1>2. state[p] = "running" /\ pc[p] # "user" /\ pc' = [pc EXCEPT ![p] = "read_loop"]
  BY DEF IInv, RunningIsCurrent
<1>3. TypeOK'
  BY DEF IInv, TypeOK, SchedTypeOK, ConsoleLabels
<1>4. RunningIsCurrent' /\ SleepsOnConsole'
  BY <1>2 DEF IInv, TypeOK, RunningIsCurrent, SleepsOnConsole, Alive
<1>5. ReadersHaveRoom'
  BY <1>2 DEF IInv, TypeOK, ReadersHaveRoom
<1>6. NoSleeperOnLine' /\ RingNotFull'
  BY <1>1 DEF IInv, NoSleeperOnLine, RingNotFull
<1> QED
  BY <1>3, <1>4, <1>5, <1>6 DEF IInv

(* A read sleeps only when it has emptied the ring; what it takes out can   *)
(* only shorten what others have in front of them.                          *)
LEMMA ReadLoopInductive ==
  ASSUME IInv, NEW p \in Slots, ReadLoop(p)
  PROVE  IInv'
<1> DEFINE n == Taken(p)
           got == line[p] \o [i \in 1..n |-> Converted(Contents[i])]
           done == Len(got) = len[p] \/ \E i \in 1..Len(got) : got[i] = "nl"
<1> USE ConsFacts
<1>1. /\ TypeOK /\ process_task = p /\ state[p] = "running" /\ pc[p] = "read_loop"
      /\ line[p] \in Seq(Text) /\ Len(line[p]) < len[p]
  BY DEF IInv, TypeOK, Text, RunningIsCurrent, ReadersHaveRoom, ReadLoop, Running
<1>2. /\ line' = [line EXCEPT ![p] = got]
      /\ read_index' = (read_index + n) % IndexMod
      /\ UNCHANGED <<buf, write_index, len, panicked>>
  BY DEF ReadLoop, NoSwitch, Sleep
<1>3. \/ /\ done /\ TrapRet(p) /\ NoSwitch
         /\ UNCHANGED <<state, channel, locked>>
      \/ /\ ~ done /\ locked' = FALSE
         /\ Sleep(p, console_channel, "relock")
  BY DEF ReadLoop
<1>4. n \in 0..Unread
  BY <1>1, TakenStops
<1>5. /\ got \in Seq(Text)
      /\ done \/ (n = Unread /\ Len(got) < len[p])
  BY <1>1, GotText
<1> HIDE DEF n, got, done
<1>6. /\ read_index' \in Indices
      /\ Unread' = Unread - n
      /\ \A i \in 1..Unread' : Contents'[i] = Contents[n + i]
  BY <1>1, <1>2, <1>4, Consume
<1>7. Unread \in 0..(IndexMod - 1)
  BY <1>1, RingFactsOf
<1>8. line' \in [Slots -> Seq(Chars \cup {"nl", "nul"})]
  BY <1>1, <1>2, <1>5 DEF TypeOK, Text
<1>9. RingNotFull'
  BY <1>4, <1>6, <1>7 DEF IInv, RingNotFull
<1>10. \A i \in 1..Unread' : n + i \in 1..Unread
  BY <1>4, <1>6, <1>7
<1>11. CASE done /\ TrapRet(p) /\ NoSwitch /\ UNCHANGED <<state, channel, locked>>
  <2> USE <1>11 DEF TrapRet, NoSwitch
  <2>1. TypeOK'
    <3>1. SchedTypeOK' /\ pc' \in [Slots -> ConsoleLabels]
      BY <1>1 DEF TypeOK, SchedTypeOK, ConsoleLabels
    <3> QED
      BY <1>1, <1>2, <1>6, <1>8, <3>1 DEF TypeOK, Indices
  <2>2. RunningIsCurrent' /\ SleepsOnConsole'
    BY <1>1 DEF IInv, TypeOK, RunningIsCurrent, SleepsOnConsole, Alive
  <2>3. ReadersHaveRoom'
    BY <1>1, <1>2 DEF IInv, TypeOK, ReadersHaveRoom
  <2>4. NoSleeperOnLine'
    BY <1>6, <1>10 DEF IInv, NoSleeperOnLine
  <2> QED
    BY <1>9, <2>1, <2>2, <2>3, <2>4 DEF IInv
<1>12. CASE ~ done /\ locked' = FALSE /\ Sleep(p, console_channel, "relock")
  <2> USE <1>12 DEF Sleep, SwitchToDispatch
  <2>1. TypeOK'
    <3>1. SchedTypeOK'
      BY <1>1 DEF TypeOK, SchedTypeOK, ProcessState, SavedContext
    <3>2. pc' \in [Slots -> ConsoleLabels]
      BY <1>1 DEF TypeOK, ConsoleLabels
    <3> QED
      BY <1>1, <1>2, <1>6, <1>8, <3>1, <3>2 DEF TypeOK, Indices
  <2>2. RunningIsCurrent' /\ SleepsOnConsole'
    BY <1>1 DEF IInv, TypeOK, SchedTypeOK, RunningIsCurrent, SleepsOnConsole, Alive
  <2>3. ReadersHaveRoom'
    BY <1>1, <1>2, <1>5 DEF IInv, TypeOK, ReadersHaveRoom
  <2>4. Unread' = 0
    BY <1>5, <1>6, <1>7
  <2>5. NoSleeperOnLine'
    BY <2>4 DEF NoSleeperOnLine
  <2> QED
    BY <1>9, <2>1, <2>2, <2>3, <2>5 DEF IInv
<1> QED
  BY <1>3, <1>11, <1>12

-----------------------------------------------------------------------------
(* IInv holds in every reachable state of the console and its readers. *)
THEOREM Inductive == Spec => []IInv
<1>1. IInv /\ [Next]_vars => IInv'
  <2> SUFFICES ASSUME IInv, [Next]_vars PROVE IInv'
    OBVIOUS
  <2>1. CASE UNCHANGED vars
    <3> USE <2>1 DEF vars, schedVars, consVars
    <3>1. Unread' = Unread /\ Contents' = Contents
      BY RingQuiet
    <3>2. TypeOK' /\ RunningIsCurrent' /\ SleepsOnConsole'
      BY DEF IInv, TypeOK, SchedTypeOK, RunningIsCurrent, SleepsOnConsole, Alive
    <3>3. ReadersHaveRoom' /\ NoSleeperOnLine' /\ RingNotFull'
      BY <3>1 DEF IInv, ReadersHaveRoom, NoSleeperOnLine, RingNotFull
    <3> QED
      BY <3>2, <3>3 DEF IInv
  <2> QED
    BY <2>1, DispatchInductive, TimerInductive, TypeCharInductive, TypeBackspaceInductive,
       CallReadInductive, MoveInductive, ReadLoopInductive DEF Next, ReadStep
<1> QED
  BY InitInductive, <1>1, PTL DEF Spec

(* Every variable keeps its type: the indices wrap within their width and   *)
(* every access to the buffer is inside it.                                 *)
THEOREM TypeCorrect == Spec => []TypeOK
<1>1. IInv => TypeOK
  BY DEF IInv
<1> QED
  BY <1>1, Inductive, PTL

(* Nobody sleeps in Console::read while a complete line is in the ring, for *)
(* any number of readers and also when the keyboard overruns the ring.      *)
THEOREM NoLostLine == Spec => []NoSleeperOnLine
<1>1. IInv => NoSleeperOnLine
  BY DEF IInv
<1> QED
  BY <1>1, Inductive, PTL
-----------------------------------------------------------------------------
(* Contents is a sequence of Unread characters. *)
LEMMA ContentsIsSeq ==
  ASSUME TypeOK
  PROVE  /\ Contents \in Seq(Chars \cup {"nul"})
         /\ Len(Contents) = Unread
         /\ Unread \in Nat
<1>1. Unread \in Nat
  BY RingFactsOf, ConsFacts
<1> QED
  BY <1>1, RingFactsOf, FunIsSeq

(* With a place to spare, a typed character is appended to the queue. *)
LEMMA TypeRefines ==
  ASSUME IInv, IInv', Throttled, NEW c \in Chars, TypeChar(c)
  PROVE  Fifo!Type(c)
<1> DEFINE S == Chars \cup {"nul"}
<1> USE ConsFacts
<1>1. TypeOK /\ TypeOK' /\ Unread < BufLen - 1 /\ UNCHANGED <<read_index, line>>
  BY DEF IInv, TypeChar, InterruptContext
<1>2. /\ Unread < IndexMod - 1 => Unread' = Unread + 1
      /\ \A i \in 1..Unread' :
           Contents'[i] = IF (read_index + i - 1) % BufLen = write_index % BufLen
                          THEN c ELSE buf[(read_index + i - 1) % BufLen]
  BY <1>1, Produce DEF TypeChar, InterruptContext
<1>3. Contents \in Seq(S) /\ Len(Contents) = Unread /\ Unread \in Nat
  BY <1>1, ContentsIsSeq
<1>4. Contents' \in Seq(S) /\ Len(Contents') = Unread'
  <2>1. (TypeOK => Contents \in Seq(S) /\ Len(Contents) = Unread)'
    BY ContentsIsSeq, PTL
  <2> QED
    BY <1>1, <2>1
<1>5. Unread' = Unread + 1 /\ read_index \in Nat
  <2>1. read_index \in Nat
    BY <1>1, RingFactsOf DEF Indices
  <2> QED
    BY <1>1, <1>2, <1>3, <2>1, WidthBound
<1>6. ASSUME NEW i \in 1..Unread PROVE Contents'[i] = Contents[i]
  <2>1. /\ read_index + i - 1 \in Int /\ read_index + Unread \in Int
        /\ read_index + i - 1 < read_index + Unread
        /\ (read_index + Unread) - (read_index + i - 1) < BufLen
    BY <1>1, <1>3, <1>5, <1>6
  <2>2. (read_index + i - 1) % BufLen # (read_index + Unread) % BufLen
    BY <2>1, ModDistinct
  <2>3. (read_index + i - 1) % BufLen # write_index % BufLen
    BY <1>1, <2>2, NextPlace
  <2>4. i \in 1..Unread'
    BY <1>3, <1>5, <1>6
  <2> QED
    BY <1>1, <1>2, <1>6, <2>3, <2>4, RingFactsOf
<1>7. Contents'[Unread + 1] = c
  <2>1. Unread + 1 \in 1..Unread' /\ read_index + (Unread + 1) - 1 = read_index + Unread
    BY <1>3, <1>5
  <2>2. (read_index + (Unread + 1) - 1) % BufLen = write_index % BufLen
    BY <1>1, <2>1, NextPlace
  <2> QED
    BY <1>2, <2>1, <2>2
<1>8. Contents' = Append(Contents, c)
  <2>1. /\ Append(Contents, c) \in Seq(S)
        /\ Len(Append(Contents, c)) = Unread + 1
        /\ \A i \in 1..Unread : Append(Contents, c)[i] = Contents[i]
        /\ Append(Contents, c)[Unread + 1] = c
    <3>1. c \in S
      OBVIOUS
    <3> HIDE DEF S
    <3> QED
      BY ONLY <1>3, <3>1, AppendProperties
  <2>2. \A i \in 1..(Unread + 1) : i \in 1..Unread \/ i = Unread + 1
    BY <1>3
  <2>3. \A i \in 1..(Unread + 1) : Contents'[i] = Append(Contents, c)[i]
    BY ONLY <1>6, <1>7, <2>1, <2>2
  <2> HIDE DEF S
  <2> QED
    BY ONLY <1>4, <1>5, <2>1, <2>3, SeqEqual
<1>9. Len(Contents) < BufLen
  BY <1>1, <1>3
<1> QED
  BY <1>1, <1>8, <1>9 DEF Fifo!Type

(* A backspace drops the last element of the queue. *)
LEMMA BackspaceRefines ==
  ASSUME IInv, IInv', TypeBackspace
  PROVE  Fifo!Backspace
<1> DEFINE S == Chars \cup {"nul"}
<1>1. TypeOK /\ TypeOK' /\ UNCHANGED line
  BY DEF IInv, TypeBackspace, InterruptContext
<1>2. /\ Unread > 0
      /\ Unread' = Unread - 1
      /\ \A i \in 1..Unread' : Contents'[i] = Contents[i]
  BY <1>1, Unproduce DEF TypeBackspace, InterruptContext
<1>3. Contents \in Seq(S) /\ Len(Contents) = Unread /\ Unread \in Nat
  BY <1>1, ContentsIsSeq
<1>4. Contents' \in Seq(S) /\ Len(Contents') = Unread'
  <2>1. (TypeOK => Contents \in Seq(S) /\ Len(Contents) = Unread)'
    BY ContentsIsSeq, PTL
  <2> QED
    BY <1>1, <2>1
<1>5. Contents # <<>>
  BY <1>2, <1>3, EmptySeq
<1>6. Contents' = SubSeq(Contents, 1, Unread - 1)
  <2>1. \A i \in 1..(Unread - 1) : Contents[i] \in S
    BY <1>1, <1>3, RingFactsOf
  <2>2. 1 \in Int /\ Unread - 1 \in Int
    BY <1>3
  <2>3. /\ SubSeq(Contents, 1, Unread - 1) \in Seq(S)
        /\ Len(SubSeq(Contents, 1, Unread - 1))
             = IF 1 <= Unread - 1 THEN (Unread - 1) - 1 + 1 ELSE 0
        /\ \A i \in 1..((Unread - 1) - 1 + 1) :
             SubSeq(Contents, 1, Unread - 1)[i] = Contents[1 + i - 1]
    <3> HIDE DEF S
    <3> QED
      BY ONLY <2>1, <2>2, SubSeqProperties
  <2>4. Len(SubSeq(Contents, 1, Unread - 1)) = Unread'
    BY <1>2, <1>3, <2>3
  <2>5. \A i \in 1..Unread' : Contents'[i] = SubSeq(Contents, 1, Unread - 1)[i]
    <3> TAKE i \in 1..Unread'
    <3>1. i \in 1..((Unread - 1) - 1 + 1) /\ 1 + i - 1 = i
      BY <1>2, <1>3
    <3> QED
      BY <1>2, <2>3, <3>1
  <2> HIDE DEF S
  <2> QED
    BY ONLY <1>4, <2>3, <2>4, <2>5, SeqEqual
<1> QED
  BY <1>1, <1>3, <1>5, <1>6 DEF Fifo!Backspace

(* The inner loop of a read takes a prefix of the queue, or nothing. *)
LEMMA ReadRefines ==
  ASSUME IInv, IInv', NEW p \in Slots, ReadLoop(p)
  PROVE  UNCHANGED <<Contents, line>> \/ \E n \in 1..Len(Contents) : Fifo!Take(p, n)
<1> DEFINE S == Chars \cup {"nul"}
           n == Taken(p)
<1> USE ConsFacts
<1>1. TypeOK /\ TypeOK' /\ Len(line[p]) < len[p] /\ line[p] \in Seq(Text)
      /\ line \in [Slots -> Seq(Text)]
  BY DEF IInv, ReadersHaveRoom, ReadLoop, TypeOK, Text
<1>2. /\ line' = [line EXCEPT ![p] = line[p] \o [i \in 1..n |-> Converted(Contents[i])]]
      /\ read_index' = (read_index + n) % IndexMod
      /\ UNCHANGED <<buf, write_index>>
  BY DEF ReadLoop
<1>3. n \in 0..Unread /\ \A i \in 1..(n - 1) : Contents[i] # "cr"
  BY <1>1, TakenStops
<1> HIDE DEF n
<1>4. Unread' = Unread - n /\ \A i \in 1..Unread' : Contents'[i] = Contents[n + i]
  BY <1>1, <1>2, <1>3, Consume
<1>5. Contents \in Seq(S) /\ Len(Contents) = Unread /\ Unread \in Nat /\ n \in Nat
  <2>1. Contents \in Seq(S) /\ Len(Contents) = Unread /\ Unread \in Nat
    BY <1>1, ContentsIsSeq
  <2> QED
    BY <1>3, <2>1
<1>6. Contents' \in Seq(S) /\ Len(Contents') = Unread'
  <2>1. (TypeOK => Contents \in Seq(S) /\ Len(Contents) = Unread)'
    BY ContentsIsSeq, PTL
  <2> QED
    BY <1>1, <2>1
<1>7. Contents' = SubSeq(Contents, n + 1, Unread)
  <2>1. \A i \in (n + 1)..Unread : Contents[i] \in S
    BY <1>1, <1>5, RingFactsOf
  <2>2. n + 1 \in Int /\ Unread \in Int
    BY <1>5
  <2>3. /\ SubSeq(Contents, n + 1, Unread) \in Seq(S)
        /\ Len(SubSeq(Contents, n + 1, Unread))
             = IF n + 1 <= Unread THEN Unread - (n + 1) + 1 ELSE 0
        /\ \A i \in 1..(Unread - (n + 1) + 1) :
             SubSeq(Contents, n + 1, Unread)[i] = Contents[(n + 1) + i - 1]
    <3> HIDE DEF S
    <3> QED
      BY ONLY <2>1, <2>2, SubSeqProperties
  <2>4. Len(SubSeq(Contents, n + 1, Unread)) = Unread'
    BY <1>3, <1>4, <1>5, <2>3
  <2>5. \A i \in 1..Unread' : Contents'[i] = SubSeq(Contents, n + 1, Unread)[i]
    <3> TAKE i \in 1..Unread'
    <3>1. i \in 1..(Unread - (n + 1) + 1) /\ (n + 1) + i - 1 = n + i
      BY <1>4, <1>5
    <3> QED
      BY <1>4, <2>3, <3>1
  <2> HIDE DEF S
  <2> QED
    BY ONLY <1>6, <2>3, <2>4, <2>5, SeqEqual
<1>8. CASE n = 0
  <2>1. Contents' = Contents
    <3>1. \A i \in 1..Unread : Contents'[i] = Contents[i]
      BY <1>4, <1>5, <1>8
    <3> HIDE DEF S
    <3> QED
      BY <1>4, <1>5, <1>6, <1>8, <3>1, SeqEqual
  <2>2. line[p] \o [i \in 1..n |-> Converted(Contents[i])] = line[p]
    <3>1. [i \in 1..n |-> Converted(Contents[i])] \in [1..0 -> Text]
      BY <1>8
    <3>2. [i \in 1..n |-> Converted(Contents[i])] = <<>>
      BY <3>1, FunIsSeq, EmptySeq
    <3> QED
      BY <1>1, <3>2, ConcatEmptySeq
  <2>3. line' = line
    BY <1>1, <1>2, <2>2
  <2> QED
    BY <2>1, <2>3
<1>9. CASE n # 0
  <2>1. n \in 1..Len(Contents)
    BY <1>3, <1>5, <1>9
  <2>2. line' = [line EXCEPT ![p] = @ \o [i \in 1..n |-> Fifo!Delivered(Contents[i])]]
    BY <1>2 DEF Fifo!Delivered, Converted
  <2>3. Fifo!Take(p, n)
    BY <1>3, <1>5, <1>7, <2>2 DEF Fifo!Take
  <2> QED
    BY <2>1, <2>3
<1> QED
  BY <1>8, <1>9

(* As long as nobody types BufLen characters ahead of the readers, the ring *)
(* buffer, its two wrapping indices and the interrupts in between behave as *)
(* a bounded queue of characters: none is lost, repeated or reordered.      *)
THEOREM FifoRefined ==
  ASSUME Throttled
  PROVE  Spec => ImplementsFifo
<1>1. Init => Fifo!Init
  <2> SUFFICES ASSUME Init PROVE Fifo!Init
    OBVIOUS
  <2>1. TypeOK
    BY InitInductive DEF IInv
  <2>2. Unread = 0
    <3>1. Unread = (0 + IndexMod - 0) % IndexMod
      BY DEF Init, Unread
    <3> QED
      BY <3>1, Gap, ConsFacts
  <2>3. Contents = <<>>
    BY <2>1, <2>2, ContentsIsSeq, EmptySeq
  <2> QED
    BY <2>3 DEF Fifo!Init, Init
<1>2. IInv /\ IInv' /\ [Next]_vars => [Fifo!Next]_Fifo!fifoVars
  <2> SUFFICES ASSUME IInv, IInv', [Next]_vars
               PROVE  Fifo!Next \/ UNCHANGED <<Contents, line>>
    BY DEF Fifo!fifoVars
  <2>1. CASE UNCHANGED <<buf, read_index, write_index, line>>
    BY <2>1, RingQuiet
  <2>2. ASSUME NEW c \in Chars, TypeChar(c) PROVE Fifo!Next
    BY <2>2, TypeRefines DEF Fifo!Next, Chars
  <2>3. CASE TypeBackspace
    BY <2>3, BackspaceRefines DEF Fifo!Next
  <2>4. ASSUME NEW p \in Slots, ReadLoop(p) PROVE Fifo!Next \/ UNCHANGED <<Contents, line>>
    BY <2>4, ReadRefines DEF Fifo!Next
  <2>5. ASSUME NEW p \in Slots, NEW n \in 1..MaxLen, CallRead(p, n) PROVE Fifo!Next
    <3>1. Fifo!NewRead(p)
      BY <2>5, RingQuiet DEF CallRead, Fifo!NewRead
    <3> QED
      BY <3>1 DEF Fifo!Next
  <2> QED
    BY <2>1, <2>2, <2>3, <2>4, <2>5
       DEF Next, ReadStep, EnterRead, Relock, DispatchStep, ClockInterrupt, consVars, vars
<1> QED
  BY <1>1, <1>2, Inductive, PTL DEF Spec, ImplementsFifo, Fifo!Spec
=============================================================================
