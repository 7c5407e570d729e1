---------------------------- MODULE BridgeProofs ----------------------------
(***************************************************************************)
(* Proofs about sim_bridge.py for any number of readings and cycles, any   *)
(* width of the sequence number and any pipe: types, what is posted to     *)
(* /ingest, what the server stores of both kinds of posts, and the order   *)
(* of the frames on their way to /sms.                                     *)
(***************************************************************************)
EXTENDS Bridge, SequenceTheorems, TLAPS

-----------------------------------------------------------------------------
(* The inductive invariant.                                                *)

\* What main remembers between lines follows from the place in the console.
MainInv ==
    /\ line[1] = NumReadings + 1 => line[2] = 1
    /\ expect_hex_next <=> line[2] = 6
    /\ line[2] # 1 => current_seq = Number(line[1])

\* One request for each reading whose ciphertext was read, in their order.
PostsInv ==
    /\ Len(posts) = IF line[2] = 7 THEN line[1] ELSE line[1] - 1
    /\ \A i \in DOMAIN posts : posts[i] = [seq |-> Number(i), of |-> i, hex |-> "ciphertext"]
    /\ packets_sent <= Len(posts)
    /\ mpc = "post" => packets_sent < Len(posts)

\* The feeder has a frame in its hand while it writes, and takes one only
\* with empty hands.
HandInv ==
    /\ fpc \in {"test", "get", "closed", "none"} => hex_str = 0
    /\ fpc = "write" => hex_str # 0

InHand == IF hex_str = 0 THEN << >> ELSE <<hex_str>>
Chain == smsPosts \o gwOut \o gwIn \o InHand \o lora_queue

OrderInv ==
    /\ \A i \in DOMAIN Chain : Chain[i] = i
    /\ Len(Chain) = IF Gateway THEN line[1] - 1 ELSE 0

\* A row tells the post and the half it comes from.
RowsInv ==
    \A r \in rows : r.of = IF r.path = "sms" THEN r.post - r.slot ELSE r.post

IInv == TypeOK /\ MainInv /\ PostsInv /\ HandInv /\ OrderInv /\ RowsInv

-----------------------------------------------------------------------------
(* Sequences.                                                              *)

LEMMA HeadThenTail ==
    ASSUME NEW S, NEW s \in Seq(S), s # << >>
    PROVE  Head(s) \in S /\ Tail(s) \in Seq(S) /\ <<Head(s)>> \o Tail(s) = s
           /\ Len(Tail(s)) = Len(s) - 1
<1>1. Head(s) \in S /\ Tail(s) \in Seq(S) /\ Len(Tail(s)) = Len(s) - 1
    BY HeadTailProperties
<1>2. Len(s) \in Nat \ {0}
    BY EmptySeq
<1>3. /\ SubSeq(s, 1, Len(s)) = <<s[1]>> \o SubSeq(s, 2, Len(s))
      /\ SubSeq(s, 1, Len(s)) = s
      /\ Tail(s) = SubSeq(s, 2, Len(s))
    BY <1>2, SubSeqRecursiveFirst, SubSeqFull, TailIsSubSeq
<1>4. QED
    BY <1>1, <1>3

LEMMA ConcatTypes ==
    ASSUME NEW S, NEW s \in Seq(S), NEW t \in Seq(S)
    PROVE  s \o t \in Seq(S) /\ s \o << >> = s /\ << >> \o s = s
BY ConcatProperties, ConcatEmptySeq

\* The front of the second queue goes behind the first.
LEMMA MoveFront ==
    ASSUME NEW S, NEW s \in Seq(S), NEW t \in Seq(S), t # << >>
    PROVE  Append(s, Head(t)) \o Tail(t) = s \o t
<1>1. /\ Head(t) \in S /\ Tail(t) \in Seq(S) /\ <<Head(t)>> \o Tail(t) = t
    BY HeadThenTail
<1>2. <<Head(t)>> \in Seq(S)
    BY <1>1
<1>3. Append(s, Head(t)) = s \o <<Head(t)>>
    BY <1>1, AppendIsConcat
<1>4. (s \o <<Head(t)>>) \o Tail(t) = s \o (<<Head(t)>> \o Tail(t))
    BY <1>1, <1>2, ConcatAssociative
<1>5. QED
    BY <1>1, <1>3, <1>4

\* Concatenation is associative.  A concatenation that is written out loses its
\* brackets in the SMT backend, so the result has a name here, and in Cat.
LEMMA AssociativeNamed ==
    ASSUME NEW S, NEW s \in Seq(S), NEW a \in Seq(S), NEW b \in Seq(S),
           NEW ab \in Seq(S), ab = a \o b
    PROVE  (s \o a) \o b = s \o ab
<1> DEFINE sa == s \o a
<1>1. /\ sa \in Seq(S) /\ Len(sa) = Len(s) + Len(a) /\ Len(ab) = Len(a) + Len(b)
      /\ \A i \in 1 .. Len(sa) : sa[i] = IF i <= Len(s) THEN s[i] ELSE a[i - Len(s)]
    BY ConcatProperties
<1>2. \A i \in 1 .. Len(ab) : ab[i] = IF i <= Len(a) THEN a[i] ELSE b[i - Len(a)]
    BY ConcatProperties
<1>3. /\ sa \o b \in Seq(S) /\ Len(sa \o b) = Len(sa) + Len(b)
      /\ \A i \in 1 .. Len(sa) + Len(b) :
            (sa \o b)[i] = IF i <= Len(sa) THEN sa[i] ELSE b[i - Len(sa)]
    BY <1>1, ConcatProperties
<1>4. /\ s \o ab \in Seq(S) /\ Len(s \o ab) = Len(s) + Len(ab)
      /\ \A i \in 1 .. Len(s) + Len(ab) :
            (s \o ab)[i] = IF i <= Len(s) THEN s[i] ELSE ab[i - Len(s)]
    BY ConcatProperties
<1> HIDE DEF sa
<1>5. Len(sa \o b) = Len(s \o ab)
    BY <1>1, <1>3, <1>4
<1>6. ASSUME NEW i \in 1 .. Len(sa \o b) PROVE (sa \o b)[i] = (s \o ab)[i]
  <2>1. CASE i <= Len(s)
    BY <1>1, <1>3, <1>4, <2>1
  <2>2. CASE i > Len(s) /\ i <= Len(sa)
    BY <1>1, <1>2, <1>3, <1>4, <2>2
  <2>3. CASE i > Len(sa)
    <3>1. i - Len(s) \in 1 .. Len(ab) /\ i - Len(s) > Len(a) /\ i > Len(s)
      BY <1>1, <1>3, <1>4, <1>5, <2>3
    <3>2. (s \o ab)[i] = ab[i - Len(s)]
      BY <1>3, <1>4, <1>5, <3>1
    <3>3. ab[i - Len(s)] = b[i - Len(s) - Len(a)]
      BY <1>2, <3>1
    <3>4. (sa \o b)[i] = b[i - Len(sa)]
      BY <1>1, <1>3, <2>3
    <3>5. i - Len(s) - Len(a) = i - Len(sa)
      BY <1>1, <3>1
    <3>6. QED
      BY <3>2, <3>3, <3>4, <3>5
  <2>4. QED
    BY <1>1, <1>3, <2>1, <2>2, <2>3
<1>7. sa \o b = s \o ab
    BY <1>3, <1>4, <1>5, <1>6, SeqEqual
<1>8. QED
    BY <1>7 DEF sa

Cat(s, t) == s \o t

LEMMA Associative ==
    ASSUME NEW s \in Seq(Frames), NEW a \in Seq(Frames), NEW b \in Seq(Frames)
    PROVE  Cat(s, a) \in Seq(Frames) /\ Cat(Cat(s, a), b) = Cat(s, Cat(a, b))
<1> DEFINE ab == a \o b
<1>1. ab \in Seq(Frames) /\ s \o a \in Seq(Frames)
    BY ConcatTypes
<1>2. ab = a \o b
    OBVIOUS
<1> HIDE DEF ab
<1>3. (s \o a) \o b = s \o ab
    BY <1>1, <1>2, AssociativeNamed
<1>4. QED
    BY <1>1, <1>3 DEF Cat, ab

\* Two neighbours in a chain replaced.
LEMMA Regroup ==
    ASSUME NEW s \in Seq(Frames), NEW a \in Seq(Frames), NEW b \in Seq(Frames),
           NEW c \in Seq(Frames), NEW d \in Seq(Frames), Cat(a, b) = Cat(c, d)
    PROVE  Cat(Cat(s, a), b) = Cat(Cat(s, c), d)
BY Associative

\* A frame queued is queued behind the whole chain.
LEMMA AppendLast ==
    ASSUME NEW S, NEW s \in Seq(S), NEW t \in Seq(S), NEW e \in S
    PROVE  s \o Append(t, e) = Append(s \o t, e)
<1>1. /\ Append(t, e) = t \o <<e>> /\ <<e>> \in Seq(S)
      /\ s \o t \in Seq(S) /\ Append(s \o t, e) = (s \o t) \o <<e>>
    BY AppendIsConcat, ConcatProperties
<1>2. QED
    BY <1>1, ConcatAssociative

-----------------------------------------------------------------------------
(* The chain, whatever its parts do.                                       *)

LEMMA ChainTypes ==
    ASSUME TypeOK
    PROVE  /\ smsPosts \in Seq(Frames) /\ gwOut \in Seq(Frames) /\ gwIn \in Seq(Frames)
           /\ InHand \in Seq(Frames) /\ lora_queue \in Seq(Frames)
           /\ Chain \in Seq(Frames)
<1>1. /\ smsPosts \in Seq(Frames) /\ gwOut \in Seq(Frames) /\ gwIn \in Seq(Frames)
      /\ lora_queue \in Seq(Frames)
    BY DEF TypeOK
<1>2. InHand \in Seq(Frames)
    BY DEF TypeOK, InHand
<1>3. smsPosts \o gwOut \in Seq(Frames)
    BY <1>1, ConcatTypes
<1>4. smsPosts \o gwOut \o gwIn \in Seq(Frames)
    BY <1>1, <1>3, ConcatTypes
<1>5. smsPosts \o gwOut \o gwIn \o InHand \in Seq(Frames)
    BY <1>2, <1>4, ConcatTypes
<1>6. QED
    BY <1>1, <1>2, <1>5, ConcatTypes DEF Chain

\* A step that leaves the frames where they are, or moves one to the next
\* queue, leaves the order alone.
LEMMA SameChain ==
    ASSUME OrderInv, Chain' = Chain, fpc = "none" <=> fpc' = "none",
           Gateway => line'[1] = line[1]
    PROVE  OrderInv'
BY DEF OrderInv, Gateway

LEMMA RowsStay ==
    ASSUME IInv, UNCHANGED <<rows, posts, smsPosts, unhandled, unhandledSms>>
    PROVE  RowsOK'
BY DEF IInv, TypeOK, RowsOK, Row

LEMMA FramesStay ==
    ASSUME OrderInv, UNCHANGED <<smsPosts, gwOut, gwIn, hex_str, lora_queue>>,
           fpc = "none" <=> fpc' = "none", Gateway => line'[1] = line[1]
    PROVE  OrderInv'
<1>1. Chain' = Chain
    BY DEF Chain, InHand
<1>2. QED
    BY <1>1, SameChain

-----------------------------------------------------------------------------
(* The main thread.                                                        *)

LEMMA Places ==
    /\ Len(Lines) = 7
    /\ \A k \in 1 .. 7 :
          /\ Lines[k] = "tx" <=> k \in {1, 2}
          /\ Lines[k] = "packed" <=> k = 3
          /\ Lines[k] = "payload" <=> k = 4
          /\ Lines[k] = "encrypted" <=> k = 5
          /\ Lines[k] = "ciphertext" <=> k = 6
          /\ Lines[k] = "frame" <=> k = 7
BY DEF Lines

\* The place of the next line.
LEMMA NextPlace ==
    ASSUME IInv, NEW kinds, ReadLine(kinds)
    PROVE  /\ line[1] \in Frames /\ line[2] \in 1 .. 7
           /\ line' \in (1 .. NumReadings + 1) \X (1 .. Len(Lines))
           /\ line'[1] = IF line[2] = 7 THEN line[1] + 1 ELSE line[1]
           /\ line'[2] = IF line[2] = 7 THEN 1 ELSE line[2] + 1
           /\ Lines[line[2]] \in kinds
<1>1. Len(Lines) = 7
    BY Places
<1>2. line \in (1 .. NumReadings + 1) \X (1 .. 7)
    BY <1>1 DEF IInv, TypeOK
<1>3. line[1] \in 1 .. NumReadings + 1 /\ line[2] \in 1 .. 7 /\ line[1] <= NumReadings
    BY <1>2 DEF ReadLine
<1>4. line' = IF line[2] < 7 THEN <<line[1], line[2] + 1>> ELSE <<line[1] + 1, 1>>
    BY <1>1 DEF ReadLine
<1>5. CASE line[2] < 7
  <2>1. line' = <<line[1], line[2] + 1>>
    BY <1>4, <1>5
  <2>2. line[1] \in 1 .. NumReadings + 1 /\ line[2] + 1 \in 1 .. 7
    BY <1>3, <1>5
  <2>3. QED
    BY <1>1, <1>3, <1>5, <2>1, <2>2 DEF ReadLine, Frames
<1>6. CASE line[2] = 7
  <2>1. line' = <<line[1] + 1, 1>>
    BY <1>4, <1>6
  <2>2. line[1] + 1 \in 1 .. NumReadings + 1 /\ 1 \in 1 .. 7
    BY <1>3, BridgeAssumption
  <2>3. QED
    BY <1>1, <1>3, <1>6, <2>1, <2>2 DEF ReadLine, Frames
<1>7. QED
    BY <1>3, <1>5, <1>6

\* A line that changes no queue.
LEMMA ReadQuietly ==
    ASSUME IInv, NEW kinds, ReadLine(kinds), line[2] # 7,
           UNCHANGED <<mpc, lora_queue, posts, unhandled>>,
           line[2] # 6, current_seq' \in 0 .. SeqMod - 1, expect_hex_next' \in BOOLEAN,
           expect_hex_next' <=> line[2] = 5,
           current_seq' = Number(line[1])
    PROVE  IInv'
<1>1. /\ line[1] \in Frames /\ line[2] \in 1 .. 7
      /\ line' \in (1 .. NumReadings + 1) \X (1 .. Len(Lines))
      /\ line'[1] = line[1] /\ line'[2] = line[2] + 1
    BY NextPlace
<1>2. UNCHANGED <<packets_sent, stop_event, fpc, hex_str, rpc, gwAlive, gwCycle, gwIn,
                  gwOut, smsPosts, unhandledSms, rows>>
    BY DEF ReadLine, otherVars, feederVars, gwVars
<1>3. TypeOK'
    BY <1>1, <1>2, RowsStay, SMTT(30) DEF IInv, TypeOK
<1>4. MainInv'
    BY <1>1, BridgeAssumption DEF Frames, MainInv
<1>5. PostsInv' /\ HandInv' /\ RowsInv'
    BY <1>1, <1>2 DEF IInv, PostsInv, HandInv, RowsInv
<1>6. OrderInv'
    BY <1>1, <1>2, FramesStay DEF IInv
<1>7. QED
    BY <1>3, <1>4, <1>5, <1>6 DEF IInv

LEMMA NumberType == \A n \in Nat \ {0} : Number(n) \in 0 .. SeqMod - 1
BY BridgeAssumption DEF Number

LEMMA ReadSeqInv == IInv /\ ReadSeq => IInv'
<1> SUFFICES ASSUME IInv, ReadSeq PROVE IInv'
    OBVIOUS
<1>1. ReadLine({"tx"}) /\ line[1] \in Frames /\ line[2] \in 1 .. 7 /\ Lines[line[2]] = "tx"
    BY NextPlace DEF ReadSeq
<1>2. line[2] \in {1, 2}
    BY <1>1, Places
<1>3. /\ Number(line[1]) \in 0 .. SeqMod - 1
      /\ line[2] # 7 /\ line[2] # 6 /\ line[2] # 5
    BY <1>1, <1>2, NumberType DEF Frames
<1>4. /\ current_seq' = Number(line[1]) /\ expect_hex_next' = FALSE
      /\ UNCHANGED <<mpc, lora_queue, posts, unhandled>>
    BY DEF ReadSeq
<1>5. QED
    BY <1>1, <1>3, <1>4, ReadQuietly

LEMMA ReadTitleInv == IInv /\ ReadTitle => IInv'
<1> SUFFICES ASSUME IInv, ReadTitle PROVE IInv'
    OBVIOUS
<1>1. /\ ReadLine({"encrypted"}) /\ line[1] \in Frames /\ line[2] \in 1 .. 7
      /\ Lines[line[2]] = "encrypted"
    BY NextPlace DEF ReadTitle
<1>2. line[2] = 5
    BY <1>1, Places
<1>3. current_seq = Number(line[1]) /\ current_seq \in 0 .. SeqMod - 1
    BY <1>2 DEF IInv, TypeOK, MainInv
<1>4. QED
    BY <1>1, <1>2, <1>3, ReadQuietly DEF ReadTitle

LEMMA ReadOtherInv == IInv /\ ReadOther => IInv'
<1> SUFFICES ASSUME IInv, ReadOther PROVE IInv'
    OBVIOUS
<1> DEFINE kinds == {"packed"} \cup HexLines
<1>1. /\ ReadLine(kinds) /\ line[1] \in Frames /\ line[2] \in 1 .. 7
      /\ Lines[line[2]] \in {"packed", "payload", "ciphertext"}
    BY NextPlace DEF ReadOther, HexLines
<1>2. line[2] \in {3, 4}
    BY <1>1, Places DEF IInv, MainInv, ReadOther
<1>3. current_seq = Number(line[1]) /\ current_seq \in 0 .. SeqMod - 1
    BY <1>2 DEF IInv, TypeOK, MainInv
<1>4. expect_hex_next \in BOOLEAN /\ ~ expect_hex_next
    BY DEF IInv, TypeOK, ReadOther
<1> HIDE DEF kinds
<1>5. QED
    BY <1>1, <1>2, <1>3, <1>4, ReadQuietly DEF ReadOther

\* The place says that the hex line expected is the ciphertext of the number
\* read last.
LEMMA ReadHexInv == IInv /\ ReadHex => IInv'
<1> SUFFICES ASSUME IInv, ReadHex PROVE IInv'
    OBVIOUS
<1>1. ReadLine(HexLines) /\ line[2] = 6
    BY DEF ReadHex, IInv, MainInv
<1>2. /\ line[1] \in Frames
      /\ line' \in (1 .. NumReadings + 1) \X (1 .. Len(Lines))
      /\ line'[1] = line[1] /\ line'[2] = 7
    BY <1>1, NextPlace
<1>3. Lines[line[2]] = "ciphertext" /\ current_seq = Number(line[1])
    BY <1>1, Places DEF IInv, MainInv
<1>4. UNCHANGED <<packets_sent, stop_event, fpc, hex_str, rpc, gwAlive, gwCycle, gwIn,
                  gwOut, smsPosts, unhandledSms, rows, current_seq, lora_queue>>
    BY <1>1 DEF ReadLine, otherVars, feederVars, gwVars, ReadHex
<1> DEFINE post == [seq |-> Number(line[1]), of |-> line[1], hex |-> "ciphertext"]
           Post == [seq : 0 .. SeqMod - 1, of : Frames, hex : HexLines]
<1>5. posts' = Append(posts, post)
    BY <1>3 DEF ReadHex
<1>6. posts \in Seq(Post) /\ Len(posts) = line[1] - 1 /\ DOMAIN posts = 1 .. Len(posts)
    BY <1>1 DEF IInv, TypeOK, PostsInv
<1>7. post \in Post
    BY <1>2, NumberType DEF Frames, HexLines
<1>8. /\ posts' \in Seq(Post) /\ Len(posts') = line[1] /\ DOMAIN posts' = 1 .. line[1]
      /\ posts'[line[1]] = post
      /\ \A i \in DOMAIN posts : posts'[i] = posts[i]
  <2>1. Len(posts') = Len(posts) + 1 /\ posts' \in Seq(Post)
    BY <1>5, <1>6, <1>7
  <2> HIDE DEF Post, post
  <2>2. QED
    BY <1>2, <1>5, <1>6, <2>1 DEF Frames
<1>9. unhandled' = unhandled \cup {line[1]}
    BY <1>8 DEF ReadHex
<1>10. TypeOK'
  <2>1. /\ unhandled' \subseteq DOMAIN posts'
        /\ DOMAIN posts \ unhandled \subseteq DOMAIN posts' \ unhandled'
    <3>1. unhandled \subseteq DOMAIN posts
      BY DEF IInv, TypeOK
    <3>2. /\ DOMAIN posts \subseteq DOMAIN posts' /\ line[1] \in DOMAIN posts'
          /\ line[1] \notin DOMAIN posts
      BY <1>2, <1>6, <1>8 DEF Frames
    <3>3. QED
      BY <1>9, <3>1, <3>2
  <2>2. mpc' = "post" /\ expect_hex_next' = FALSE
    BY DEF ReadHex
  <2>3. RowsOK'
    BY <1>4, <2>1 DEF IInv, TypeOK, RowsOK, Row
  <2>4. QED
    <3>1. posts' \in Seq(Post) /\ line' \in (1 .. NumReadings + 1) \X (1 .. Len(Lines))
      BY <1>2, <1>8
    <3>2. /\ \A q \in {lora_queue', gwIn', gwOut', smsPosts'} : q \in Seq(Frames)
          /\ Len(gwIn') <= PipeSize /\ unhandledSms' \subseteq DOMAIN smsPosts'
      BY <1>4 DEF IInv, TypeOK
    <3>3. /\ mpc' \in {"read", "post", "stop", "terminate", "join", "ended"}
          /\ current_seq' \in 0 .. SeqMod - 1 /\ packets_sent' \in 0 .. NumReadings
          /\ expect_hex_next' \in BOOLEAN /\ stop_event' \in BOOLEAN /\ gwAlive' \in BOOLEAN
          /\ fpc' \in {"test", "get", "write", "closed", "dead", "none"}
          /\ hex_str' \in Frames \cup {0} /\ gwCycle' \in 0 .. NumCycles
          /\ rpc' \in {"read", "post", "join", "ended", "none"}
      BY <1>4, <2>2 DEF IInv, TypeOK
    <3>4. QED
      BY <2>1, <2>3, <3>1, <3>2, <3>3 DEF TypeOK
<1>11. MainInv'
    BY <1>2, <1>3, <1>4, BridgeAssumption DEF MainInv, ReadHex, Frames
<1>12. PostsInv'
  <2>1. \A i \in DOMAIN posts' : posts'[i] = [seq |-> Number(i), of |-> i, hex |-> "ciphertext"]
    <3>1. \A i \in DOMAIN posts' : i \in DOMAIN posts \/ i = line[1]
      BY <1>2, <1>6, <1>8 DEF Frames
    <3>2. QED
      BY <1>8, <3>1 DEF IInv, PostsInv
  <2>2. packets_sent' < Len(posts')
    <3>1. packets_sent \in 0 .. NumReadings /\ packets_sent <= line[1] - 1
      BY <1>6 DEF IInv, TypeOK, PostsInv
    <3>2. line[1] \in Nat /\ Len(posts') = line[1] /\ packets_sent' = packets_sent
      BY <1>2, <1>4, <1>8 DEF Frames
    <3>3. QED
      BY <3>1, <3>2
  <2>3. QED
    BY <1>2, <1>4, <1>8, <2>1, <2>2, SMTT(20) DEF PostsInv, TypeOK, IInv
<1>13. HandInv' /\ RowsInv'
    BY <1>4 DEF IInv, HandInv, RowsInv
<1>14. OrderInv'
    BY <1>2, <1>4, FramesStay DEF IInv
<1>15. QED
    BY <1>10, <1>11, <1>12, <1>13, <1>14 DEF IInv

LEMMA ReadFrameInv == IInv /\ ReadFrame => IInv'
<1> SUFFICES ASSUME IInv, ReadFrame PROVE IInv'
    OBVIOUS
<1>1. /\ line[1] \in Frames /\ line[2] = 7
      /\ line' \in (1 .. NumReadings + 1) \X (1 .. Len(Lines))
      /\ line'[1] = line[1] + 1 /\ line'[2] = 1
  <2>1. ReadLine({"frame"})
    BY DEF ReadFrame
  <2>2. line[2] \in 1 .. 7 /\ Lines[line[2]] = "frame"
    BY <2>1, NextPlace
  <2>3. line[2] = 7
    BY <2>2, Places
  <2>4. QED
    BY <2>1, <2>3, NextPlace
<1>2. UNCHANGED <<packets_sent, stop_event, fpc, hex_str, rpc, gwAlive, gwCycle, gwIn,
                  gwOut, smsPosts, unhandledSms, rows, mpc, current_seq,
                  expect_hex_next, posts, unhandled>>
    BY DEF ReadLine, otherVars, feederVars, gwVars, ReadFrame
<1>3. lora_queue' = IF Gateway THEN Append(lora_queue, line[1]) ELSE lora_queue
    BY DEF ReadFrame
<1>4. TypeOK'
  <2>1. lora_queue' \in Seq(Frames)
    BY <1>1, <1>3 DEF IInv, TypeOK
  <2>2. QED
    BY <1>1, <1>2, <2>1, RowsStay DEF IInv, TypeOK
<1>5. MainInv' /\ HandInv' /\ PostsInv' /\ RowsInv'
  <2>1. line[1] \in Nat /\ (line[1] + 1) - 1 = line[1]
    BY <1>1 DEF Frames
  <2>2. MainInv'
    BY <1>1, <1>2, <2>1 DEF IInv, MainInv
  <2>3. HandInv' /\ RowsInv'
    BY <1>2 DEF IInv, HandInv, RowsInv
  <2>4. PostsInv'
    BY <1>1, <1>2, <2>1 DEF IInv, PostsInv
  <2>5. QED
    BY <2>2, <2>3, <2>4
<1>6. CASE Gateway
  <2>1. Chain' = Append(Chain, line[1])
    <3>1. /\ smsPosts \o gwOut \o gwIn \o InHand \in Seq(Frames)
          /\ lora_queue \in Seq(Frames)
      <4>1. /\ smsPosts \in Seq(Frames) /\ gwOut \in Seq(Frames)
            /\ gwIn \in Seq(Frames) /\ InHand \in Seq(Frames) /\ lora_queue \in Seq(Frames)
        BY ChainTypes DEF IInv
      <4>2. smsPosts \o gwOut \in Seq(Frames)
        BY <4>1, ConcatTypes
      <4>3. smsPosts \o gwOut \o gwIn \in Seq(Frames)
        BY <4>1, <4>2, ConcatTypes
      <4>4. QED
        BY <4>1, <4>3, ConcatTypes
    <3>2. InHand' = InHand
      BY <1>2 DEF InHand
    <3>3. DEFINE front == smsPosts \o gwOut \o gwIn \o InHand
    <3>4. Chain = front \o lora_queue /\ Chain' = front \o Append(lora_queue, line[1])
      BY <1>2, <1>3, <1>6, <3>2 DEF Chain
    <3>5. front \in Seq(Frames) /\ lora_queue \in Seq(Frames) /\ line[1] \in Frames
      BY <1>1, <3>1
    <3> HIDE DEF front
    <3>6. front \o Append(lora_queue, line[1]) = Append(front \o lora_queue, line[1])
      BY ONLY <3>5, AppendLast
    <3>7. QED
      BY <3>4, <3>6
  <2>2. Chain \in Seq(Frames) /\ Len(Chain) = line[1] - 1
    BY <1>6, ChainTypes DEF IInv, OrderInv
  <2>3. /\ Len(Chain') = line[1] /\ DOMAIN Chain' = 1 .. line[1]
        /\ Chain'[line[1]] = line[1]
        /\ \A i \in 1 .. line[1] - 1 : Chain'[i] = Chain[i]
    BY <1>1, <2>1, <2>2 DEF Frames
  <2>4. \A i \in 1 .. line[1] - 1 : Chain[i] = i
    BY <2>2 DEF IInv, OrderInv
  <2>5. \A i \in 1 .. line[1] : i \in 1 .. line[1] - 1 \/ i = line[1]
    BY <1>1 DEF Frames
  <2>6. \A i \in DOMAIN Chain' : Chain'[i] = i
    BY <2>3, <2>4, <2>5
  <2>7. Gateway' /\ line'[1] - 1 = line[1]
    BY <1>1, <1>2, <1>6 DEF Gateway, Frames
  <2>8. OrderInv'
    BY <2>3, <2>6, <2>7 DEF OrderInv
  <2>9. QED
    BY <1>4, <1>5, <2>8 DEF IInv
<1>7. CASE ~ Gateway
  <2>1. OrderInv'
    BY <1>2, <1>3, <1>7, FramesStay DEF IInv
  <2>2. QED
    BY <1>4, <1>5, <2>1 DEF IInv
<1>8. QED
    BY <1>6, <1>7

\* Steps of main that touch neither console nor queues.
LEMMA MainQuietly ==
    ASSUME IInv,
           UNCHANGED <<line, current_seq, expect_hex_next, lora_queue, fpc, hex_str, rpc,
                       gwCycle, gwIn, gwOut, posts, smsPosts, unhandled, unhandledSms, rows>>,
           mpc' \in {"read", "post", "stop", "terminate", "join", "ended"},
           packets_sent' \in 0 .. NumReadings, packets_sent' <= Len(posts),
           mpc' = "post" => packets_sent' < Len(posts),
           stop_event' \in BOOLEAN, gwAlive' \in BOOLEAN
    PROVE  IInv'
<1>1. TypeOK'
    BY RowsStay DEF IInv, TypeOK
<1>2. MainInv' /\ HandInv' /\ RowsInv'
    BY DEF IInv, MainInv, HandInv, RowsInv
<1>3. PostsInv'
    BY DEF IInv, PostsInv
<1>4. OrderInv'
    BY FramesStay DEF IInv
<1>5. QED
    BY <1>1, <1>2, <1>3, <1>4 DEF IInv

LEMMA PostReturnsInv == IInv /\ PostReturns => IInv'
<1> SUFFICES ASSUME IInv, PostReturns PROVE IInv'
    OBVIOUS
<1>1. /\ packets_sent' = packets_sent + 1 /\ mpc' = "read"
      /\ UNCHANGED <<line, current_seq, expect_hex_next, lora_queue, fpc, hex_str, rpc,
                     gwCycle, gwIn, gwOut, posts, smsPosts, unhandled, unhandledSms, rows,
                     stop_event, gwAlive>>
    BY DEF PostReturns, consoleVars, otherVars, feederVars, gwVars, serverVars
<1>2. packets_sent < Len(posts) /\ packets_sent \in Nat /\ Len(posts) \in Nat
    BY DEF PostReturns, IInv, PostsInv, TypeOK
<1>3. Len(posts) <= NumReadings
  <2>1. line[1] \in 1 .. NumReadings + 1 /\ line[2] \in 1 .. 7
    BY Places DEF IInv, TypeOK
  <2>2. line[2] = 7 => line[1] <= NumReadings
    BY <2>1, BridgeAssumption DEF IInv, MainInv
  <2>3. QED
    BY <2>1, <2>2, BridgeAssumption DEF IInv, PostsInv
<1>4. packets_sent' \in 0 .. NumReadings /\ packets_sent' <= Len(posts)
    BY <1>1, <1>2, <1>3, BridgeAssumption
<1>5. stop_event' \in BOOLEAN /\ gwAlive' \in BOOLEAN
    BY <1>1 DEF IInv, TypeOK
<1>6. QED
    BY <1>1, <1>4, <1>5, MainQuietly

\* Whatever of the end of main.
LEMMA EndInv ==
    ASSUME IInv, Interrupt \/ Return \/ SetStop \/ Terminate \/ Join
    PROVE  IInv'
<1>1. /\ UNCHANGED <<line, current_seq, expect_hex_next, lora_queue, fpc, hex_str, rpc,
                     gwCycle, gwIn, gwOut, posts, smsPosts, unhandled, unhandledSms, rows,
                     packets_sent>>
      /\ mpc' \in {"stop", "terminate", "join", "ended"}
      /\ stop_event' \in BOOLEAN /\ gwAlive' \in BOOLEAN
  <2>1. stop_event \in BOOLEAN /\ gwAlive \in BOOLEAN
    BY DEF IInv, TypeOK
  <2>2. CASE Interrupt
    BY <2>1, <2>2 DEF Interrupt, Ends, consoleVars, serverVars, otherVars, feederVars, gwVars
  <2>3. CASE Return
    BY <2>1, <2>3 DEF Return, Ends, consoleVars, serverVars, otherVars, feederVars, gwVars
  <2>4. CASE SetStop
    BY <2>1, <2>4 DEF SetStop, Ends, consoleVars, serverVars, otherVars, feederVars, gwVars
  <2>5. CASE Terminate
    BY <2>1, <2>5 DEF Terminate, Ends, consoleVars, serverVars, otherVars, feederVars, gwVars
  <2>6. CASE Join
    BY <2>1, <2>6 DEF Join, Ends, consoleVars, serverVars, otherVars, feederVars, gwVars
  <2>7. QED
    BY <2>2, <2>3, <2>4, <2>5, <2>6
<1>2. packets_sent \in 0 .. NumReadings /\ packets_sent <= Len(posts)
    BY DEF IInv, TypeOK, PostsInv
<1>3. QED
    BY <1>1, <1>2, MainQuietly

-----------------------------------------------------------------------------
(* The other threads, the gateway and the server.                          *)

\* A step that moves frames from one queue to the next.
LEMMA MovesQuietly ==
    ASSUME IInv,
           UNCHANGED <<mpc, line, current_seq, expect_hex_next, packets_sent, stop_event,
                       posts, unhandled, rows>>,
           TypeOK', HandInv', Chain' = Chain, fpc = "none" <=> fpc' = "none"
    PROVE  IInv'
<1>1. MainInv' /\ PostsInv' /\ RowsInv'
    BY DEF IInv, MainInv, PostsInv, RowsInv
<1>2. OrderInv'
    BY SameChain DEF IInv
<1>3. QED
    BY <1>1, <1>2 DEF IInv

LEMMA FeederInv == IInv /\ Feeder => IInv'
<1> SUFFICES ASSUME IInv, Feeder PROVE IInv'
    OBVIOUS
<1>1. UNCHANGED <<mpc, line, current_seq, expect_hex_next, packets_sent, stop_event, rpc,
                  gwAlive, gwCycle, gwOut, posts, smsPosts, unhandled, unhandledSms, rows>>
    BY DEF Feeder, mainVars, consoleVars, serverVars
<1>2. /\ smsPosts \in Seq(Frames) /\ gwOut \in Seq(Frames) /\ gwIn \in Seq(Frames)
      /\ InHand \in Seq(Frames) /\ lora_queue \in Seq(Frames)
    BY ChainTypes DEF IInv
<1>3. Cat(smsPosts, gwOut) \in Seq(Frames)
    BY <1>2, Associative
<1>4. Cat(Cat(smsPosts, gwOut), gwIn) \in Seq(Frames)
    BY <1>2, <1>3, Associative
<1>5. CASE FeederWrite
  <2>1. /\ hex_str \in Frames /\ InHand = <<hex_str>> /\ hex_str' = 0 /\ InHand' = << >>
        /\ fpc = "write" /\ fpc' = "test" /\ lora_queue' = lora_queue
        /\ gwIn' = Append(gwIn, hex_str) /\ Len(gwIn) < PipeSize
    BY <1>5 DEF FeederWrite, IInv, TypeOK, HandInv, InHand
  <2>2. gwIn' = gwIn \o InHand /\ gwIn' \in Seq(Frames) /\ Len(gwIn') = Len(gwIn) + 1
    BY <1>2, <2>1, AppendIsConcat
  <2>3. InHand' \in Seq(Frames) /\ gwIn' \o InHand' = gwIn'
    BY <2>1, <2>2, ConcatTypes
  <2>4. Cat(gwIn', InHand') = Cat(gwIn, InHand)
    BY <2>2, <2>3 DEF Cat
  <2>5. Cat(Cat(Cat(smsPosts, gwOut), gwIn'), InHand')
            = Cat(Cat(Cat(smsPosts, gwOut), gwIn), InHand)
    <3>1. gwIn' \in Seq(Frames) /\ InHand' \in Seq(Frames)
      BY <2>2, <2>3
    <3>2. QED
      BY ONLY <1>2, <1>3, <2>4, <3>1, Regroup
  <2>6. Chain' = Chain
    BY <1>1, <2>1, <2>5 DEF Chain, Cat
  <2>7. Len(gwIn') <= PipeSize
    BY <1>2, <2>1, <2>2, BridgeAssumption
  <2>8. TypeOK' /\ HandInv'
    BY <1>1, <2>1, <2>2, <2>7, RowsStay DEF IInv, TypeOK, HandInv
  <2>9. QED
    BY <1>1, <2>1, <2>6, <2>8, MovesQuietly
<1>6. CASE FeederGet /\ UNCHANGED gwIn
  <2>1. /\ lora_queue # << >> /\ hex_str' = Head(lora_queue)
        /\ lora_queue' = Tail(lora_queue) /\ fpc = "get" /\ fpc' = "write"
        /\ InHand = << >>
    BY <1>6 DEF FeederGet, IInv, HandInv, InHand
  <2>2. /\ Head(lora_queue) \in Frames /\ Tail(lora_queue) \in Seq(Frames)
        /\ <<Head(lora_queue)>> \o Tail(lora_queue) = lora_queue
    BY <1>2, <2>1, HeadThenTail
  <2>3. hex_str' # 0
    BY <2>1, <2>2 DEF Frames
  <2>4. InHand' = <<Head(lora_queue)>> /\ InHand' \in Seq(Frames)
    BY <2>1, <2>2, <2>3 DEF InHand
  <2>5. InHand \o lora_queue = lora_queue
    BY <1>2, <2>1, ConcatTypes
  <2>6. Cat(InHand', lora_queue') = Cat(InHand, lora_queue)
    BY <2>1, <2>2, <2>4, <2>5 DEF Cat
  <2>7. lora_queue' \in Seq(Frames)
    BY <2>1, <2>2
  <2>8. Cat(Cat(Cat(Cat(smsPosts, gwOut), gwIn), InHand'), lora_queue')
            = Cat(Cat(Cat(Cat(smsPosts, gwOut), gwIn), InHand), lora_queue)
    <3>1. InHand' \in Seq(Frames)
      BY <2>4
    <3>2. QED
      BY ONLY <1>2, <1>4, <2>6, <2>7, <3>1, Regroup
  <2>9. Chain' = Chain
    BY <1>1, <1>6, <2>8 DEF Chain, Cat
  <2>10. TypeOK' /\ HandInv'
    BY <1>1, <1>6, <2>1, <2>2, <2>3, <2>7, RowsStay DEF IInv, TypeOK, HandInv
  <2>11. QED
    BY <1>1, <2>1, <2>9, <2>10, MovesQuietly
<1>7. CASE (FeederTest \/ FeederEmpty \/ FeederBreaks) /\ UNCHANGED gwIn
  <2>1. /\ UNCHANGED <<gwIn, hex_str, lora_queue>>
        /\ fpc \in {"test", "get", "write"} /\ fpc' \in {"closed", "get", "test", "dead"}
        /\ fpc' # "dead" => fpc # "write"
    BY <1>7 DEF FeederTest, FeederEmpty, FeederBreaks
  <2>2. TypeOK'
    BY <1>1, <2>1, RowsStay, SMTT(30) DEF IInv, TypeOK
  <2>3. HandInv'
    BY <1>1, <2>1 DEF IInv, HandInv
  <2>4. Chain' = Chain
    BY <1>1, <2>1 DEF Chain, InHand
  <2>5. QED
    BY <1>1, <2>1, <2>2, <2>3, <2>4, MovesQuietly
<1>8. QED
    BY <1>5, <1>6, <1>7 DEF Feeder

LEMMA ReaderInv == IInv /\ Reader => IInv'
<1> SUFFICES ASSUME IInv, Reader PROVE IInv'
    OBVIOUS
<1>1. UNCHANGED <<mpc, line, current_seq, expect_hex_next, packets_sent, stop_event,
                  lora_queue, fpc, hex_str, gwAlive, gwCycle, gwIn, posts, unhandled,
                  rows>>
    BY DEF Reader, mainVars, consoleVars, feederVars, serverVars
<1>2. smsPosts \in Seq(Frames) /\ gwOut \in Seq(Frames)
    BY ChainTypes DEF IInv
<1>3. HandInv'
    BY <1>1 DEF IInv, HandInv
<1>4. /\ smsPosts' \in Seq(Frames) /\ gwOut' \in Seq(Frames)
      /\ smsPosts' \o gwOut' = smsPosts \o gwOut
      /\ rpc' \in {"read", "post", "join", "ended"}
      /\ unhandledSms' \subseteq DOMAIN smsPosts'
      /\ DOMAIN smsPosts \ unhandledSms \subseteq DOMAIN smsPosts' \ unhandledSms'
  <2> unhandledSms \subseteq DOMAIN smsPosts
    BY DEF IInv, TypeOK
  <2>1. CASE ReadSms
    <3>1. /\ gwOut # << >> /\ smsPosts' = Append(smsPosts, Head(gwOut))
          /\ gwOut' = Tail(gwOut) /\ rpc' = "post"
          /\ unhandledSms' = unhandledSms \cup {Len(smsPosts')}
      BY <2>1 DEF ReadSms
    <3>2. Head(gwOut) \in Frames /\ Tail(gwOut) \in Seq(Frames)
      BY <1>2, <3>1, HeadThenTail
    <3>3. Append(smsPosts, Head(gwOut)) \o Tail(gwOut) = smsPosts \o gwOut
      BY <1>2, <3>1, MoveFront
    <3>4. /\ smsPosts' \in Seq(Frames) /\ Len(smsPosts') = Len(smsPosts) + 1
          /\ DOMAIN smsPosts' = 1 .. Len(smsPosts') /\ DOMAIN smsPosts = 1 .. Len(smsPosts)
          /\ Len(smsPosts) \in Nat
      BY <1>2, <3>1, <3>2
    <3>5. /\ DOMAIN smsPosts' = DOMAIN smsPosts \cup {Len(smsPosts')}
          /\ Len(smsPosts') \notin DOMAIN smsPosts
      BY <3>4
    <3>6. /\ unhandledSms' \subseteq DOMAIN smsPosts'
          /\ DOMAIN smsPosts \ unhandledSms \subseteq DOMAIN smsPosts' \ unhandledSms'
      BY <3>1, <3>5
    <3>7. QED
      BY <1>2, <3>1, <3>2, <3>3, <3>4, <3>6
  <2>2. CASE SmsReturns \/ GatewayGone \/ JoinFeeder
    BY <1>2, <2>2 DEF SmsReturns, GatewayGone, JoinFeeder
  <2>3. QED
    BY <2>1, <2>2 DEF Reader
<1>5. TypeOK'
  <2>1. RowsOK'
    BY <1>1, <1>4 DEF IInv, TypeOK, RowsOK, Row
  <2>2. QED
    BY <1>1, <1>4, <2>1, SMTT(30) DEF IInv, TypeOK
<1>6. Chain' = Chain
    BY <1>1, <1>4 DEF Chain, InHand
<1>7. QED
    BY <1>1, <1>3, <1>5, <1>6, MovesQuietly

LEMMA GatewayInv == IInv /\ (GatewayCycle \/ GatewayExits) => IInv'
<1> SUFFICES ASSUME IInv, GatewayCycle \/ GatewayExits PROVE IInv'
    OBVIOUS
<1>1. UNCHANGED <<mpc, line, current_seq, expect_hex_next, packets_sent, stop_event,
                  lora_queue, fpc, hex_str, rpc, posts, smsPosts, unhandled, unhandledSms,
                  rows>>
    BY DEF GatewayCycle, GatewayExits, mainVars, consoleVars, feederVars, serverVars
<1>2. HandInv'
    BY <1>1 DEF IInv, HandInv
<1>3. smsPosts \in Seq(Frames) /\ gwOut \in Seq(Frames) /\ gwIn \in Seq(Frames)
    BY ChainTypes DEF IInv
<1>4. CASE GatewayCycle
  <2>1. /\ gwIn # << >> /\ gwOut' = Append(gwOut, Head(gwIn)) /\ gwIn' = Tail(gwIn)
        /\ gwAlive' = gwAlive /\ gwCycle < NumCycles /\ gwCycle' = gwCycle + 1
    BY <1>4 DEF GatewayCycle
  <2>2. /\ Head(gwIn) \in Frames /\ Tail(gwIn) \in Seq(Frames)
        /\ Len(Tail(gwIn)) = Len(gwIn) - 1
    BY <1>3, <2>1, HeadThenTail
  <2>3. Append(gwOut, Head(gwIn)) \o Tail(gwIn) = gwOut \o gwIn
    BY <1>3, <2>1, MoveFront
  <2>4. gwOut' \in Seq(Frames) /\ gwIn' \in Seq(Frames) /\ Cat(gwOut', gwIn') = Cat(gwOut, gwIn)
    BY <1>3, <2>1, <2>2, <2>3, SMTT(20) DEF Cat
  <2>5. Cat(Cat(smsPosts, gwOut'), gwIn') = Cat(Cat(smsPosts, gwOut), gwIn)
    BY <1>3, <2>4, Regroup
  <2>6. Chain' = Chain
    BY <1>1, <2>5 DEF Chain, Cat, InHand
  <2>7. Len(gwIn') <= PipeSize
    BY <1>3, <2>1, <2>2, BridgeAssumption DEF IInv, TypeOK
  <2>8. gwCycle' \in 0 .. NumCycles
    BY <2>1, BridgeAssumption DEF IInv, TypeOK
  <2>9. TypeOK'
    BY <1>1, <2>1, <2>4, <2>7, <2>8, RowsStay, SMTT(30) DEF IInv, TypeOK
  <2>10. QED
    BY <1>1, <1>2, <2>6, <2>9, MovesQuietly
<1>5. CASE GatewayExits
  <2>1. gwAlive' \in BOOLEAN /\ UNCHANGED <<gwCycle, gwIn, gwOut>>
    BY <1>5 DEF GatewayExits
  <2>2. TypeOK'
    BY <1>1, <2>1, RowsStay DEF IInv, TypeOK
  <2>3. Chain' = Chain
    BY <1>1, <2>1 DEF Chain, InHand
  <2>4. QED
    BY <1>1, <1>2, <2>2, <2>3, MovesQuietly
<1>6. QED
    BY <1>4, <1>5

\* The server adds rows that have the types of rows, to posts it takes off its
\* list.
LEMMA ServerQuietly ==
    ASSUME IInv,
           UNCHANGED <<mpc, line, current_seq, expect_hex_next, packets_sent, stop_event,
                       lora_queue, fpc, hex_str, rpc, gwAlive, gwCycle, gwIn, gwOut, posts,
                       smsPosts>>,
           unhandled' \subseteq unhandled, unhandledSms' \subseteq unhandledSms,
           \A r \in rows' \ rows :
                /\ r \in Row
                /\ r.post \in IF r.path = "ingest" THEN DOMAIN posts \ unhandled'
                                                  ELSE DOMAIN smsPosts \ unhandledSms'
                /\ r.of = IF r.path = "sms" THEN r.post - r.slot ELSE r.post
    PROVE  IInv'
<1>1. TypeOK'
  <2>1. unhandled' \subseteq DOMAIN posts' /\ unhandledSms' \subseteq DOMAIN smsPosts'
    BY DEF IInv, TypeOK
  <2>2. RowsOK'
    <3>1. Row' = Row
      BY DEF Row, Frames
    <3>2. QED
      BY <3>1 DEF IInv, TypeOK, RowsOK
  <2>3. QED
    BY <2>1, <2>2, SMTT(30) DEF IInv, TypeOK
<1>2. MainInv' /\ PostsInv' /\ HandInv'
    BY DEF IInv, MainInv, PostsInv, HandInv
<1>3. OrderInv'
    BY FramesStay DEF IInv
<1>4. RowsInv'
    BY DEF IInv, RowsInv
<1>5. QED
    BY <1>1, <1>2, <1>3, <1>4 DEF IInv

LEMMA IngestInv ==
    ASSUME IInv, NEW i \in unhandled, Ingest(i)
    PROVE  IInv'
<1> DEFINE row == [path |-> "ingest", post |-> i, slot |-> 0, of |-> posts[i].of]
<1>1. UNCHANGED <<mpc, line, current_seq, expect_hex_next, packets_sent, stop_event,
                  lora_queue, fpc, hex_str, rpc, gwAlive, gwCycle, gwIn, gwOut, posts,
                  smsPosts>>
    BY DEF Ingest, mainVars, consoleVars, otherVars, feederVars, gwVars
<1>2. /\ unhandled' = unhandled \ {i} /\ unhandledSms' = unhandledSms
      /\ rows' \subseteq rows \cup {row}
    BY DEF Ingest
<1>3. i \in DOMAIN posts /\ posts[i].of = i /\ posts[i].of \in Frames
  <2> DEFINE Post == [seq : 0 .. SeqMod - 1, of : Frames, hex : HexLines]
  <2>1. posts \in Seq(Post) /\ i \in DOMAIN posts
    BY DEF IInv, TypeOK
  <2>2. posts[i] = [seq |-> Number(i), of |-> i, hex |-> "ciphertext"]
    BY <2>1 DEF IInv, PostsInv
  <2>3. posts[i] \in Post
    <3> HIDE DEF Post
    <3>1. QED
      BY <2>1
  <2>4. QED
    BY <2>1, <2>2, <2>3
<1>4. /\ row \in Row
      /\ row.path = "ingest" /\ row.post \in DOMAIN posts \ unhandled' /\ row.of = row.post
    BY <1>2, <1>3 DEF Row
<1>5. \A r \in rows' \ rows : r = row
    BY <1>2
<1> HIDE DEF row
<1>6. \A r \in rows' \ rows :
        /\ r \in Row
        /\ r.post \in IF r.path = "ingest" THEN DOMAIN posts \ unhandled'
                                          ELSE DOMAIN smsPosts \ unhandledSms'
        /\ r.of = IF r.path = "sms" THEN r.post - r.slot ELSE r.post
    BY <1>4, <1>5
<1>7. QED
    BY <1>1, <1>2, <1>6, ServerQuietly

\* The k-th post to /sms carries the k-th frame.
LEMMA SmsPostsInOrder ==
    ASSUME IInv, NEW k \in DOMAIN smsPosts
    PROVE  smsPosts[k] = k /\ k \in Frames
<1>1. /\ smsPosts \in Seq(Frames) /\ gwOut \in Seq(Frames) /\ gwIn \in Seq(Frames)
      /\ InHand \in Seq(Frames) /\ lora_queue \in Seq(Frames)
    BY ChainTypes DEF IInv
<1>2. ASSUME NEW s \in Seq(Frames), NEW t \in Seq(Frames), NEW r, r = s \o t,
             NEW i \in DOMAIN s
      PROVE  r \in Seq(Frames) /\ i \in DOMAIN r /\ r[i] = s[i]
  <2>1. /\ r \in Seq(Frames) /\ Len(r) = Len(s) + Len(t)
        /\ \A j \in 1 .. Len(r) : r[j] = IF j <= Len(s) THEN s[j] ELSE t[j - Len(s)]
    BY <1>2, ConcatProperties
  <2>2. DOMAIN r = 1 .. Len(r) /\ DOMAIN s = 1 .. Len(s) /\ Len(s) \in Nat /\ Len(t) \in Nat
    BY <1>2, <2>1
  <2>3. i \in 1 .. Len(s) /\ i \in 1 .. Len(r)
    BY <2>1, <2>2
  <2>4. QED
    BY <2>1, <2>2, <2>3
<1> DEFINE c1 == smsPosts \o gwOut
           c2 == c1 \o gwIn
           c3 == c2 \o InHand
           c4 == c3 \o lora_queue
<1>3. c1 \in Seq(Frames) /\ k \in DOMAIN c1 /\ c1[k] = smsPosts[k]
    BY <1>1, <1>2
<1>4. c4 = Chain
    BY DEF Chain
<1> HIDE DEF c1
<1>5. c2 \in Seq(Frames) /\ k \in DOMAIN c2 /\ c2[k] = smsPosts[k]
    BY <1>1, <1>2, <1>3
<1> HIDE DEF c2
<1>6. c3 \in Seq(Frames) /\ k \in DOMAIN c3 /\ c3[k] = smsPosts[k]
    BY <1>1, <1>2, <1>5
<1> HIDE DEF c3
<1>7. k \in DOMAIN c4 /\ c4[k] = smsPosts[k]
    BY <1>1, <1>2, <1>6
<1> HIDE DEF c4
<1>8. Chain[k] = k
    BY <1>4, <1>7 DEF IInv, OrderInv
<1>9. smsPosts[k] \in Frames
    BY <1>1
<1>10. QED
    BY <1>4, <1>7, <1>8, <1>9

LEMMA SmsInv ==
    ASSUME IInv, NEW k \in unhandledSms, Sms(k)
    PROVE  IInv'
<1> DEFINE Half(s) == [path |-> "sms", post |-> k, slot |-> s, of |-> smsPosts[k] - s]
<1>1. UNCHANGED <<mpc, line, current_seq, expect_hex_next, packets_sent, stop_event,
                  lora_queue, fpc, hex_str, rpc, gwAlive, gwCycle, gwIn, gwOut, posts,
                  smsPosts>>
    BY DEF Sms, mainVars, consoleVars, otherVars, feederVars, gwVars
<1>2. /\ unhandledSms' = unhandledSms \ {k} /\ unhandled' = unhandled
      /\ \A r \in rows' \ rows : \E s \in FoundSlots(smsPosts[k]) : r = Half(s)
    BY DEF Sms
<1>3. k \in DOMAIN smsPosts
    BY DEF IInv, TypeOK
<1>4. smsPosts[k] = k /\ k \in Frames
    BY <1>3, SmsPostsInOrder
<1>5. ASSUME NEW s \in FoundSlots(smsPosts[k])
      PROVE  /\ Half(s) \in Row
             /\ Half(s).path = "sms" /\ Half(s).post \in DOMAIN smsPosts \ unhandledSms'
             /\ Half(s).of = Half(s).post - Half(s).slot
  <2>1. s \in 0 .. 1 /\ k - s > 0
    BY <1>4 DEF FoundSlots
  <2>2. k - s \in Frames
    BY <1>4, <2>1, BridgeAssumption DEF Frames
  <2>3. QED
    BY <1>2, <1>3, <1>4, <2>1, <2>2 DEF Row
<1>6. \A r \in rows' \ rows :
        /\ r \in Row
        /\ r.post \in IF r.path = "ingest" THEN DOMAIN posts \ unhandled'
                                          ELSE DOMAIN smsPosts \ unhandledSms'
        /\ r.of = IF r.path = "sms" THEN r.post - r.slot ELSE r.post
  <2> SUFFICES ASSUME NEW r \in rows' \ rows
               PROVE  /\ r \in Row
                      /\ r.path = "sms" /\ r.post \in DOMAIN smsPosts \ unhandledSms'
                      /\ r.of = r.post - r.slot
    OBVIOUS
  <2>1. PICK s \in FoundSlots(smsPosts[k]) : r = Half(s)
    BY <1>2
  <2> HIDE DEF Half
  <2>2. QED
    BY <1>5, <2>1
<1>7. QED
    BY <1>1, <1>2, <1>6, ServerQuietly

-----------------------------------------------------------------------------
(* The theorems.                                                           *)

LEMMA InitInv == Init => IInv
<1> SUFFICES ASSUME Init PROVE IInv
    OBVIOUS
<1>1. TypeOK
  <2>1. line \in (1 .. NumReadings + 1) \X (1 .. Len(Lines))
    BY Places, BridgeAssumption DEF Init
  <2>2. << >> \in Seq(Frames)
        /\ << >> \in Seq([seq : 0 .. SeqMod - 1, of : Frames, hex : HexLines])
    BY EmptySeq
  <2>3. \A q \in {lora_queue, gwIn, gwOut, smsPosts} : q \in Seq(Frames)
    BY <2>2 DEF Init
  <2>4. Len(gwIn) <= PipeSize
    BY BridgeAssumption DEF Init
  <2>5. posts \in Seq([seq : 0 .. SeqMod - 1, of : Frames, hex : HexLines])
    BY <2>2 DEF Init
  <2>6. current_seq \in 0 .. SeqMod - 1 /\ packets_sent \in 0 .. NumReadings
        /\ gwCycle \in 0 .. NumCycles
    BY BridgeAssumption DEF Init
  <2>7. QED
    BY <2>1, <2>3, <2>4, <2>5, <2>6 DEF Init, TypeOK, RowsOK
<1>2. MainInv /\ HandInv /\ RowsInv
    BY DEF Init, MainInv, HandInv, RowsInv
<1>3. PostsInv
    BY DEF Init, PostsInv
<1>4. OrderInv
  <2>1. Chain = << >>
    BY DEF Init, Chain, InHand
  <2>2. QED
    BY <2>1 DEF Init, OrderInv, Gateway
<1>5. QED
    BY <1>1, <1>2, <1>3, <1>4 DEF IInv

LEMMA StepInv == IInv /\ [Next]_vars => IInv'
<1> SUFFICES ASSUME IInv, [Next]_vars PROVE IInv'
    OBVIOUS
<1>1. CASE Main
    BY <1>1, ReadSeqInv, ReadTitleInv, ReadHexInv, ReadOtherInv, ReadFrameInv,
       PostReturnsInv, EndInv DEF Main
<1>2. CASE Interrupt
    BY <1>2, EndInv
<1>3. CASE Feeder
    BY <1>3, FeederInv
<1>4. CASE Reader
    BY <1>4, ReaderInv
<1>5. CASE GatewayCycle \/ GatewayExits
    BY <1>5, GatewayInv
<1>6. CASE \E i \in unhandled : Ingest(i)
    BY <1>6, IngestInv
<1>7. CASE \E k \in unhandledSms : Sms(k)
    BY <1>7, SmsInv
<1>8. CASE UNCHANGED vars
  <2>1. UNCHANGED <<mpc, line, current_seq, expect_hex_next, packets_sent, lora_queue,
                    stop_event, fpc, hex_str, rpc, gwAlive, gwCycle, gwIn, gwOut, posts,
                    smsPosts, unhandled, unhandledSms, rows>>
    BY <1>8 DEF vars, mainVars, consoleVars, feederVars, gwVars, serverVars
  <2>2. TypeOK'
    BY <2>1, RowsStay DEF IInv, TypeOK
  <2>3. MainInv'
    BY <2>1 DEF IInv, MainInv
  <2>4. PostsInv'
    BY <2>1 DEF IInv, PostsInv
  <2>5. HandInv' /\ RowsInv'
    BY <2>1 DEF IInv, HandInv, RowsInv
  <2>6. OrderInv'
    BY <2>1, FramesStay DEF IInv
  <2>7. QED
    BY <2>2, <2>3, <2>4, <2>5, <2>6 DEF IInv
<1>9. QED
    BY <1>1, <1>2, <1>3, <1>4, <1>5, <1>6, <1>7, <1>8 DEF Next

LEMMA Inductive == Spec => []IInv
<1>1. Init => IInv
    BY InitInv
<1>2. IInv /\ [Next]_vars => IInv'
    BY StepInv
<1>3. QED
    BY <1>1, <1>2, PTL DEF Spec

\* Every variable has its type: no more requests than readings are counted as
\* sent, the pipe never holds more than it can, and a post with a row is no
\* longer waiting (the counters and queues of sim_bridge.py).
THEOREM TypeCorrect == Spec => []TypeOK
<1>1. IInv => TypeOK
    BY DEF IInv
<1>2. QED
    BY <1>1, Inductive, PTL

\* What main posts to /ingest is the ciphertext of a reading under the number
\* of that reading.
THEOREM IngestMatchesAlways == Spec => []IngestMatches
<1>1. IInv => IngestMatches
    BY DEF IInv, PostsInv, IngestMatches
<1>2. QED
    BY <1>1, Inductive, PTL

\* No reading is stored twice by /ingest, twice by its own frame's half in /sms
\* or twice by the half that repeats it, though nothing at the server prevents
\* it: force=true in post_ingest, and the insert in sms() that is made always.
THEOREM StoredOncePerPathAlways == Spec => []StoredOncePerPath
<1>1. IInv => StoredOncePerPath
  <2> SUFFICES ASSUME IInv, NEW a \in rows, NEW b \in rows,
                      a.path = b.path, a.slot = b.slot, a.of = b.of
               PROVE  a = b
    BY DEF StoredOncePerPath
  <2>1. a \in Row /\ b \in Row
    BY DEF IInv, TypeOK, RowsOK
  <2>2. a.post \in Nat /\ b.post \in Nat /\ a.slot \in Nat
    BY <2>1 DEF Row, Frames
  <2>3. /\ a.of = IF a.path = "sms" THEN a.post - a.slot ELSE a.post
        /\ b.of = IF b.path = "sms" THEN b.post - b.slot ELSE b.post
    BY DEF IInv, RowsInv
  <2>4. a.post = b.post
    <3>1. CASE a.path = "sms"
      <4>1. a.post - a.slot = b.post - a.slot
        BY <2>3, <3>1
      <4>2. QED
        BY <2>2, <4>1
    <3>2. CASE a.path # "sms"
      BY <2>2, <2>3, <3>2
    <3>3. QED
      BY <3>1, <3>2
  <2>5. QED
    BY <2>1, <2>4 DEF Row
<1>2. QED
    BY <1>1, Inductive, PTL

\* Queue, feeder, pipe, gateway and reader together lose, repeat and overtake
\* no frame, wherever the threads stand and however they end.
THEOREM PipelineKeepsOrder == Spec => []PipelineInOrder
<1>1. IInv => PipelineInOrder
    BY DEF IInv, OrderInv, Chain, InHand, PipelineInOrder
<1>2. QED
    BY <1>1, Inductive, PTL

=============================================================================
