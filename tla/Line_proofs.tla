----------------------------- MODULE Line_proofs -----------------------------
(***************************************************************************)
(* The header stands out from the levels of a frame, and the gap lasts, for*)
(* all frames, all times and every jitter below half of half a bit.        *)
(***************************************************************************)
EXTENDS Line, TLAPS

(* What the pin and the time it had its level tell of the sender's step:    *)
(* between the halves of the first bit the header still lasts; every later  *)
(* bit has an edge in its middle, so a level lasts one half of a bit when   *)
(* the bit begins, and two at most in its middle.                           *)
LevelsTell ==
    /\ pc = "header" => i = 1 /\ pin = 0
    /\ pc = "first" /\ i = 1 => pin = 1 /\ held >= Header
    /\ pc = "first" /\ i # 1 => held <= Half + Jitter
    /\ pc = "second" => pin = word[i]
    /\ pc = "second" /\ i = 1 => held >= Header + Half
    /\ pc = "second" /\ i # 1 => held <= Half + Jitter + Half + Jitter
    /\ pc = "gap" => i = 1 /\ held <= Half + Jitter

LineInv == TypeOK /\ LevelsTell

(* What Set does to the pin (SendCode, SendBit). *)
LEMMA SetPin ==
    ASSUME NEW level \in {0, 1}, NEW time \in Nat, Set(level, time), TypeOK
    PROVE  /\ pin' = level
           /\ held' \in Nat
           /\ pin = level => held' >= held + time /\ held' <= held + time + Jitter
           /\ pin # level => held' >= time /\ held' <= time + Jitter
<1>1. PICK more \in 0..Jitter :
        IF pin = level
        THEN held' = held + time + more /\ pin' = pin
        ELSE held' = time + more /\ pin' = level
    BY DEF Set
<1> QED  BY <1>1, LineAssumption DEF TypeOK

(* The bits of a frame are bits, and its first is a 1 (LineAssumption). *)
LEMMA WordBits == ASSUME NEW w \in Words, NEW k \in 1..Width
                  PROVE  w[k] \in {0, 1} /\ 1 - w[k] \in {0, 1}
                         /\ 1 - w[k] # w[k] /\ w[1] = 1
<1>1. w \in [1..Width -> {0, 1}] /\ w[1] = 1  BY LineAssumption
<1>2. w[k] \in {0, 1}  BY <1>1
<1> QED  BY <1>1, <1>2

(* The invariant holds at first. *)
LEMMA LineInit == ASSUME Init PROVE LineInv
BY LineAssumption DEF Init, LineInv, TypeOK, LevelsTell

(* Every step of the sender keeps it (SendCode, SendBit). *)
LEMMA LineStep == ASSUME LineInv, [Next]_vars PROVE LineInv'
<1> USE DEF LineInv
<1>t. /\ Header \in Nat /\ Half \in Nat /\ Gap \in Nat /\ Jitter \in Nat
      /\ Width \in Nat \ {0} /\ held \in Nat
    BY LineAssumption DEF TypeOK
<1>w. word[i] \in {0, 1} /\ 1 - word[i] \in {0, 1} /\ 1 - word[i] # word[i]
      /\ word[1] = 1
    BY WordBits DEF TypeOK
<1>1. CASE SendHeader
    <2>1. pc = "header" /\ i = 1 /\ pin = 0  BY <1>1 DEF SendHeader, LevelsTell
    <2>2. Set(1, Header) /\ pc' = "first" /\ word' = word /\ i' = i
        BY <1>1 DEF SendHeader
    <2>3. pin' = 1 /\ held' \in Nat /\ held' >= Header
        BY <2>1, <2>2, <1>t, SetPin
    <2> QED  BY <2>1, <2>2, <2>3 DEF TypeOK, LevelsTell
<1>2. CASE FirstHalf
    <2>1. pc = "first" /\ Set(word[i], Half) /\ pc' = "second" /\ word' = word
          /\ i' = i
        BY <1>2 DEF FirstHalf
    <2>2. /\ pin' = word[i] /\ held' \in Nat
          /\ pin = word[i] => held' >= held + Half /\ held' <= held + Half + Jitter
          /\ pin # word[i] => held' >= Half /\ held' <= Half + Jitter
        BY <2>1, <1>t, <1>w, SetPin
    <2>3. i = 1 => held' >= Header + Half
        BY <2>1, <2>2, <1>t, <1>w DEF LevelsTell
    <2>4. i # 1 => held' <= Half + Jitter + Half + Jitter
        BY <2>1, <2>2, <1>t DEF LevelsTell
    <2>5. pin' \in {0, 1} /\ pin' = word'[i']
        BY <2>1, <2>2, <1>w
    <2>6. TypeOK'  BY <2>1, <2>2, <2>5 DEF TypeOK
    <2>7. LevelsTell'  BY <2>1, <2>3, <2>4, <2>5 DEF LevelsTell
    <2> QED  BY <2>1, <2>6, <2>7
<1>3. CASE SecondHalf
    <2>1. pc = "second" /\ Set(1 - word[i], Half) /\ word' = word /\ pin = word[i]
        BY <1>3 DEF SecondHalf, LevelsTell
    <2>2. held' \in Nat /\ held' <= Half + Jitter /\ pin' = 1 - word[i]
        BY <2>1, <1>t, <1>w, SetPin
    <2>3. CASE i < Width
        <3>1. i' = i + 1 /\ pc' = "first"  BY <1>3, <2>3 DEF SecondHalf
        <3>2. i' \in 1..Width /\ i' # 1  BY <3>1, <2>3, <1>t DEF TypeOK
        <3> QED  BY <2>1, <2>2, <3>1, <3>2 DEF TypeOK, LevelsTell
    <2>4. CASE ~(i < Width)
        <3>1. i' = 1 /\ pc' = "gap"  BY <1>3, <2>4 DEF SecondHalf
        <3>2. 1 \in 1..Width  BY <1>t
        <3> QED  BY <2>1, <2>2, <3>1, <3>2 DEF TypeOK, LevelsTell
    <2> QED  BY <2>3, <2>4
<1>4. CASE SendGap
    <2>1. pc = "gap" /\ Set(0, Gap) /\ pc' = "header" /\ word' \in Words /\ i' = i
        BY <1>4 DEF SendGap
    <2>2. pin' = 0 /\ held' \in Nat /\ held' >= Gap
        BY <2>1, <1>t, SetPin
    <2> QED  BY <2>1, <2>2, <1>t DEF TypeOK, LevelsTell
<1>5. CASE UNCHANGED vars
    BY <1>5 DEF vars, TypeOK, LevelsTell
<1> QED  BY <1>1, <1>2, <1>3, <1>4, <1>5 DEF Next

(* The invariant tells the header from the rest: 2 * Jitter < Half.         *)
LEMMA HeaderFromLevels == ASSUME LineInv PROVE HeaderStandsOut
<1>1. /\ Header \in Nat /\ Half \in Nat /\ Jitter \in Nat /\ held \in Nat
      /\ Half + Jitter + Half + Jitter < Header + Half
    BY LineAssumption DEF LineInv, TypeOK
<1>2. word[1] = 1  BY LineAssumption DEF LineInv, TypeOK
<1> QED  BY <1>1, <1>2 DEF LineInv, LevelsTell, HeaderStandsOut

(* The header stands out in every frame, whatever the gap (SendCode).       *)
THEOREM HeaderAlwaysStandsOut == Spec => [](TypeOK /\ HeaderStandsOut)
<1>1. Init => LineInv  BY LineInit
<1>2. LineInv /\ [Next]_vars => LineInv'  BY LineStep
<1>3. LineInv => TypeOK /\ HeaderStandsOut  BY HeaderFromLevels DEF LineInv
<1> QED  BY <1>1, <1>2, <1>3, PTL DEF Spec

(* When the gap is asked for in full (Controller.cpp), the pin is low for   *)
(* the gap before every header.                                             *)
THEOREM GapLasts ==
    ASSUME Gap >= SaidGap
    PROVE  Spec => []GapAsSaid
<1>1. Init => LineInv /\ GapAsSaid
    BY LineInit, LineAssumption DEF Init, GapAsSaid
<1>2. LineInv /\ GapAsSaid /\ [Next]_vars => LineInv' /\ GapAsSaid'
    <2> SUFFICES ASSUME LineInv, GapAsSaid, [Next]_vars PROVE GapAsSaid'
        BY LineStep
    <2>1. CASE SendGap
        <3>1. Set(0, Gap) /\ TypeOK  BY <2>1 DEF SendGap, LineInv
        <3>2. held' >= Gap /\ held' \in Nat
            BY <3>1, SetPin, LineAssumption DEF TypeOK
        <3> QED  BY <3>2, LineAssumption DEF GapAsSaid
    <2>2. CASE pc' # "header"
        BY <2>2 DEF GapAsSaid
    <2> QED
        BY <2>1, <2>2
           DEF Next, vars, SendHeader, FirstHalf, SecondHalf, GapAsSaid
<1> QED  BY <1>1, <1>2, PTL DEF Spec

-----------------------------------------------------------------------------
(* The receiver.                                                            *)

(* The first n bits of a frame. *)
Prefix(w, n) == [k \in 1..n |-> w[k]]

(* What the receiver has made of the edges, for every step of the sender:   *)
(* in a later bit it has read those before it, the level began in the       *)
(* middle of the last one, and it has seen the edge between the two, if the *)
(* bits are equal.                                                          *)
InFrame(between, n) == rx = [on |-> TRUE, between |-> between, bits |-> Prefix(word, n)]

Received ==
    /\ sent \in Seq(Words)
    /\ got = IF pc = "gap" THEN Append(sent, word) ELSE sent
    /\ pc \in {"header", "gap"} \/ i = 1 => rx = NotInFrame
    /\ pc = "first" /\ i # 1 => /\ InFrame(TRUE, i - 1)
                                /\ pin = 1 - word[i - 1] /\ held >= Half
    /\ pc = "second" /\ i # 1 => \/ InFrame(TRUE, i - 1) /\ held >= Long
                                 \/ InFrame(FALSE, i - 1)

(* A frame is a sequence of bits, read one by one. *)
LEMMA Prefixes ==
    ASSUME NEW w \in Words
    PROVE  /\ w \in Seq({0, 1}) /\ Len(w) = Width
           /\ Prefix(w, Width) = w
           /\ \A n \in 0..Width : Prefix(w, n) \in Seq({0, 1}) /\ Len(Prefix(w, n)) = n
           /\ \A n \in 0..Width - 1 :
                 Append(Prefix(w, n), w[n + 1]) = Prefix(w, n + 1)
           /\ <<1>> = Prefix(w, 1)
<1>1. w \in [1..Width -> {0, 1}] /\ Width \in Nat \ {0} /\ w[1] = 1
    BY LineAssumption
<1>2. w \in Seq({0, 1}) /\ Len(w) = Width /\ Prefix(w, Width) = w
    BY <1>1 DEF Prefix
<1>3. ASSUME NEW n \in 0..Width
      PROVE  Prefix(w, n) \in Seq({0, 1}) /\ Len(Prefix(w, n)) = n
    <2>1. \A k \in 1..n : w[k] \in {0, 1}  BY <1>1
    <2> QED  BY <1>1, <2>1 DEF Prefix
<1>4. ASSUME NEW n \in 0..Width - 1
      PROVE  Append(Prefix(w, n), w[n + 1]) = Prefix(w, n + 1)
    <2>1. /\ n \in 0..Width /\ n + 1 \in 0..Width
          /\ w[n + 1] \in {0, 1}
        BY <1>1
    <2>2. /\ Prefix(w, n) \in Seq({0, 1}) /\ Len(Prefix(w, n)) = n
          /\ Prefix(w, n + 1) \in Seq({0, 1}) /\ Len(Prefix(w, n + 1)) = n + 1
        BY <1>3, <2>1
    <2>3. \A k \in 1..n + 1 :
             Append(Prefix(w, n), w[n + 1])[k] = Prefix(w, n + 1)[k]
        BY <2>1, <2>2 DEF Prefix
    <2> QED  BY <2>1, <2>2, <2>3
<1>5. <<1>> = Prefix(w, 1)
    BY <1>1, <1>3 DEF Prefix
<1> QED  BY <1>1, <1>2, <1>3, <1>4, <1>5

(* Set shows the receiver an edge if it changes the level. *)
LEMMA SetSeen ==
    ASSUME NEW level, NEW time, Set(level, time)
    PROVE  /\ pin = level => rx' = rx /\ got' = got
           /\ pin # level =>
                 LET r == Edge(rx, pin, held)
                 IN  /\ rx' = IF Completes(r) THEN NotInFrame ELSE r
                     /\ got' = IF Completes(r) THEN Append(got, r.bits) ELSE got
BY DEF Set

(* An edge outside a frame, of a level shorter than a header, is nothing.   *)
LEMMA EdgeOutside ==
    ASSUME rx = NotInFrame, NEW level, NEW time, ~(level = 1 /\ time >= LongHigh)
    PROVE  Edge(rx, level, time) = NotInFrame /\ ~Completes(Edge(rx, level, time))
<1>1. Edge(rx, level, time) = NotInFrame
    BY DEF Edge, NotInFrame
<1>2. Len(NotInFrame.bits) = 0 /\ Width # 0
    BY LineAssumption DEF NotInFrame
<1> QED  BY <1>1, <1>2 DEF Completes

(* The header and the half after it are the first bit. *)
LEMMA EdgeOfHeader ==
    ASSUME NEW time, time >= LongHigh
    PROVE  Edge(rx, 1, time) = [on |-> TRUE, between |-> TRUE, bits |-> <<1>>]
BY DEF Edge

(* An edge between two bits. *)
LEMMA EdgeBetween ==
    ASSUME NEW n, InFrame(TRUE, n), NEW level, NEW time,
           ~(time >= LongHigh), time < Long
    PROVE  Edge(rx, level, time)
              = [on |-> TRUE, between |-> FALSE, bits |-> Prefix(word, n)]
BY DEF Edge, InFrame

(* An edge in the middle of a bit is the bit. *)
LEMMA EdgeInBit ==
    ASSUME NEW n, NEW level, NEW time, ~(time >= LongHigh),
           \/ InFrame(TRUE, n) /\ ~(time < Long)
           \/ InFrame(FALSE, n)
    PROVE  Edge(rx, level, time)
              = [on |-> TRUE, between |-> TRUE, bits |-> Append(Prefix(word, n), level)]
<1>1. PICK between \in BOOLEAN : InFrame(between, n) /\ ~(between /\ time < Long)
    OBVIOUS
<1>2. Edge(rx, level, time) = Count(rx, level)
    BY <1>1 DEF Edge, InFrame
<1> QED  BY <1>1, <1>2 DEF Count, InFrame

(* Every step of the sender keeps what the receiver knows. *)
LEMMA ReceivedStep == ASSUME LineInv, Received, [Next]_vars PROVE Received'
<1>t. /\ Header \in Nat /\ Half \in Nat \ {0} /\ Jitter \in Nat /\ held \in Nat
      /\ Width \in Nat \ {0} /\ i \in 1..Width /\ word \in Words
      /\ Header >= 2 * Half /\ 2 * Jitter < Half
      /\ pin \in {0, 1}
    BY LineAssumption DEF LineInv, TypeOK
<1>w. word[i] \in {0, 1} /\ 1 - word[i] \in {0, 1} /\ 1 - word[i] # word[i]
      /\ word[1] = 1
    BY WordBits DEF LineInv, TypeOK
<1>l. /\ LongHigh = Header + Half /\ Long = 2 * Half
      /\ Half + Jitter < Long /\ Half + Jitter + Half + Jitter < LongHigh
      /\ Half + Jitter < LongHigh
    BY <1>t DEF LongHigh, Long
<1>1. CASE SendHeader
    <2>1. /\ pc = "header" /\ i = 1 /\ pin = 0
          /\ pc' = "first" /\ UNCHANGED <<word, i, sent>> /\ Set(1, Header)
        BY <1>1 DEF SendHeader, LineInv, LevelsTell
    <2>2. rx = NotInFrame /\ got = sent  BY <2>1 DEF Received
    <2>3. rx' = NotInFrame /\ got' = got
        BY <2>1, <2>2, SetSeen, EdgeOutside
    <2> QED  BY <2>1, <2>2, <2>3 DEF Received
<1>2. CASE FirstHalf
    <2>1. /\ pc = "first" /\ Set(word[i], Half) /\ pc' = "second"
          /\ UNCHANGED <<word, i, sent>>
        BY <1>2 DEF FirstHalf
    <2>2. CASE i = 1
        <3>1. pin = 1 /\ rx = NotInFrame /\ got = sent
            BY <2>1, <2>2 DEF LineInv, LevelsTell, Received
        <3>2. rx' = rx /\ got' = got  BY <2>1, <2>2, <3>1, <1>w, SetSeen
        <3> QED  BY <2>1, <2>2, <3>1, <3>2 DEF Received
    <2>3. CASE i # 1
        <3>1. /\ InFrame(TRUE, i - 1) /\ got = sent
              /\ held <= Half + Jitter /\ held >= Half
            BY <2>1, <2>3 DEF LineInv, LevelsTell, Received
        <3>2. CASE pin = word[i]
            <4>1. rx' = rx /\ got' = got  BY <2>1, <3>2, SetSeen
            <4>2. held' >= Long
                BY <2>1, <3>1, <3>2, <1>t, <1>w, <1>l, SetPin DEF LineInv
            <4> QED
                BY <2>1, <2>3, <3>1, <4>1, <4>2 DEF Received, InFrame
        <3>3. CASE pin # word[i]
            <4>0. ~(held >= LongHigh) /\ held < Long  BY <3>1, <1>t, <1>l
            <4>1. Edge(rx, pin, held)
                     = [on |-> TRUE, between |-> FALSE, bits |-> Prefix(word, i - 1)]
                BY <3>1, <4>0, EdgeBetween
            <4>2. i - 1 \in 0..Width /\ i - 1 # Width  BY <1>t
            <4>3. ~Completes(Edge(rx, pin, held))
                BY <4>1, <4>2, <1>t, Prefixes DEF Completes
            <4>4. rx' = Edge(rx, pin, held) /\ got' = got
                BY <2>1, <3>3, <4>3, SetSeen
            <4> QED
                BY <2>1, <2>3, <3>1, <4>1, <4>4 DEF Received, InFrame
        <3> QED  BY <3>2, <3>3
    <2> QED  BY <2>2, <2>3
<1>3. CASE SecondHalf
    <2>1. /\ pc = "second" /\ Set(1 - word[i], Half) /\ UNCHANGED <<word, sent>>
          /\ pin = word[i] /\ got = sent /\ sent \in Seq(Words)
        BY <1>3 DEF SecondHalf, LineInv, LevelsTell, Received
    <2>2. Edge(rx, pin, held)
             = [on |-> TRUE, between |-> TRUE, bits |-> Prefix(word, i)]
        <3>1. CASE i = 1
            <4>1. rx = NotInFrame /\ held >= LongHigh /\ pin = 1
                BY <2>1, <3>1, <1>w, <1>l DEF LineInv, LevelsTell, Received
            <4> QED  BY <3>1, <4>1, <1>t, EdgeOfHeader, Prefixes
        <3>2. CASE i # 1
            <4>1. /\ \/ InFrame(TRUE, i - 1) /\ held >= Long
                     \/ InFrame(FALSE, i - 1)
                  /\ held <= Half + Jitter + Half + Jitter
                BY <2>1, <3>2 DEF LineInv, LevelsTell, Received
            <4>2. ~(held >= LongHigh) /\ (held >= Long => ~(held < Long))
                BY <4>1, <1>t, <1>l
            <4>3. Edge(rx, pin, held)
                     = [on |-> TRUE, between |-> TRUE,
                        bits |-> Append(Prefix(word, i - 1), pin)]
                BY <4>1, <4>2, EdgeInBit
            <4>4. i - 1 \in 0..Width - 1 /\ (i - 1) + 1 = i  BY <1>t
            <4>5. Append(Prefix(word, i - 1), word[i]) = Prefix(word, i)
                BY <4>4, <1>t, Prefixes
            <4> QED  BY <2>1, <4>3, <4>5
        <3> QED  BY <3>1, <3>2
    <2>3. Completes(Edge(rx, pin, held)) <=> i = Width
        <3>1. i \in 0..Width  BY <1>t
        <3>2. Len(Prefix(word, i)) = i  BY <3>1, <1>t, Prefixes
        <3> QED  BY <2>2, <3>2 DEF Completes
    <2>4. /\ pin' = 1 - word[i] /\ held' >= Half
        BY <2>1, <1>t, <1>w, SetPin DEF LineInv
    <2>5. CASE i < Width
        <3>1. i' = i + 1 /\ pc' = "first"  BY <1>3, <2>5 DEF SecondHalf
        <3>2. rx' = Edge(rx, pin, held) /\ got' = got
            BY <2>1, <2>3, <2>5, <1>t, <1>w, SetSeen
        <3>3. i' - 1 = i /\ i' # 1  BY <3>1, <1>t
        <3> QED
            BY <2>1, <2>2, <2>4, <3>1, <3>2, <3>3 DEF Received, InFrame
    <2>6. CASE ~(i < Width)
        <3>1. i' = 1 /\ pc' = "gap" /\ i = Width
            BY <1>3, <2>6, <1>t DEF SecondHalf
        <3>2. rx' = NotInFrame /\ got' = Append(got, Prefix(word, i))
            BY <2>1, <2>2, <2>3, <3>1, <1>w, SetSeen
        <3>3. got' = Append(sent, word)
            BY <2>1, <3>1, <3>2, <1>t, Prefixes
        <3> QED  BY <2>1, <3>1, <3>2, <3>3 DEF Received
    <2> QED  BY <2>5, <2>6
<1>4. CASE SendGap
    <2>1. /\ pc = "gap" /\ Set(0, Gap) /\ pc' = "header" /\ i' = i
          /\ sent' = Append(sent, word)
        BY <1>4 DEF SendGap
    <2>2. /\ rx = NotInFrame /\ got = Append(sent, word) /\ held <= Half + Jitter
          /\ i = 1 /\ sent \in Seq(Words)
        BY <2>1 DEF LineInv, LevelsTell, Received
    <2>3. ~(held >= LongHigh)  BY <2>2, <1>t, <1>l
    <2>4. rx' = NotInFrame /\ got' = got
        BY <2>1, <2>2, <2>3, SetSeen, EdgeOutside
    <2> QED  BY <2>1, <2>2, <2>4, <1>t DEF Received
<1>5. CASE UNCHANGED vars
    BY <1>5 DEF vars, Received, InFrame
<1> QED  BY <1>1, <1>2, <1>3, <1>4, <1>5 DEF Next

(* The receiver reads every frame that was sent, bit by bit, and nothing    *)
(* else, for every width, every set of frames and every sleep below half as *)
(* long again (SendCode, SendBit).                                          *)
THEOREM EveryFrameIsRead == Spec => []FramesRead
<1>1. Init => LineInv /\ Received
    BY LineInit DEF Init, Received
<1>2. LineInv /\ Received /\ [Next]_vars => LineInv' /\ Received'
    BY LineStep, ReceivedStep
<1>3. LineInv /\ Received => FramesRead
    <2> SUFFICES ASSUME LineInv, Received PROVE FramesRead
        OBVIOUS
    <2>1. sent \in Seq(Words) /\ word \in Words
        BY DEF LineInv, TypeOK, Received
    <2>2. CASE pc = "gap"
        <3>1. got = Append(sent, word)  BY <2>2 DEF Received
        <3>2. Len(got) - Len(sent) = 1  BY <2>1, <3>1
        <3>3. SubSeq(got, 1, Len(sent)) = sent  BY <2>1, <3>1
        <3> QED  BY <2>2, <3>2, <3>3 DEF FramesRead
    <2>3. CASE pc # "gap"
        <3>1. got = sent  BY <2>3 DEF Received
        <3>2. SubSeq(sent, 1, Len(sent)) = sent /\ Len(sent) - Len(sent) = 0
            BY <2>1
        <3> QED  BY <2>3, <3>1, <3>2 DEF FramesRead
    <2> QED  BY <2>2, <2>3
<1> QED  BY <1>1, <1>2, <1>3, PTL DEF Spec
=============================================================================
