--------------------------------- MODULE Line ---------------------------------
(***************************************************************************)
(* The signal on the pin of the tank: SendCode and SendBit (Controller.cpp,*)
(* and sendCode and sendBit of RTController.c, which differ in the times), *)
(* and a receiver that tells frames apart by nothing but how long the pin  *)
(* keeps a level. A sleep may last up to Jitter longer than it was asked.  *)
(***************************************************************************)
EXTENDS Integers, Sequences

CONSTANTS
    Header,    \* the time of the header
    Half,      \* the time of half a bit
    Gap,       \* the time of the gap
    SaidGap,   \* the time the comments give for it
    Jitter,    \* how much longer a sleep may last
    Width,     \* bits of a frame (32)
    Words,     \* the frames: sequences of bits
    MaxSent    \* bound: frames sent

(* Every frame starts with a 1 (its first byte is 0xFE), and a sleep lasts  *)
(* less than half as long again.                                            *)
ASSUME LineAssumption ==
    /\ Half \in Nat \ {0} /\ Header \in Nat
    /\ Gap \in Nat /\ SaidGap \in Nat /\ Jitter \in Nat
    /\ Width \in Nat \ {0}
    /\ Words \subseteq [1..Width -> {0, 1}]
    /\ \A w \in Words : w[1] = 1
    /\ Header >= 2 * Half
    /\ 2 * Jitter < Half
    /\ MaxSent \in Nat

VARIABLES
    pc,      \* the sender: before the header, a half of a bit, or the gap
    word,    \* the frame it sends
    i,       \* the bit it sends
    pin,     \* the level of the pin
    held,    \* how long it has had it
    rx,      \* the receiver: is it in a frame, is the next edge in the middle
             \* of a bit or may it be between two, and the bits so far
    got,     \* the frames the receiver has read
    sent     \* history: the frames sent

vars == <<pc, word, i, pin, held, rx, got, sent>>

NotInFrame == [on |-> FALSE, between |-> FALSE, bits |-> <<>>]

Init == /\ pc = "header"
        /\ word \in Words
        /\ i = 1
        /\ pin = 0
        /\ held = SaidGap
        /\ rx = NotInFrame
        /\ got = <<>>
        /\ sent = <<>>

-----------------------------------------------------------------------------
(* The receiver sees an edge: the pin leaves level after having had it for  *)
(* a time. Longer than any level of a frame, it was the header and the      *)
(* first half of a 1.                                                       *)
LongHigh == Header + Half
Long == 2 * Half

Count(r, bit) == [r EXCEPT !.between = TRUE, !.bits = Append(@, bit)]

Edge(r, level, time) ==
    IF level = 1 /\ time >= LongHigh
    THEN [on |-> TRUE, between |-> TRUE, bits |-> <<1>>]
    ELSE IF ~r.on THEN r
    ELSE IF r.between /\ time < Long THEN [r EXCEPT !.between = FALSE]
    ELSE Count(r, level)

Completes(r) == Len(r.bits) = Width

(* The pin is set to a level for a time. *)
Set(level, time) ==
    \E more \in 0..Jitter :
        IF pin = level
        THEN /\ held' = held + time + more
             /\ UNCHANGED <<pin, rx, got>>
        ELSE LET r == Edge(rx, pin, held)
             IN  /\ pin' = level
                 /\ held' = time + more
                 /\ rx' = IF Completes(r) THEN NotInFrame ELSE r
                 /\ got' = IF Completes(r) THEN Append(got, r.bits) ELSE got

(* Variant: the header is as long as a bit. *)
SendHeaderShort == /\ pc = "header"
                   /\ Len(sent) < MaxSent
                   /\ Set(1, Half)
                   /\ pc' = "first"
                   /\ UNCHANGED <<word, i, sent>>

SendHeader == /\ pc = "header"
              /\ Len(sent) < MaxSent
              /\ Set(1, Header)
              /\ pc' = "first"
              /\ UNCHANGED <<word, i, sent>>

(* SendBit: 1 is high-low, 0 is low-high. *)
FirstHalf == /\ pc = "first"
             /\ Set(word[i], Half)
             /\ pc' = "second"
             /\ UNCHANGED <<word, i, sent>>

(* Variant: both halves of a bit have the same level. *)
SecondHalfSame == /\ pc = "second"
                  /\ Set(word[i], Half)
                  /\ IF i < Width THEN i' = i + 1 /\ pc' = "first"
                                  ELSE i' = 1 /\ pc' = "gap"
                  /\ UNCHANGED <<word, sent>>

SecondHalf == /\ pc = "second"
              /\ Set(1 - word[i], Half)
              /\ IF i < Width THEN i' = i + 1 /\ pc' = "first"
                              ELSE i' = 1 /\ pc' = "gap"
              /\ UNCHANGED <<word, sent>>

SendGap == /\ pc = "gap"
           /\ Set(0, Gap)
           /\ sent' = Append(sent, word)
           /\ pc' = "header"
           /\ word' \in Words
           /\ UNCHANGED i

Next == SendHeader \/ FirstHalf \/ SecondHalf \/ SendGap

Spec == Init /\ [][Next]_vars

-----------------------------------------------------------------------------
TypeOK == /\ pc \in {"header", "first", "second", "gap"}
          /\ word \in Words
          /\ i \in 1..Width
          /\ pin \in {0, 1}
          /\ held \in Nat

(* "not a valid Manchester code": the first level of a frame is longer than *)
(* any that follows in it, however the frame's bits fall and the sleeps     *)
(* stretch (SendCode, SendBit).                                             *)
HeaderStandsOut ==
    pc \in {"second", "gap"} =>
        IF i = 1 /\ pc = "second"
        THEN pin = 1 /\ held >= Header + Half
        ELSE pin = 1 => held < Header + Half

(* The receiver reads every frame that was sent, and nothing else: when the *)
(* gap is over it has them all, whatever followed whatever (SendCode).      *)
FramesRead == /\ Len(got) - Len(sent) \in {0, 1}
              /\ SubSeq(got, 1, Len(sent)) = sent
              /\ pc = "header" => got = sent

(* "Force a 4ms gap between messages" (Controller.cpp:238,                  *)
(* RTController.c:231): the pin is low for that long before every header.   *)
GapAsSaid == pc = "header" => held >= SaidGap
=============================================================================
