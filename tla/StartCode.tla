------------------------------ MODULE StartCode ------------------------------
(***************************************************************************)
(* ReadStartCode of the H.264 and the H.265 frame constructor              *)
(* (c2_utils/src/mfx_frame_constructor.cpp): the position of the next      *)
(* start code, found by steps of two bytes, against its definition, the    *)
(* first 00 00 01.  The bytes grow one at a time, so every string up to    *)
(* the bound is met.                                                       *)
(***************************************************************************)
EXTENDS Integers, Sequences

CONSTANTS Bytes,     \* the values a byte takes, 0 and 1 among them
          MaxBytes   \* bound: the length of the data

VARIABLES stream,  \* the data, at *position
          hevc     \* the class: MfxC2HEVCFrameConstructor or MfxC2AVCFrameConstructor
scanVars == <<stream, hevc>>

Least(a, b) == IF a < b THEN a ELSE b
NalType(byte) == IF hevc THEN (byte \div 2) % 64 ELSE byte % 32

\* What a call returns: start_code, and *size_left afterwards.
Code(type, size, left) == [type |-> type, size |-> size, left |-> left]

\* A start code whose 01 is followed by "left" bytes; at the very end it is given back.
Found(zeros, left) ==
    LET size == Least(zeros + 1, 4)
    IN IF left >= 1 THEN Code(NalType(stream[Len(stream) - left + 1]), size, left)
       ELSE Code(-1, 0, size)

\* The zeros at the end of the data from offset i on: the start of a start code, maybe.
Trailing(i) == LET n == Len(stream) - i
               IN CHOOSE k \in 0 .. n : /\ \A j \in Len(stream) - k + 1 .. Len(stream) : stream[j] = 0
                                        /\ k < n => stream[Len(stream) - k] # 0

Byte(i) == stream[i + 1]

\* From offset i on, the bytes up to the first but the one at i that is not zero.
Passed(i) == CHOOSE j \in 1 .. Len(stream) - i : /\ \A l \in 1 .. j - 1 : Byte(i + l) = 0
                                                 /\ i + j < Len(stream) => Byte(i + j) # 0

\* The zeros at the end of them.
Zeros(i) == IF Byte(i) = 0 THEN Passed(i) ELSE Passed(i) - 1

ReadStartCode ==
    LET size == Len(stream)
        \* the loop, with i bytes passed
        from[i \in 0 .. size] ==
            IF i >= size - 2 THEN Code(-1, 0, Least(Trailing(i), 3))
            ELSE IF Byte(i + 1) # 0 THEN from[i + 2]
            ELSE IF i + Passed(i) = size THEN Code(-1, 0, Least(Zeros(i), 3))
            ELSE IF Zeros(i) >= 2 /\ Byte(i + Passed(i)) = 1
                 THEN Found(Zeros(i), size - (i + Passed(i) + 1))
            ELSE from[i + Passed(i)]
    IN from[0]

Init == stream = <<>> /\ hevc \in BOOLEAN

\* One more byte of input.
Grow(byte) == /\ Len(stream) < MaxBytes
              /\ stream' = Append(stream, byte)
              /\ UNCHANGED hevc

Next == \E byte \in Bytes : Grow(byte)
Spec == Init /\ [][Next]_scanVars

-----------------------------------------------------------------------------

StartsAt(k) == stream[k] = 0 /\ stream[k + 1] = 0 /\ stream[k + 2] = 1
FirstStart == LET starts == { k \in 1 .. Len(stream) - 2 : StartsAt(k) }
              IN IF starts = {} THEN 0 ELSE CHOOSE k \in starts : \A l \in starts : k <= l

\* ReadStartCode finds the first 00 00 01 wherever it is, with the zero byte in front of
\* it if there is one, and without one it leaves at most three zeros that may begin the
\* next start code.
FindsFirstStartCode ==
    ReadStartCode = IF FirstStart = 0 THEN Code(-1, 0, Least(Trailing(0), 3))
                    ELSE Found(IF FirstStart > 1 /\ stream[FirstStart - 1] = 0 THEN 3 ELSE 2,
                               Len(stream) - (FirstStart + 2))
=============================================================================
