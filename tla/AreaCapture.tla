----------------------------- MODULE AreaCapture -----------------------------
(***************************************************************************)
(* getAreaBrightness: a screenshot of a fixed area of the display, and the *)
(* mean of its red, green and blue over the pixels. A float quotient is    *)
(* kept as the pair of its terms; a byte is a member of Samples and a sum  *)
(* is taken modulo SumModulus, the range of uint32_t in the code.          *)
(***************************************************************************)
EXTENDS Naturals, FiniteSets, FiniteSetsExt, Functions

CONSTANTS
    Widths, Heights,    \* sizes a capture may return
    Paddings,           \* pixels between the end of a row and the next row
    Samples,            \* values of a byte
    SumModulus

ASSUME AreaAssumption ==
    /\ Widths \subseteq Nat \ {0} /\ Heights \subseteq Nat \ {0}
    /\ Paddings \subseteq Nat /\ Samples \subseteq Nat /\ SumModulus \in Nat
    /\ \E s \in Samples : \A t \in Samples : s >= t
    /\ \A w \in Widths, h \in Heights : w * h * Max(Samples) < SumModulus

VARIABLES
    pc,         \* "idle", "captured", "replied", "failed"
    image,      \* what the display shows in the area, by row and column
    buffer,     \* [width, height, stride, out]: the locked screenshot
    result      \* the quotients r, g, b

vars == <<pc, image, buffer, result>>

Channels == 0..2    \* r, g, b; byte 3 of a pixel is its alpha
NoBuffer == [width |-> 0, height |-> 0, stride |-> 0, out |-> << >>]

Init ==
    /\ pc = "idle"
    /\ image = << >>
    /\ buffer = NoBuffer
    /\ result = << >>

\* The pixels of an area, each by its row and its column.
Pixels(w, h) == (0 .. h - 1) \X (0 .. w - 1)

\* Seeded fault: rows taken to follow each other without padding.
OffsetUnpadded(b, x, y, channel) == y * (b.width * 4) + x * 4 + channel

\* The address of a byte; the stride is in pixels of four bytes.
Offset(b, x, y, channel) == y * (b.stride * 4) + x * 4 + channel

\* A buffer as the allocator lays it out: rows of stride pixels. Alpha and
\* padding may hold anything; here they hold the largest byte.
LaidOut(img, w, h, stride) ==
    [a \in 0 .. stride * h * 4 - 1 |->
        LET x == (a \div 4) % stride  y == a \div (4 * stride)
        IN  IF x < w /\ a % 4 \in Channels THEN img[<<y, x>>][a % 4] ELSE Max(Samples)]

CaptureDisplay(w, h, padding) ==
    /\ pc = "idle"
    /\ image' \in [Pixels(w, h) -> [Channels -> Samples]]
    /\ buffer' = [width |-> w, height |-> h, stride |-> w + padding,
                  out |-> LaidOut(image', w, h, w + padding)]
    /\ pc' = "captured"
    /\ UNCHANGED result

\* The capture or its fence fails: service specific error -1.
CaptureFails ==
    /\ pc = "idle"
    /\ pc' = "failed"
    /\ UNCHANGED <<image, buffer, result>>

Sum(b, channel) ==
    SumFunction([p \in Pixels(b.width, b.height) |->
                    b.out[Offset(b, p[2], p[1], channel)]]) % SumModulus

SumUp ==
    /\ pc = "captured"
    /\ result' = [channel \in Channels |->
                    <<Sum(buffer, channel), buffer.width * buffer.height>>]
    /\ buffer' = NoBuffer
    /\ pc' = "replied"
    /\ UNCHANGED image

Return ==
    /\ pc \in {"replied", "failed"}
    /\ pc' = "idle" /\ image' = << >> /\ result' = << >>
    /\ UNCHANGED buffer

Next ==
    \/ \E w \in Widths, h \in Heights, padding \in Paddings :
         CaptureDisplay(w, h, padding)
    \/ CaptureFails \/ SumUp \/ Return

Spec == Init /\ [][Next]_vars

\* The reply to a caller is, for each colour, the mean of that colour over
\* exactly the pixels shown in the area, whatever the buffer's stride and
\* whatever its alpha and padding hold, and no sum wraps around
\* (AreaCapture.cpp:80-97).
ReportsTheMean ==
    pc = "replied" =>
        \A channel \in Channels :
            result[channel] =
                <<SumFunction([p \in DOMAIN image |-> image[p][channel]]),
                  Cardinality(DOMAIN image)>>

=============================================================================
