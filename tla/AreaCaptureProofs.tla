-------------------------- MODULE AreaCaptureProofs --------------------------
(***************************************************************************)
(* The reply is the mean of the pixels, for displays, strides and bytes of *)
(* any size. The library's induction cannot be used with these provers, so *)
(* a sum is reasoned about through a smallest counterexample.              *)
(***************************************************************************)
EXTENDS AreaCapture, FiniteSetTheorems, WellFoundedInduction, TLAPS

-----------------------------------------------------------------------------
(* Sums over a finite set                                                  *)

\* The element that a fold takes first.
Picked(S) == CHOOSE x \in S : TRUE

\* The recursive function inside SumFunctionOnSet: f[S] is the sum of fun over
\* the part S of D.
Sums(f, fun, D) ==
    f = [S \in SUBSET D |->
            IF S = {} THEN 0 ELSE fun[Picked(S)] + f[S \ {Picked(S)}]]

\* Some set of a family is smallest: no part of it is in the family.
LEMMA SmallestSubset ==
    ASSUME NEW D, IsFiniteSet(D), NEW B \in SUBSET SUBSET D, B # {}
    PROVE  \E S \in B : \A T \in SUBSET S : T # S => T \notin B
<1>. DEFINE Less == StrictSubsetOrdering(D)
<1>1. IsWellFoundedOn(Less, FiniteSubsetsOf(D))
  BY FS_StrictSubsetOrderingWellFounded
<1>2. B \subseteq FiniteSubsetsOf(D)
  BY FS_Subset DEF FiniteSubsetsOf
<1>. HIDE DEF Less
<1>3. PICK S \in B : \A T \in B : <<T, S>> \notin Less
  BY <1>1, <1>2, WFMin
<1>. QED  BY <1>3 DEF Less, StrictSubsetOrdering

\* It is one of the set's.
LEMMA PickedIn ==
    ASSUME NEW S, S # {}
    PROVE  Picked(S) \in S
  BY DEF Picked

\* A sum takes one element at a time.
LEMMA SumsEmpty ==
    ASSUME NEW fun, NEW D, NEW f, Sums(f, fun, D)
    PROVE  f[{}] = 0
  BY DEF Sums

LEMMA SumsPick ==
    ASSUME NEW fun, NEW D, NEW f, Sums(f, fun, D), NEW S, S \subseteq D, S # {}
    PROVE  f[S] = fun[Picked(S)] + f[S \ {Picked(S)}]
  BY DEF Sums

\* A part has the same sum within any two sets: a smallest part whose two sums
\* differ would have one element less than a part where they agree.
LEMMA SumsAgree ==
    ASSUME NEW fun, NEW D, IsFiniteSet(D), NEW E, IsFiniteSet(E),
           NEW f, Sums(f, fun, D), NEW g, Sums(g, fun, E),
           NEW S, S \subseteq D, S \subseteq E
    PROVE  f[S] = g[S]
<1>. DEFINE Differ == {T \in SUBSET S : f[T] # g[T]}
<1>. SUFFICES ASSUME Differ # {} PROVE FALSE
  OBVIOUS
<1>1. IsFiniteSet(S)
  BY FS_Subset
<1>. HIDE DEF Differ
<1>2. Differ \in SUBSET SUBSET S
  BY DEF Differ
<1>3. PICK T \in Differ : \A U \in SUBSET T : U # T => U \notin Differ
  BY <1>1, <1>2, SmallestSubset
<1>4. T \in SUBSET S /\ f[T] # g[T] /\ \A U \in SUBSET T : U # T => f[U] = g[U]
  BY <1>3 DEF Differ
<1>5. CASE T = {}
  BY <1>4, <1>5, SumsEmpty
<1>6. CASE T # {}
  <2>1. Picked(T) \in T
    BY <1>6, PickedIn
  <2>. DEFINE U == T \ {Picked(T)}
  <2>2. f[U] = g[U]
    BY <1>4, <2>1
  <2>3. T \subseteq D /\ T \subseteq E
    BY <1>4
  <2>4. f[T] = fun[Picked(T)] + f[U]
    BY <1>6, <2>3, SumsPick
  <2>5. g[T] = fun[Picked(T)] + g[U]
    BY <1>6, <2>3, SumsPick
  <2>. QED  BY <1>4, <2>2, <2>4, <2>5
<1>. QED  BY <1>5, <1>6

\* The recursion of the fold has a solution over every finite set, made from
\* the solutions over the smaller ones.
LEMMA SumsExist ==
    ASSUME NEW fun, NEW D, IsFiniteSet(D)
    PROVE  \E f : Sums(f, fun, D)
<1>. DEFINE Without == {S \in SUBSET D : ~ \E f : Sums(f, fun, S)}
<1>. SUFFICES ASSUME Without # {} PROVE FALSE
  OBVIOUS
<1>. HIDE DEF Without
<1>1. Without \in SUBSET SUBSET D
  BY DEF Without
<1>2. PICK S \in Without : \A T \in SUBSET S : T # S => T \notin Without
  BY <1>1, SmallestSubset
<1>3. /\ S \in SUBSET D
      /\ ~ \E f : Sums(f, fun, S)
      /\ \A T \in SUBSET S : T # S => \E f : Sums(f, fun, T)
  BY <1>2 DEF Without
<1>. DEFINE sum(T) == CHOOSE f : Sums(f, fun, T)
<1>4. \A T \in SUBSET S : T # S => Sums(sum(T), fun, T)
  BY <1>3
<1>. DEFINE step(T) == IF T = {} THEN 0
                       ELSE fun[Picked(T)] + sum(T \ {Picked(T)})[T \ {Picked(T)}]
            whole == [T \in SUBSET S |-> step(T)]
<1>. HIDE DEF sum
<1>5. ASSUME NEW T \in SUBSET S, T # S
      PROVE  step(T) = sum(T)[T]
  <2>1. CASE T = {}
    <3>1. Sums(sum(T), fun, T)
      BY <1>4, <1>5
    <3>2. sum(T)[T] = 0
      BY <2>1, <3>1, SumsEmpty
    <3>. QED  BY <2>1, <3>2
  <2>2. CASE T # {}
    <3>. DEFINE U == T \ {Picked(T)}
    <3>1. Picked(T) \in T
      BY <2>2, PickedIn
    <3>2. Sums(sum(T), fun, T) /\ Sums(sum(U), fun, U)
      <4>1. U \in SUBSET S /\ U # S
        BY <3>1
      <4>. QED  BY <1>4, <1>5, <4>1
    <3>3. IsFiniteSet(T) /\ IsFiniteSet(U)
      BY <1>3, FS_Subset
    <3>4. U \subseteq T /\ U \subseteq U
      OBVIOUS
    <3>. HIDE DEF U
    <3>5. sum(T)[U] = sum(U)[U]
      BY <3>2, <3>3, <3>4, SumsAgree
    <3>6. sum(T)[T] = fun[Picked(T)] + sum(T)[U]
      BY <2>2, <3>2, SumsPick DEF U
    <3>. QED  BY <2>2, <3>5, <3>6 DEF U
  <2>. QED  BY <2>1, <2>2
<1>6. ASSUME NEW T \in SUBSET S, T # {}
      PROVE  step(T) = fun[Picked(T)] + whole[T \ {Picked(T)}]
  <2>. DEFINE U == T \ {Picked(T)}
  <2>1. U \in SUBSET S /\ U # S
    BY <1>6, PickedIn
  <2>2. whole[U] = sum(U)[U]
    BY <2>1, <1>5
  <2>. QED  BY <1>6, <2>2
<1>7. Sums(whole, fun, S)
  <2>1. ASSUME NEW T \in SUBSET S
        PROVE  step(T) = IF T = {} THEN 0
                         ELSE fun[Picked(T)] + whole[T \ {Picked(T)}]
    BY <1>6
  <2>. HIDE DEF step
  <2>. QED  BY <2>1 DEF Sums
<1>. QED  BY <1>3, <1>7

\* So the community modules' sum obeys its recursion.
LEMMA SumIsAFold ==
    ASSUME NEW fun, NEW D, IsFiniteSet(D)
    PROVE  \E f : Sums(f, fun, D) /\ SumFunctionOnSet(fun, D) = f[D]
<1>. DEFINE F == CHOOSE f : Sums(f, fun, D)
<1>1. Sums(F, fun, D)
  BY SumsExist
<1>2. SumFunctionOnSet(fun, D) = F[D]
  BY DEF SumFunctionOnSet, FoldFunctionOnSet, MapThenFoldSet, Sums, Picked
<1>. QED  BY <1>1, <1>2

\* A sum of numbers up to m is at most m times as many.
LEMMA SumIsBounded ==
    ASSUME NEW m \in Nat, NEW D, IsFiniteSet(D), NEW fun \in [D -> 0 .. m]
    PROVE  /\ SumFunction(fun) \in Nat
           /\ SumFunction(fun) <= Cardinality(D) * m
<1>1. PICK f : Sums(f, fun, D) /\ SumFunctionOnSet(fun, D) = f[D]
  BY SumIsAFold
<1>2. \A S \in SUBSET D : S # {} => f[S] = fun[Picked(S)] + f[S \ {Picked(S)}]
  BY <1>1, SumsPick
<1>. DEFINE Bounded(S) == f[S] \in Nat /\ f[S] <= Cardinality(S) * m
            Wrong == {S \in SUBSET D : ~ Bounded(S)}
<1>3. SUFFICES ASSUME Wrong # {} PROVE FALSE
  BY <1>1 DEF SumFunction
<1>. HIDE DEF Wrong
<1>4. Wrong \in SUBSET SUBSET D
  BY DEF Wrong
<1>5. PICK S \in Wrong : \A T \in SUBSET S : T # S => T \notin Wrong
  BY <1>3, <1>4, SmallestSubset
<1>6. /\ S \in SUBSET D /\ ~ Bounded(S)
      /\ \A T \in SUBSET S : T # S => Bounded(T)
  BY <1>5 DEF Wrong
<1>7. CASE S = {}
  <2>1. f[S] = 0
    BY <1>1, <1>7, SumsEmpty
  <2>2. Cardinality(S) = 0
    BY <1>7, FS_EmptySet
  <2>. QED  BY <1>6, <2>1, <2>2
<1>8. CASE S # {}
  <2>. DEFINE T == S \ {Picked(S)}
  <2>1. Picked(S) \in S
    BY <1>8, PickedIn
  <2>2. Bounded(T)
    BY <1>6, <2>1
  <2>3. f[S] = fun[Picked(S)] + f[T]
    BY <1>6, <1>8, <1>2
  <2>4. fun[Picked(S)] \in 0 .. m
    BY <1>6, <2>1
  <2>5. /\ Cardinality(S) \in Nat /\ Cardinality(T) \in Nat
        /\ Cardinality(S) = Cardinality(T) + 1
    BY <1>6, <2>1, FS_Subset, FS_RemoveElement, FS_CardinalityType
  <2>6. Cardinality(S) * m = Cardinality(T) * m + m
    BY <2>5
  <2>. HIDE DEF T
  <2>7. f[S] \in Nat /\ f[S] <= Cardinality(S) * m
    BY <2>2, <2>3, <2>4, <2>5, <2>6
  <2>. QED  BY <1>6, <2>7
<1>. QED  BY <1>7, <1>8

-----------------------------------------------------------------------------
(* The layout of a buffer                                                  *)

\* Division undoes the address of a row and a column.
LEMMA DivMod ==
    ASSUME NEW d \in Nat \ {0}, NEW q \in Nat, NEW r \in 0 .. d - 1
    PROVE  (q * d + r) \div d = q /\ (q * d + r) % d = r
  OBVIOUS

\* getAreaBrightness finds at the address it computes the byte the allocator
\* stored there, whatever the stride.
LEMMA LaidOutAtOffset ==
    ASSUME NEW w \in Nat \ {0}, NEW h \in Nat \ {0}, NEW padding \in Nat,
           NEW img, NEW x \in 0 .. w - 1, NEW y \in 0 .. h - 1,
           NEW channel \in Channels, NEW b,
           b.stride = w + padding, b.out = LaidOut(img, w, h, w + padding)
    PROVE  b.out[Offset(b, x, y, channel)] = img[<<y, x>>][channel]
<1>. DEFINE stride == w + padding
            cell == y * stride + x
            a == cell * 4 + channel
<1>1. stride \in Nat \ {0} /\ x \in 0 .. stride - 1 /\ channel \in 0 .. 3
  BY DEF Channels
<1>2. cell \in Nat
  BY <1>1
<1>3. Offset(b, x, y, channel) = a
  <2>1. Offset(b, x, y, channel) = y * (stride * 4) + x * 4 + channel
    BY DEF Offset
  <2>2. y * (stride * 4) = (y * stride) * 4
    BY <1>1
  <2>3. y * stride \in Nat
    BY <1>1
  <2>. QED  BY <1>1, <2>1, <2>2, <2>3
<1>4. a \div 4 = cell /\ a % 4 = channel
  BY <1>1, <1>2, DivMod
<1>5. cell % stride = x
  <2>. HIDE DEF stride
  <2>. QED  BY <1>1, DivMod
<1>6. a \div (4 * stride) = y
  <2>. DEFINE r == x * 4 + channel
  <2>1. 4 * stride \in Nat \ {0} /\ r \in 0 .. 4 * stride - 1
    BY <1>1
  <2>2. a = y * (4 * stride) + r
    BY <1>1
  <2>. QED  BY <2>1, <2>2, DivMod
<1>7. a \in 0 .. stride * h * 4 - 1
  <2>1. y * stride + stride <= h * stride
    BY <1>1
  <2>2. y * stride \in Nat /\ h * stride \in Nat /\ h * stride = stride * h
    BY <1>1
  <2>. QED  BY <1>1, <2>1, <2>2
<1>. HIDE DEF a, cell, stride
<1>8. b.out = [k \in 0 .. stride * h * 4 - 1 |->
                 IF (k \div 4) % stride < w /\ k % 4 \in Channels
                 THEN img[<<k \div (4 * stride), (k \div 4) % stride>>][k % 4]
                 ELSE Max(Samples)]
  BY DEF LaidOut, stride
<1>9. b.out[a] = IF (a \div 4) % stride < w /\ a % 4 \in Channels
                 THEN img[<<a \div (4 * stride), (a \div 4) % stride>>][a % 4]
                 ELSE Max(Samples)
  BY <1>7, <1>8
<1>10. x < w
  OBVIOUS
<1>. QED  BY <1>3, <1>4, <1>5, <1>6, <1>9, <1>10

-----------------------------------------------------------------------------
(* The reply                                                               *)

\* What is shown, and how the allocator stored it, once it is captured.
CapturedInv ==
    pc = "captured" =>
        \E w \in Widths, h \in Heights, padding \in Paddings :
            /\ image \in [Pixels(w, h) -> [Channels -> Samples]]
            /\ buffer = [width |-> w, height |-> h, stride |-> w + padding,
                         out |-> LaidOut(image, w, h, w + padding)]

AreaInv == CapturedInv /\ ReportsTheMean

\* The largest byte bounds every byte.
LEMMA LargestSample ==
    /\ Max(Samples) \in Nat
    /\ \A s \in Samples : s \in 0 .. Max(Samples)
<1>1. Max(Samples) \in Samples /\ \A s \in Samples : Max(Samples) >= s
  BY AreaAssumption DEF Max
<1>2. Samples \subseteq Nat
  BY AreaAssumption
<1>. DEFINE m == Max(Samples)
<1>3. m \in Nat /\ \A s \in Samples : s \in Nat /\ m >= s
  BY <1>1, <1>2
<1>. HIDE DEF m
<1>4. \A s \in Samples : s \in 0 .. m
  BY <1>3
<1>. QED  BY <1>3, <1>4 DEF m

\* An area has as many pixels as its sides say.
LEMMA PixelsCount ==
    ASSUME NEW w \in Nat \ {0}, NEW h \in Nat \ {0}
    PROVE  /\ IsFiniteSet(Pixels(w, h))
           /\ Cardinality(Pixels(w, h)) = w * h
<1>1. /\ IsFiniteSet(0 .. w - 1) /\ Cardinality(0 .. w - 1) = w
      /\ IsFiniteSet(0 .. h - 1) /\ Cardinality(0 .. h - 1) = h
  BY FS_Interval
<1>2. /\ IsFiniteSet(Pixels(w, h))
      /\ Cardinality(Pixels(w, h)) = h * w
  BY <1>1, FS_Product DEF Pixels
<1>. QED  BY <1>2

\* No sum of getAreaBrightness wraps around.
LEMMA SumFits ==
    ASSUME NEW w \in Widths, NEW h \in Heights,
           NEW bytes \in [Pixels(w, h) -> Samples]
    PROVE  SumFunction(bytes) % SumModulus = SumFunction(bytes)
<1>1. w \in Nat \ {0} /\ h \in Nat \ {0}
  BY AreaAssumption
<1>. DEFINE m == Max(Samples)
<1>2. m \in Nat /\ bytes \in [Pixels(w, h) -> 0 .. m]
  BY LargestSample
<1>. HIDE DEF m
<1>3. SumFunction(bytes) \in Nat /\ SumFunction(bytes) <= w * h * m
  BY <1>1, <1>2, PixelsCount, SumIsBounded
<1>4. w * h * m < SumModulus /\ SumModulus \in Nat
  BY AreaAssumption DEF m
<1>. QED  BY <1>1, <1>2, <1>3, <1>4

\* What getAreaBrightness sums are the pixels shown.
LEMMA SumUpStep ==
    ASSUME CapturedInv, SumUp
    PROVE  ReportsTheMean'
<1>. SUFFICES ASSUME NEW channel \in Channels
              PROVE  result'[channel] =
                       <<SumFunction([p \in DOMAIN image |-> image[p][channel]]),
                         Cardinality(DOMAIN image)>>
  BY DEF SumUp, ReportsTheMean
<1>1. PICK w \in Widths, h \in Heights, padding \in Paddings :
        /\ image \in [Pixels(w, h) -> [Channels -> Samples]]
        /\ buffer = [width |-> w, height |-> h, stride |-> w + padding,
                     out |-> LaidOut(image, w, h, w + padding)]
  BY DEF SumUp, CapturedInv
<1>2. w \in Nat \ {0} /\ h \in Nat \ {0} /\ padding \in Nat
  BY AreaAssumption
<1>. DEFINE read == [p \in Pixels(w, h) |-> buffer.out[Offset(buffer, p[2], p[1], channel)]]
            shown == [p \in Pixels(w, h) |-> image[p][channel]]
<1>3. read = shown
  <2>1. ASSUME NEW p \in Pixels(w, h)
        PROVE  buffer.out[Offset(buffer, p[2], p[1], channel)] = image[p][channel]
    <3>1. p[1] \in 0 .. h - 1 /\ p[2] \in 0 .. w - 1 /\ p = <<p[1], p[2]>>
      BY DEF Pixels
    <3>2. buffer.stride = w + padding /\ buffer.out = LaidOut(image, w, h, w + padding)
      BY <1>1
    <3>3. buffer.out[Offset(buffer, p[2], p[1], channel)] = image[<<p[1], p[2]>>][channel]
      BY <1>2, <3>1, <3>2, LaidOutAtOffset
    <3>. QED  BY <3>1, <3>3
  <2>. QED  BY <2>1
<1>4. shown \in [Pixels(w, h) -> Samples]
  BY <1>1
<1>5. DOMAIN image = Pixels(w, h) /\ Cardinality(DOMAIN image) = w * h
  BY <1>1, <1>2, PixelsCount
<1>6. result'[channel] = <<SumFunction(read) % SumModulus, w * h>>
  BY <1>1 DEF SumUp, Sum
<1>. HIDE DEF read
<1>7. result'[channel] = <<SumFunction(shown), w * h>>
  BY <1>3, <1>4, <1>6, SumFits
<1>. QED  BY <1>5, <1>7

\* The reply to a caller is the mean of exactly the pixels shown in the area,
\* for every area, stride, byte and sum that fits its integer
\* (AreaCapture.cpp:80-97).
THEOREM ReplyIsTheMean == Spec => []ReportsTheMean
<1>1. Init => AreaInv
  BY DEF Init, AreaInv, CapturedInv, ReportsTheMean
<1>2. AreaInv /\ [Next]_vars => AreaInv'
  <2>. SUFFICES ASSUME AreaInv, [Next]_vars PROVE AreaInv'
    OBVIOUS
  <2>1. ASSUME NEW w \in Widths, NEW h \in Heights, NEW padding \in Paddings,
               CaptureDisplay(w, h, padding)
        PROVE  AreaInv'
    BY <2>1 DEF CaptureDisplay, AreaInv, CapturedInv, ReportsTheMean
  <2>2. CASE CaptureFails
    BY <2>2 DEF CaptureFails, AreaInv, CapturedInv, ReportsTheMean
  <2>3. CASE SumUp
    <3>1. CapturedInv'
      BY <2>3 DEF SumUp, CapturedInv
    <3>2. ReportsTheMean'
      BY <2>3, SumUpStep DEF AreaInv
    <3>. QED  BY <3>1, <3>2 DEF AreaInv
  <2>4. CASE Return
    BY <2>4 DEF Return, AreaInv, CapturedInv, ReportsTheMean
  <2>5. CASE UNCHANGED vars
    BY <2>5 DEF vars, AreaInv, CapturedInv, ReportsTheMean
  <2>. QED  BY <2>1, <2>2, <2>3, <2>4, <2>5 DEF Next
<1>3. AreaInv => ReportsTheMean
  BY DEF AreaInv
<1>. QED  BY <1>1, <1>2, <1>3, PTL DEF Spec

-----------------------------------------------------------------------------
(* The numbers of the code                                                 *)

\* The rectangle of the code, its bytes and its uint32_t meet AreaAssumption:
\* no sum of getAreaBrightness wraps around (AreaCapture.cpp:32-35, 85).
LEMMA RectangleFits ==
    LET width == 707 - 677
        height == 49 - 19
        bytes == 0 .. 255
        range == 65536 * 65536
    IN  /\ \E s \in bytes : \A t \in bytes : s >= t
        /\ width * height * Max(bytes) < range
<1>1. \A t \in 0 .. 255 : 255 >= t
  OBVIOUS
<1>2. Max(0 .. 255) = 255
  <2>1. Max(0 .. 255) \in 0 .. 255 /\ \A t \in 0 .. 255 : Max(0 .. 255) >= t
    BY <1>1 DEF Max
  <2>. QED  BY <2>1
<1>. QED  BY <1>1, <1>2

=============================================================================
