------------------------ MODULE ReferenceAnalysisProofs ------------------------
(***************************************************************************)
(* Proof that what custom_colors/analysis.py makes of a reference image can  *)
(* be used: for every picture, whatever is measured of its parts, all areas   *)
(* located in it and both structures, a profile it returns is read back, and   *)
(* what is cut out of the picture for a color of the palette is a part of it   *)
(* that passed the tests.                                                    *)
(*                                                                         *)
(* The argument goes from the pixels up.  Arithmetic bounds what two roundings *)
(* do to a tile; a fold over a sequence is led through its indices one by one; *)
(* so a ranking is shown to move elements and lose none, whatever their keys,  *)
(* and a clustering, whatever its distance, to put every tile in a cluster     *)
(* that is not empty.  The sample of a cluster is therefore one of the tiles.  *)
(***************************************************************************)
EXTENDS ReferenceAnalysis, WellFoundedInduction, TLAPS

-----------------------------------------------------------------------------
(* The arithmetic of boxes and crops.                                        *)

(* The larger and the smaller of two numbers.                                *)
LEMMA MaxOfTwo ==
    ASSUME NEW a \in Int, NEW b \in Int
    PROVE  /\ Max({a, b}) \in {a, b}
           /\ Max({a, b}) >= a /\ Max({a, b}) >= b
  <1>1. \E x \in {a, b} : \A y \in {a, b} : x >= y
    <2>1. CASE a >= b BY <2>1
    <2>2. CASE b >= a BY <2>2
    <2> QED BY <2>1, <2>2
  <1>2. /\ Max({a, b}) \in {a, b}
        /\ \A y \in {a, b} : Max({a, b}) >= y
    BY <1>1, Zenon DEF Max
  <1> QED BY <1>2

(* The smaller of two numbers.                                               *)
LEMMA MinOfTwo ==
    ASSUME NEW a \in Int, NEW b \in Int
    PROVE  /\ Min({a, b}) \in {a, b}
           /\ Min({a, b}) <= a /\ Min({a, b}) <= b
  <1>1. \E x \in {a, b} : \A y \in {a, b} : x <= y
    <2>1. CASE a >= b BY <2>1
    <2>2. CASE b >= a BY <2>2
    <2> QED BY <2>1, <2>2
  <1>2. /\ Min({a, b}) \in {a, b}
        /\ \A y \in {a, b} : Min({a, b}) <= y
    BY <1>1, Zenon DEF Min
  <1> QED BY <1>2

(* max(low, min(high, n)), without sets.                                     *)
LEMMA ClampedIs ==
    ASSUME NEW low \in Int, NEW high \in Int, low <= high, NEW n \in Int
    PROVE  Clamped(low, high, n) = IF n < low THEN low ELSE IF n > high THEN high ELSE n
  <1>1. /\ Min({high, n}) \in {high, n} /\ Min({high, n}) <= high /\ Min({high, n}) <= n
    BY MinOfTwo
  <1>2. Min({high, n}) \in Int BY <1>1
  <1>3. LET m == Min({high, n}) IN
           Max({low, m}) \in {low, m} /\ Max({low, m}) >= low /\ Max({low, m}) >= m
    BY <1>2, MaxOfTwo
  <1> QED BY <1>1, <1>2, <1>3 DEF Clamped

(* It is between the bounds.                                                 *)
LEMMA ClampedIn ==
    ASSUME NEW low \in Int, NEW high \in Int, low <= high, NEW n \in Int
    PROVE  /\ Clamped(low, high, n) \in Int
           /\ low <= Clamped(low, high, n) /\ Clamped(low, high, n) <= high
  <1>1. CASE n < low BY <1>1, ClampedIs
  <1>2. CASE n > high BY <1>2, ClampedIs
  <1>3. CASE n >= low /\ n <= high BY <1>3, ClampedIs
  <1> QED BY <1>1, <1>2, <1>3

(* Quotient and remainder.                                                   *)
LEMMA Division ==
    ASSUME NEW n \in Int, NEW d \in Nat \ {0}
    PROVE  /\ n \div d \in Int
           /\ n % d \in 0..(d - 1)
           /\ n = d * (n \div d) + (n % d)
  <1>1. n \div d \in Int OBVIOUS
  <1>2. n % d >= 0 OBVIOUS
  <1>3. n % d < d OBVIOUS
  <1>4. n = d * (n \div d) + (n % d) BY Z3
  <1>5. n % d \in Int OBVIOUS
  <1> QED BY <1>1, <1>2, <1>3, <1>4, <1>5

(* round: no further from the quotient than a half, and even on a tie.       *)
LEMMA RoundedIs ==
    ASSUME NEW n \in Int, NEW d \in Nat \ {0}
    PROVE  /\ Rounded(n, d) \in Int
           /\ 2 * (d * Rounded(n, d)) <= 2 * n + d
           /\ 2 * n - d <= 2 * (d * Rounded(n, d))
           /\ 2 * (d * Rounded(n, d)) = 2 * n + d => Rounded(n, d) % 2 = 0
  <1> DEFINE q == n \div d
             r == n % d
  <1>1. q \in Int /\ r \in 0..(d - 1) /\ n = d * q + r
    BY Division
  <1>2. Rounded(n, d) = IF 2 * r < d \/ (2 * r = d /\ q % 2 = 0) THEN q ELSE q + 1
    BY DEF Rounded
  <1> HIDE DEF q, r
  <1>3. d * (q + 1) = d * q + d /\ d * q \in Int BY <1>1
  <1>4. CASE 2 * r < d \/ (2 * r = d /\ q % 2 = 0)
    <2>1. Rounded(n, d) = q BY <1>2, <1>4
    <2> QED BY <1>1, <1>3, <1>4, <2>1
  <1>5. CASE ~(2 * r < d \/ (2 * r = d /\ q % 2 = 0))
    <2>1. Rounded(n, d) = q + 1 BY <1>2, <1>5
    <2>2. 2 * r = d => q % 2 = 1 BY <1>1, <1>5
    <2>3. q % 2 = 1 => (q + 1) % 2 = 0 BY <1>1
    <2> QED BY <1>1, <1>3, <1>5, <2>1, <2>2, <2>3
  <1> QED BY <1>4, <1>5

-----------------------------------------------------------------------------
(* Boxes in thousandths.                                                     *)

(* A factor on both sides.                                                   *)
LEMMA Cancel ==
    ASSUME NEW n \in Nat \ {0}, NEW a \in Int, NEW b \in Int, n * a <= n * b
    PROVE  a <= b
  <1> SUFFICES ASSUME a >= b + 1 PROVE FALSE
    OBVIOUS
  <1>1. a - b - 1 \in Nat OBVIOUS
  <1>2. n * (a - b - 1) \in Nat BY <1>1
  <1>3. n * (a - b - 1) = n * a - n * b - n OBVIOUS
  <1> QED BY <1>2, <1>3

(* _normalize_box on one axis.                                               *)
StartOf(low, size) == Clamped(0, 999, Rounded(low * 1000, size))
ExtentOf(length, size) == Clamped(1, 1000, Rounded(length * 1000, size))

(* What from_dict wants of it.                                               *)
AxisValid(low, length, size) ==
    /\ StartOf(low, size) \in 0..999
    /\ ExtentOf(length, size) \in 1..1000
    /\ StartOf(low, size) + ExtentOf(length, size) <= 1000

(* One axis of _normalize_box: the position and the length of a box that lies  *)
(* in the picture add up to a thousand at most.  Both may be rounded up, by a  *)
(* half each, and then both are even.                                        *)
LEMMA AxisIsValid ==
    ASSUME NEW size \in Nat \ {0}, NEW low \in Int, NEW length \in Int,
           0 <= low, 0 < length, low + length <= size
    PROVE  AxisValid(low, length, size)
  <1> DEFINE p == Rounded(low * 1000, size)
             q == Rounded(length * 1000, size)
  <1>1. /\ p \in Int
        /\ 2 * (size * p) <= 2 * (low * 1000) + size
        /\ 2 * (low * 1000) - size <= 2 * (size * p)
        /\ 2 * (size * p) = 2 * (low * 1000) + size => p % 2 = 0
    <2>1. low * 1000 \in Int OBVIOUS
    <2> QED BY <2>1, RoundedIs
  <1>2. /\ q \in Int
        /\ 2 * (size * q) <= 2 * (length * 1000) + size
        /\ 2 * (size * q) = 2 * (length * 1000) + size => q % 2 = 0
    <2>1. length * 1000 \in Int OBVIOUS
    <2> QED BY <2>1, RoundedIs
  <1> HIDE DEF p, q
  <1>3. /\ Clamped(0, 999, p) = IF p < 0 THEN 0 ELSE IF p > 999 THEN 999 ELSE p
        /\ Clamped(1, 1000, q) = IF q < 1 THEN 1 ELSE IF q > 1000 THEN 1000 ELSE q
    BY <1>1, <1>2, ClampedIs
  <1>4. size * p \in Int /\ size * q \in Int
    BY <1>1, <1>2
  <1>5. Clamped(0, 999, p) + Clamped(1, 1000, q) <= 1000
    <2>1. CASE p > 999
      <3>1. size * 1000 <= size * p
        <4>1. p - 1000 \in Nat BY <1>1, <2>1
        <4>2. size * (p - 1000) \in Nat BY <4>1
        <4>3. size * (p - 1000) = size * p - size * 1000 BY <1>1
        <4> QED BY <1>4, <4>2, <4>3
      <3>2. size * q <= size * 1
        BY <1>1, <1>2, <1>4, <3>1
      <3>3. q <= 1
        BY <1>2, <3>2, Cancel
      <3> QED BY <1>1, <1>2, <1>3, <2>1, <3>3
    <2>2. CASE p <= 999 /\ q < 1
      BY <1>1, <1>2, <1>3, <2>2
    <2>3. CASE p <= 999 /\ q >= 1
      <3>1. size * (p + q) = size * p + size * q
        BY <1>1, <1>2
      <3>2. 2 * (size * p) + 2 * (size * q) <= 2002 * size
        BY <1>1, <1>2, <1>4
      <3>3. p + q <= 1001
        BY <1>1, <1>2, <1>4, <3>1, <3>2, Cancel
      <3>4. p + q # 1001
        <4> SUFFICES ASSUME p + q = 1001 PROVE FALSE
          OBVIOUS
        <4>1. size * p + size * q = 1001 * size
          BY <3>1
        <4>2. p % 2 = 0 /\ q % 2 = 0
          BY <1>1, <1>2, <1>4, <4>1
        <4> QED BY <1>1, <1>2, <4>2
      <3>5. p >= 0
        <4>1. size * (0 - 1) <= size * p /\ size * p # size * (0 - 1)
          BY <1>1, <1>4
        <4>2. 0 - 1 <= p
          BY <1>1, <4>1, Cancel
        <4> QED BY <1>1, <4>1, <4>2
      <3> QED BY <1>1, <1>2, <1>3, <2>3, <3>3, <3>4, <3>5
    <2> QED BY <1>1, <1>2, <2>1, <2>2, <2>3
  <1>6. Clamped(0, 999, p) \in 0..999
    <2>1. Clamped(0, 999, p) \in Int BY <1>1, ClampedIn
    <2>2. 0 <= Clamped(0, 999, p) BY <1>1, ClampedIn
    <2>3. Clamped(0, 999, p) <= 999 BY <1>1, ClampedIn
    <2> QED BY <2>1, <2>2, <2>3
  <1>7. Clamped(1, 1000, q) \in 1..1000
    <2>1. Clamped(1, 1000, q) \in Int BY <1>2, ClampedIn
    <2>2. 1 <= Clamped(1, 1000, q) BY <1>2, ClampedIn
    <2>3. Clamped(1, 1000, q) <= 1000 BY <1>2, ClampedIn
    <2> QED BY <2>1, <2>2, <2>3
  <1>8. StartOf(low, size) = Clamped(0, 999, p) /\ ExtentOf(length, size) = Clamped(1, 1000, q)
    BY DEF StartOf, ExtentOf, p, q
  <1>9. StartOf(low, size) \in 0..999 /\ ExtentOf(length, size) \in 1..1000
    BY <1>6, <1>7, <1>8
  <1>10. StartOf(low, size) + ExtentOf(length, size) <= 1000
    BY <1>5, <1>8
  <1> QED BY <1>9, <1>10 DEF AxisValid

(* A box lies in a picture, and has an area.                                 *)
Inside(box, width, height) ==
    /\ {box.left, box.top, box.right, box.bottom} \subseteq Int
    /\ 0 <= box.left /\ box.left < box.right /\ box.right <= width
    /\ 0 <= box.top /\ box.top < box.bottom /\ box.bottom <= height

(* _normalize_box makes of any box in a picture one that                      *)
(* _normalized_box_valid accepts, so that a stored profile is read back: no    *)
(* rounding of its position and its length takes them past a thousand.        *)
THEOREM NormalizedIsValid ==
    ASSUME NEW width \in Nat \ {0}, NEW height \in Nat \ {0}, NEW box,
           Inside(box, width, height)
    PROVE  BoxValid(Normalized(box, width, height))
  <1> DEFINE new == Normalized(box, width, height)
  <1>1. /\ box.left \in Int /\ box.right \in Int /\ box.top \in Int /\ box.bottom \in Int
        /\ 0 <= box.left /\ box.left < box.right /\ box.right <= width
        /\ 0 <= box.top /\ box.top < box.bottom /\ box.bottom <= height
    BY DEF Inside
  <1>2. AxisValid(box.left, box.right - box.left, width)
    <2> DEFINE length == box.right - box.left
    <2>1. box.left \in Int /\ length \in Int /\ 0 <= box.left /\ 0 < length
          /\ box.left + length <= width
      BY <1>1
    <2> HIDE DEF length
    <2>2. AxisValid(box.left, length, width)
      BY <2>1, AxisIsValid
    <2> QED BY <2>2 DEF length
  <1>3. AxisValid(box.top, box.bottom - box.top, height)
    <2> DEFINE length == box.bottom - box.top
    <2>1. box.top \in Int /\ length \in Int /\ 0 <= box.top /\ 0 < length
          /\ box.top + length <= height
      BY <1>1
    <2> HIDE DEF length
    <2>2. AxisValid(box.top, length, height)
      BY <2>1, AxisIsValid
    <2> QED BY <2>2 DEF length
  <1>4. /\ new.x = StartOf(box.left, width) /\ new.width = ExtentOf(box.right - box.left, width)
        /\ new.y = StartOf(box.top, height) /\ new.height = ExtentOf(box.bottom - box.top, height)
    BY DEF Normalized, StartOf, ExtentOf
  <1> HIDE DEF new
  <1>5. BoxValid(new)
    BY <1>2, <1>3, <1>4 DEF BoxValid, AxisValid
  <1> QED BY <1>5 DEF new

-----------------------------------------------------------------------------
(* The working copy.                                                         *)

(* Neither side is enlarged, or smaller than a pixel, or above 512.          *)
LEMMA WorkingIs ==
    ASSUME NEW picture, picture.width \in Nat \ {0}, picture.height \in Nat \ {0}
    PROVE  /\ Working(picture).width \in 1..512 /\ Working(picture).width <= picture.width
           /\ Working(picture).height \in 1..512 /\ Working(picture).height <= picture.height
  <1> DEFINE longest == Max({picture.width, picture.height})
             Side(n) == IF longest <= 512 THEN n ELSE Max({1, Rounded(n * 512, longest)})
  <1>1. /\ longest \in Nat \ {0}
        /\ longest >= picture.width /\ longest >= picture.height
    <2>1. picture.width \in Int /\ picture.height \in Int
      OBVIOUS
    <2>2. /\ longest \in {picture.width, picture.height}
          /\ longest >= picture.width /\ longest >= picture.height
      BY <2>1, MaxOfTwo, Zenon
    <2> HIDE DEF longest
    <2> QED BY <2>2
  <1> HIDE DEF longest
  <1>2. ASSUME NEW n \in Nat \ {0}, n <= longest
        PROVE  Side(n) \in 1..512 /\ Side(n) <= n
    <2>1. CASE longest <= 512
      BY <1>1, <1>2, <2>1
    <2>2. CASE longest > 512
      <3> DEFINE r == Rounded(n * 512, longest)
      <3>1. r \in Int /\ 2 * (longest * r) <= 2 * (n * 512) + longest
        <4>1. n * 512 \in Int /\ longest \in Nat \ {0} BY <1>1
        <4> DEFINE m == n * 512
        <4>2. m \in Int BY <4>1
        <4> HIDE DEF Side, m
        <4>3. Rounded(m, longest) \in Int /\ 2 * (longest * Rounded(m, longest)) <= 2 * m + longest
          BY <4>1, <4>2, RoundedIs
        <4> QED BY <4>3 DEF m
      <3> HIDE DEF r
      <3>2. longest * r \in Int BY <1>1, <3>1
      <3>3. r <= 512
        <4>1. ~(r >= 513)
          <5> SUFFICES ASSUME r >= 513 PROVE FALSE
            OBVIOUS
          <5>1. longest * (r - 513) >= 0 BY <1>1, <3>1
          <5>2. longest * (r - 513) = longest * r - longest * 513 BY <1>1, <3>1
          <5> QED BY <1>1, <1>2, <3>1, <3>2, <5>1, <5>2
        <4> QED BY <3>1, <4>1
      <3>4. r <= n
        <4>1. ~(r >= n + 1)
          <5> SUFFICES ASSUME r >= n + 1 PROVE FALSE
            OBVIOUS
          <5>1. longest * (r - n - 1) >= 0 BY <1>1, <3>1
          <5>2. longest * (r - n - 1) = longest * r - longest * n - longest BY <1>1, <3>1
          <5>3. (longest - 512) * n >= 0 BY <1>1, <2>2
          <5>4. (longest - 512) * n = longest * n - 512 * n BY <1>1
          <5>5. longest * n \in Int BY <1>1
          <5> QED BY <1>1, <2>2, <3>1, <3>2, <5>1, <5>2, <5>3, <5>4, <5>5
        <4> QED BY <3>1, <4>1
      <3>5. Max({1, r}) \in {1, r} /\ Max({1, r}) >= 1 /\ Max({1, r}) >= r
        <4>1. 1 \in Int OBVIOUS
        <4> QED BY <3>1, <4>1, MaxOfTwo, Zenon
      <3>6. Side(n) = Max({1, r})
        BY <2>2, <1>1 DEF r
      <3> QED BY <3>1, <3>3, <3>4, <3>5, <3>6
    <2> QED BY <1>1, <2>1, <2>2
  <1>3. Working(picture).width = Side(picture.width) /\ Working(picture).height = Side(picture.height)
    BY DEF Working, longest
  <1> HIDE DEF Side
  <1> QED BY <1>1, <1>2, <1>3

-----------------------------------------------------------------------------
(* The areas and their tiles.                                                *)

(* Thousandths, and tenths, of a side end within the side.                   *)
LEMMA RoundedWithin ==
    ASSUME NEW n \in Nat, NEW whole \in Nat \ {0}, NEW size \in Nat, n <= whole * size
    PROVE  Rounded(n, whole) \in Nat /\ Rounded(n, whole) <= size
  <1> DEFINE r == Rounded(n, whole)
  <1>1. r \in Int /\ 2 * (whole * r) <= 2 * n + whole /\ 2 * n - whole <= 2 * (whole * r)
    BY RoundedIs
  <1> HIDE DEF r
  <1>2. ~(r >= size + 1)
    <2> SUFFICES ASSUME r >= size + 1 PROVE FALSE
      OBVIOUS
    <2>1. whole * (r - size - 1) >= 0 BY <1>1
    <2>2. whole * (r - size - 1) = whole * r - whole * size - whole BY <1>1
    <2>3. whole * r \in Int /\ whole * size \in Int BY <1>1
    <2> QED BY <1>1, <2>1, <2>2, <2>3
  <1>3. ~(r <= -1)
    <2> SUFFICES ASSUME r <= -1 PROVE FALSE
      OBVIOUS
    <2>1. whole * (-1 - r) >= 0 BY <1>1
    <2>2. whole * (-1 - r) = 0 - whole - whole * r BY <1>1
    <2>3. whole * r \in Int BY <1>1
    <2> QED BY <1>1, <2>1, <2>2, <2>3
  <1> QED BY <1>1, <1>2, <1>3 DEF r

(* An area begins in the picture, and ends there unless it is one pixel.      *)
AreaIn(area, width, height) ==
    /\ {area.left, area.top, area.right, area.bottom} \subseteq Int
    /\ 0 <= area.left /\ (area.right <= width \/ area.right <= area.left + 1)
    /\ 0 <= area.top /\ (area.bottom <= height \/ area.bottom <= area.top + 1)

(* An area the provider may locate, in numbers.                              *)
LEMMA RegionIs ==
    ASSUME NEW region, BoxValid(region)
    PROVE  /\ region.x \in Nat /\ region.width \in Nat /\ region.x + region.width <= 1000
           /\ region.y \in Nat /\ region.height \in Nat /\ region.y + region.height <= 1000
  <1>1. region.x \in Nat
    <2>1. region.x \in 0..999 BY DEF BoxValid
    <2> QED BY <2>1
  <1>2. region.y \in Nat
    <2>1. region.y \in 0..999 BY DEF BoxValid
    <2> QED BY <2>1
  <1>3. region.width \in Nat
    <2>1. region.width \in 1..1000 BY DEF BoxValid
    <2> QED BY <2>1
  <1>4. region.height \in Nat
    <2>1. region.height \in 1..1000 BY DEF BoxValid
    <2> QED BY <2>1
  <1>5. region.x + region.width <= 1000 /\ region.y + region.height <= 1000 BY DEF BoxValid
  <1> QED BY <1>1, <1>2, <1>3, <1>4, <1>5

(* _scale_region on one axis.                                                *)
LowOf(start, size) == Rounded(start * size, 1000)
HighOf(start, extent, size) == Max({LowOf(start, size) + 1, Rounded((start + extent) * size, 1000)})

(* Scaled, it is not empty, and beyond the picture by one pixel at most.     *)
LEMMA ScaledAxis ==
    ASSUME NEW start \in Nat, NEW extent \in Nat, start + extent <= 1000, NEW size \in Nat
    PROVE  /\ LowOf(start, size) \in Nat /\ HighOf(start, extent, size) \in Nat
           /\ LowOf(start, size) < HighOf(start, extent, size)
           /\ \/ HighOf(start, extent, size) <= size
              \/ HighOf(start, extent, size) = LowOf(start, size) + 1
           /\ LowOf(start, size) <= size
  <1> DEFINE a == start * size
             c == (start + extent) * size
  <1>1. a \in Nat /\ a <= 1000 * size /\ c \in Nat /\ c <= 1000 * size
    <2>1. ASSUME NEW part \in Nat, part <= 1000
          PROVE  part * size \in Nat /\ part * size <= 1000 * size
      <3>1. (1000 - part) * size >= 0 BY <2>1
      <3>2. (1000 - part) * size = 1000 * size - part * size OBVIOUS
      <3>3. part * size \in Nat OBVIOUS
      <3> QED BY <3>1, <3>2, <3>3
    <2>2. start \in Nat /\ start <= 1000 OBVIOUS
    <2>3. start + extent \in Nat /\ start + extent <= 1000 OBVIOUS
    <2>4. a \in Nat /\ a <= 1000 * size BY <2>1, <2>2
    <2>5. c \in Nat /\ c <= 1000 * size BY <2>1, <2>3
    <2> QED BY <2>4, <2>5
  <1>2. LowOf(start, size) = Rounded(a, 1000)
        /\ HighOf(start, extent, size) = Max({Rounded(a, 1000) + 1, Rounded(c, 1000)})
    BY DEF LowOf, HighOf
  <1> HIDE DEF a, c
  <1>3. Rounded(a, 1000) \in Nat BY <1>1, RoundedWithin
  <1>4. Rounded(a, 1000) <= size BY <1>1, RoundedWithin
  <1>5. Rounded(c, 1000) \in Nat BY <1>1, RoundedWithin
  <1>6. Rounded(c, 1000) <= size BY <1>1, RoundedWithin
  <1> DEFINE p == Rounded(a, 1000) + 1
             q == Rounded(c, 1000)
  <1>7. p \in Int /\ q \in Int BY <1>3, <1>5
  <1> HIDE DEF p, q
  <1>8. Max({p, q}) \in {p, q} /\ Max({p, q}) >= p
    BY <1>7, MaxOfTwo
  <1>9. HighOf(start, extent, size) = Max({p, q})
    BY <1>2 DEF p, q
  <1>10. p = Rounded(a, 1000) + 1 /\ q = Rounded(c, 1000)
    BY DEF p, q
  <1> QED BY <1>2, <1>3, <1>4, <1>5, <1>6, <1>8, <1>9, <1>10

(* So it is on both axes.                                                    *)
LEMMA ScaledIsIn ==
    ASSUME NEW region, BoxValid(region), NEW width \in Nat, NEW height \in Nat
    PROVE  AreaIn(Scaled(region, width, height), width, height)
  <1>1. Scaled(region, width, height) =
            [left |-> LowOf(region.x, width), top |-> LowOf(region.y, height),
             right |-> HighOf(region.x, region.width, width),
             bottom |-> HighOf(region.y, region.height, height)]
    BY DEF Scaled, LowOf, HighOf
  <1>2. /\ LowOf(region.x, width) \in Nat /\ HighOf(region.x, region.width, width) \in Nat
        /\ \/ HighOf(region.x, region.width, width) <= width
           \/ HighOf(region.x, region.width, width) = LowOf(region.x, width) + 1
    <2>1. region.x \in Nat /\ region.width \in Nat /\ region.x + region.width <= 1000
      BY RegionIs
    <2> QED BY <2>1, ScaledAxis, Zenon
  <1>3. /\ LowOf(region.y, height) \in Nat /\ HighOf(region.y, region.height, height) \in Nat
        /\ \/ HighOf(region.y, region.height, height) <= height
           \/ HighOf(region.y, region.height, height) = LowOf(region.y, height) + 1
    <2>1. region.y \in Nat /\ region.height \in Nat /\ region.y + region.height <= 1000
      BY RegionIs
    <2> QED BY <2>1, ScaledAxis, Zenon
  <1> QED BY <1>1, <1>2, <1>3 DEF AreaIn

(* The areas looked at, located or not.                                      *)
LEMMA AreasAreIn ==
    ASSUME NEW size, size.width \in Nat, size.height \in Nat,
           NEW located, \A j \in DOMAIN located.material : BoxValid(located.material[j]),
           NEW k \in DOMAIN Areas(size, located)
    PROVE  AreaIn(Areas(size, located)[k], size.width, size.height)
  <1>1. CASE located.confidence >= 50 /\ located.material # <<>>
    <2>1. k \in DOMAIN located.material
          /\ Areas(size, located)[k] = Scaled(located.material[k], size.width, size.height)
      BY <1>1 DEF Areas
    <2> QED BY <2>1, ScaledIsIn
  <1>2. CASE ~(located.confidence >= 50 /\ located.material # <<>>)
    <2>1. Areas(size, located)[k] =
              [left |-> Rounded(size.width, 10), top |-> Rounded(size.height, 10),
               right |-> Rounded(9 * size.width, 10), bottom |-> Rounded(9 * size.height, 10)]
      BY <1>2 DEF Areas
    <2>2. ASSUME NEW side \in Nat
          PROVE  /\ Rounded(side, 10) \in Nat
                 /\ Rounded(9 * side, 10) \in Nat /\ Rounded(9 * side, 10) <= side
      <3> DEFINE most == 9 * side
      <3>1. most \in Nat /\ most <= 10 * side /\ side <= 10 * side OBVIOUS
      <3> HIDE DEF most
      <3>2. Rounded(side, 10) \in Nat BY <3>1, RoundedWithin
      <3>3. Rounded(most, 10) \in Nat /\ Rounded(most, 10) <= side BY <3>1, RoundedWithin
      <3> QED BY <3>2, <3>3 DEF most
    <2> QED BY <2>1, <2>2 DEF AreaIn
  <1> QED BY <1>1, <1>2

(* range(low, high + 1, stride) stays between low and high.                   *)
LEMMA StepsAre ==
    ASSUME NEW low \in Int, NEW high \in Int, NEW stride \in Nat \ {0}
    PROVE  /\ Steps(low, high, stride) \in Seq(Int)
           /\ \A i \in 1..Len(Steps(low, high, stride)) :
                 low <= Steps(low, high, stride)[i] /\ Steps(low, high, stride)[i] <= high
  <1> DEFINE n == IF high < low THEN 0 ELSE (high - low) \div stride + 1
             s == Steps(low, high, stride)
  <1>1. n \in Nat
    <2>1. CASE high < low BY <2>1
    <2>2. CASE ~(high < low)
      <3> DEFINE m == high - low
      <3>1. m \div stride \in Int
        <4>1. m \in Int OBVIOUS
        <4> HIDE DEF m
        <4> QED BY <4>1, Division
      <3>2. (high - low) \div stride >= 0
        <4> DEFINE q == (high - low) \div stride
                   r == (high - low) % stride
        <4>1. q \in Int /\ high - low = stride * q + r /\ r < stride /\ r >= 0 /\ r \in Int
          BY Division
        <4> HIDE DEF q, r
        <4>2. ~(q <= -1)
          <5> SUFFICES ASSUME q <= -1 PROVE FALSE
            OBVIOUS
          <5>1. stride * (-1 - q) >= 0 BY <4>1
          <5>2. stride * (-1 - q) = 0 - stride - stride * q BY <4>1
          <5>3. stride * q \in Int BY <4>1
          <5> QED BY <2>2, <4>1, <5>1, <5>2, <5>3
        <4> QED BY <4>1, <4>2 DEF q
      <3> QED BY <2>2, <3>1, <3>2
    <2> QED BY <2>1, <2>2
  <1>2. s = [i \in 1..n |-> low + (i - 1) * stride]
    BY DEF Steps
  <1>3. n > 0 => high >= low /\ (n - 1) * stride <= high - low
    <2> SUFFICES ASSUME n > 0, ~(high < low) PROVE (n - 1) * stride <= high - low
      OBVIOUS
    <2> DEFINE q == (high - low) \div stride
               r == (high - low) % stride
    <2>1. n = q + 1
      OBVIOUS
    <2>2. q \in Int /\ high - low = stride * q + r /\ r >= 0 /\ r \in Int
      <3> DEFINE m == high - low
      <3>1. m \in Int OBVIOUS
      <3> HIDE DEF m
      <3>2. m \div stride \in Int /\ m = stride * (m \div stride) + (m % stride) /\ m % stride \in 0..(stride - 1)
        BY <3>1, Division
      <3> QED BY <3>2 DEF m
    <2> HIDE DEF q, r, n
    <2> QED BY <2>1, <2>2
  <1> HIDE DEF n
  <1>4. ASSUME NEW i \in 1..n
        PROVE  s[i] \in Int /\ low <= s[i] /\ s[i] <= high
    <2>1. s[i] = low + (i - 1) * stride
      BY <1>2
    <2>2. (i - 1) * stride \in Int /\ (i - 1) * stride >= 0
      BY <1>1
    <2>3. (i - 1) * stride <= (n - 1) * stride
      <3>1. (n - i) * stride >= 0 BY <1>1
      <3>2. (n - i) * stride = (n - 1) * stride - (i - 1) * stride BY <1>1
      <3>3. (n - 1) * stride \in Int BY <1>1
      <3> QED BY <2>2, <3>1, <3>2, <3>3
    <2>4. (n - 1) * stride \in Int BY <1>1
    <2> QED BY <1>1, <1>3, <2>1, <2>2, <2>3, <2>4
  <1>5. s \in Seq(Int) /\ Len(s) = n
    BY <1>1, <1>2, <1>4
  <1> QED BY <1>4, <1>5

(* The place of the i-th of m * n tiles.                                     *)
LEMMA RowAndColumn ==
    ASSUME NEW m \in Nat, NEW n \in Nat, NEW i \in 1..(m * n)
    PROVE  /\ (i - 1) \div n + 1 \in 1..m
           /\ ((i - 1) % n) + 1 \in 1..n
  <1> DEFINE j == i - 1
             q == j \div n
             r == j % n
  <1>1. n # 0 /\ j \in Nat /\ j < m * n
    <2>1. ~(n = 0)
      <3> SUFFICES ASSUME n = 0 PROVE FALSE
        OBVIOUS
      <3>1. m * n = 0 OBVIOUS
      <3> QED BY <3>1
    <2>2. m * n \in Int OBVIOUS
    <2> QED BY <2>1, <2>2
  <1>2. q \in Int /\ j = n * q + r /\ r \in 0..(n - 1)
    <2> HIDE DEF j
    <2> QED BY <1>1, Division
  <1> HIDE DEF j, q, r
  <1>3. n * q \in Int /\ m * n \in Int BY <1>2
  <1>4. ~(q <= -1)
    <2> SUFFICES ASSUME q <= -1 PROVE FALSE
      OBVIOUS
    <2>1. n * (-1 - q) >= 0 BY <1>2
    <2>2. n * (-1 - q) = 0 - n - n * q BY <1>2
    <2> QED BY <1>1, <1>2, <1>3, <2>1, <2>2
  <1>5. ~(q >= m)
    <2> SUFFICES ASSUME q >= m PROVE FALSE
      OBVIOUS
    <2>1. n * (q - m) >= 0 BY <1>2
    <2>2. n * (q - m) = n * q - m * n BY <1>2
    <2> QED BY <1>1, <1>2, <1>3, <2>1, <2>2
  <1>6. q + 1 \in 1..m BY <1>2, <1>4, <1>5
  <1>7. r + 1 \in 1..n BY <1>1, <1>2
  <1> QED BY <1>6, <1>7 DEF j, q, r

(* The tiles of an area lie in the picture, whatever the area: an area that    *)
(* ends past it is one pixel wide or high, and has none.                      *)
LEMMA TilesLieIn ==
    ASSUME NEW width \in Nat, NEW height \in Nat, NEW area, AreaIn(area, width, height),
           NEW side \in Nat \ {0, 1}, NEW stride \in Nat \ {0},
           NEW i \in DOMAIN TilesIn(area, side, stride)
    PROVE  LET tile == TilesIn(area, side, stride)[i]
           IN  /\ Inside(tile, width, height)
               /\ tile.right - tile.left = side
               /\ tile.bottom - tile.top = side
  <1> DEFINE ys == Steps(area.top, area.bottom - side, stride)
             xs == Steps(area.left, area.right - side, stride)
             tiles == TilesIn(area, side, stride)
             row == (i - 1) \div Len(xs) + 1
             column == ((i - 1) % Len(xs)) + 1
  <1>1. /\ area.left \in Int /\ area.right \in Int /\ area.top \in Int /\ area.bottom \in Int
        /\ 0 <= area.left /\ (area.right <= width \/ area.right <= area.left + 1)
        /\ 0 <= area.top /\ (area.bottom <= height \/ area.bottom <= area.top + 1)
    BY DEF AreaIn
  <1>2. area.right - side \in Int /\ area.bottom - side \in Int
    BY <1>1
  <1>3. xs \in Seq(Int) /\ \A k \in 1..Len(xs) : area.left <= xs[k] /\ xs[k] <= area.right - side
    BY <1>1, <1>2, StepsAre
  <1>4. ys \in Seq(Int) /\ \A k \in 1..Len(ys) : area.top <= ys[k] /\ ys[k] <= area.bottom - side
    BY <1>1, <1>2, StepsAre
  <1>5. /\ i \in 1..(Len(ys) * Len(xs))
        /\ tiles[i] = [left |-> xs[column], top |-> ys[row],
                       right |-> xs[column] + side, bottom |-> ys[row] + side]
    BY DEF TilesIn
  <1> HIDE DEF xs, ys, tiles
  <1>6. row \in 1..Len(ys) /\ column \in 1..Len(xs)
    <2>1. Len(xs) \in Nat /\ Len(ys) \in Nat BY <1>3, <1>4
    <2> QED BY <1>5, <2>1, RowAndColumn, Zenon
  <1> HIDE DEF row, column
  <1> DEFINE x == xs[column]
             y == ys[row]
  <1>7. x \in Int /\ area.left <= x /\ x <= area.right - side
    BY <1>3, <1>6
  <1>8. y \in Int /\ area.top <= y /\ y <= area.bottom - side
    BY <1>4, <1>6
  <1>9. tiles[i] = [left |-> x, top |-> y, right |-> x + side, bottom |-> y + side]
    BY <1>5
  <1> HIDE DEF x, y
  <1>10. 0 <= x /\ x < x + side /\ x + side <= width /\ x + side \in Int
    BY <1>1, <1>7
  <1>11. 0 <= y /\ y < y + side /\ y + side <= height /\ y + side \in Int
    BY <1>1, <1>8
  <1>12. /\ tiles[i].left = x /\ tiles[i].right = x + side
         /\ tiles[i].top = y /\ tiles[i].bottom = y + side
    BY <1>9
  <1>13. Inside(tiles[i], width, height)
    BY <1>7, <1>8, <1>10, <1>11, <1>12 DEF Inside
  <1>14. tiles[i].right - tiles[i].left = side /\ tiles[i].bottom - tiles[i].top = side
    BY <1>7, <1>8, <1>12
  <1> QED BY <1>13, <1>14 DEF tiles

-----------------------------------------------------------------------------
(* The crop.                                                                 *)

(* The position and the length are the rounded ones.                         *)
AxisExact(low, high, size) ==
    LET start  == StartOf(low, size)
        extent == ExtentOf(high - low, size)
    IN  /\ start \in Nat /\ extent \in Nat /\ start + extent <= 1000
        /\ 2 * (size * start) <= 2000 * low + size
        /\ 2000 * low - size <= 2 * (size * start)
        /\ 2 * (size * extent) <= 2000 * (high - low) + size
        /\ 2000 * (high - low) - size <= 2 * (size * extent)

(* A tile of sixteen pixels is not moved by the bounds of _normalize_box.       *)
LEMMA AxisIsExact ==
    ASSUME NEW size \in Nat \ {0}, size <= 512, NEW low \in Nat, NEW high \in Nat,
           high <= size, high - low >= 16
    PROVE  AxisExact(low, high, size)
  <1> DEFINE n == low * 1000
             m == (high - low) * 1000
             p == Rounded(n, size)
             q == Rounded(m, size)
  <1>1. n \in Nat /\ m \in Nat /\ n <= size * 1000 /\ m <= size * 1000
    OBVIOUS
  <1>2. p \in Nat /\ 2 * (size * p) <= 2 * n + size /\ 2 * n - size <= 2 * (size * p)
    <2> HIDE DEF n
    <2>1. Rounded(n, size) \in Nat
      BY <1>1, RoundedWithin
    <2>2. 2 * (size * Rounded(n, size)) <= 2 * n + size
      BY <1>1, RoundedIs
    <2>3. 2 * n - size <= 2 * (size * Rounded(n, size))
      BY <1>1, RoundedIs
    <2> QED BY <2>1, <2>2, <2>3
  <1>3. q \in Nat /\ q <= 1000 /\ 2 * (size * q) <= 2 * m + size /\ 2 * m - size <= 2 * (size * q)
    <2> HIDE DEF m
    <2>1. Rounded(m, size) \in Nat
      BY <1>1, RoundedWithin
    <2>2. Rounded(m, size) <= 1000
      BY <1>1, RoundedWithin
    <2>3. 2 * (size * Rounded(m, size)) <= 2 * m + size
      BY <1>1, RoundedIs
    <2>4. 2 * m - size <= 2 * (size * Rounded(m, size))
      BY <1>1, RoundedIs
    <2> QED BY <2>1, <2>2, <2>3, <2>4
  <1>4. StartOf(low, size) = Clamped(0, 999, p) /\ ExtentOf(high - low, size) = Clamped(1, 1000, q)
    BY DEF StartOf, ExtentOf
  <1> HIDE DEF p, q
  <1>5. p <= 999
    <2> SUFFICES ASSUME p >= 1000 PROVE FALSE
      BY <1>2
    <2>1. size * (p - 1000) >= 0
      BY <1>2
    <2>2. size * (p - 1000) = size * p - size * 1000 /\ size * p \in Int
      BY <1>2
    <2> QED BY <1>2, <2>1, <2>2
  <1>6. q >= 1
    <2> SUFFICES ASSUME q = 0 PROVE FALSE
      BY <1>3
    <2>1. size * q = 0
      OBVIOUS
    <2> QED BY <1>3, <2>1
  <1>7. StartOf(low, size) = p /\ ExtentOf(high - low, size) = q
    <2>1. Clamped(0, 999, p) = IF p < 0 THEN 0 ELSE IF p > 999 THEN 999 ELSE p
      BY <1>2, ClampedIs
    <2>2. Clamped(1, 1000, q) = IF q < 1 THEN 1 ELSE IF q > 1000 THEN 1000 ELSE q
      BY <1>3, ClampedIs
    <2> QED BY <1>2, <1>3, <1>4, <1>5, <1>6, <2>1, <2>2
  <1>8. StartOf(low, size) + ExtentOf(high - low, size) <= 1000
    <2> DEFINE length == high - low
    <2>1. low \in Int /\ length \in Int /\ 0 <= low /\ 0 < length /\ low + length <= size
      OBVIOUS
    <2> HIDE DEF length
    <2>2. AxisValid(low, length, size)
      BY <2>1, AxisIsValid
    <2> QED BY <2>2 DEF length, AxisValid
  <1> QED BY <1>2, <1>3, <1>7, <1>8 DEF AxisExact

(* One axis of a tile, in thousandths of the working copy, cut out of the      *)
(* stored picture: sixteen pixels of at most 512 are over thirty thousandths,  *)
(* so that the beginning, rounded twice, is still before the end.            *)
LEMMA CropAxis ==
    ASSUME NEW size \in Nat \ {0}, size <= 512, NEW stored \in Nat, size <= stored,
           NEW low \in Nat, NEW high \in Nat, high <= size, high - low >= 16
    PROVE  LET start  == StartOf(low, size)
               extent == ExtentOf(high - low, size)
           IN  /\ LowOf(start, stored) \in Nat /\ HighOf(start, extent, stored) \in Nat
               /\ LowOf(start, stored) < HighOf(start, extent, stored)
               /\ HighOf(start, extent, stored) <= stored
  <1> DEFINE start == StartOf(low, size)
             extent == ExtentOf(high - low, size)
             left == LowOf(start, stored)
  <1>1. /\ start \in Nat /\ extent \in Nat /\ start + extent <= 1000
        /\ 2 * (size * start) <= 2000 * low + size
    <2>1. AxisExact(low, high, size)
      BY AxisIsExact
    <2> QED BY <2>1 DEF AxisExact
  <1>2. left \in Int /\ 2000 * left <= 2 * (start * stored) + 1000
    <2> HIDE DEF start
    <2> DEFINE n == start * stored
    <2>1. n \in Int
      BY <1>1
    <2> HIDE DEF n
    <2>2. Rounded(n, 1000) \in Int BY <2>1, RoundedIs
    <2>3. 2 * (1000 * Rounded(n, 1000)) <= 2 * n + 1000 BY <2>1, RoundedIs
    <2>4. left = Rounded(n, 1000) BY DEF LowOf, n
    <2> HIDE DEF left
    <2> QED BY <2>1, <2>2, <2>3, <2>4 DEF n
  <1>3. /\ left \in Nat /\ HighOf(start, extent, stored) \in Nat
        /\ left < HighOf(start, extent, stored)
        /\ HighOf(start, extent, stored) <= stored \/ HighOf(start, extent, stored) = left + 1
    <2> HIDE DEF start, extent
    <2> QED BY <1>1, ScaledAxis
  <1> HIDE DEF start, extent, left
  <1>4. left < stored
    <2> SUFFICES ASSUME left >= stored PROVE FALSE
      BY <1>2
    <2>1. size * start \in Int /\ stored * start \in Int
      BY <1>1
    <2>3. 2 * (size * start) <= 2001 * size - 32000
      BY <1>1, <2>1
    <2>4. 2000 * stored <= 2 * (stored * start) + 1000
      BY <1>1, <1>2
    <2>5. (stored - size) * (1000 - start) >= 0
      BY <1>1
    <2>6. (stored - size) * (1000 - start) =
              1000 * stored - 1000 * size - stored * start + size * start
      BY <1>1
    <2> QED BY <2>1, <2>3, <2>4, <2>5, <2>6
  <1>5. HighOf(start, extent, stored) <= stored
    BY <1>3, <1>4
  <1> QED BY <1>3, <1>5 DEF start, extent, left

(* A tile has a side of sixteen pixels at least.                             *)
LEMMA TileSideIs ==
    ASSUME NEW size, size.width \in Nat, size.height \in Nat
    PROVE  TileSide(size) \in Nat /\ TileSide(size) >= 16
  <1> DEFINE m == Min({size.width, size.height})
             n == m \div 6
  <1>1. m \in Int
    <2>1. size.width \in Int /\ size.height \in Int OBVIOUS
    <2>2. m \in {size.width, size.height} BY <2>1, MinOfTwo, Zenon
    <2> HIDE DEF m
    <2> QED BY <2>1, <2>2
  <1>2. n \in Int
    <2> HIDE DEF m
    <2> QED BY <1>1
  <1>3. TileSide(size) = Clamped(16, 64, n)
    BY DEF TileSide
  <1> HIDE DEF m, n
  <1>4. Clamped(16, 64, n) \in Int BY <1>2, ClampedIn
  <1>5. 16 <= Clamped(16, 64, n) BY <1>2, ClampedIn
  <1> QED BY <1>3, <1>4, <1>5

(* A pixel of the working copy in thousandths, rounded.                       *)
InThousandths(at, part, size) ==
    size * part <= 1000 * at + size /\ 1000 * at - size <= size * part

(* Thousandths in pixels of the picture, rounded.                             *)
InPixels(part, pixel, stored) ==
    2000 * pixel <= 2 * (part * stored) + 1000 /\ 2 * (part * stored) - 1000 <= 2000 * pixel

(* A pixel of the working copy, in thousandths, in a pixel of the picture: half *)
(* a thousandth of at most 512 pixels twice, and half a pixel that is smaller. *)
LEMMA ScaledBack ==
    ASSUME NEW size \in Nat \ {0}, size <= 512, NEW stored \in Nat, size <= stored,
           NEW at \in Nat, NEW part \in Nat, NEW pixel \in Int,
           InThousandths(at, part, size), InPixels(part, pixel, stored)
    PROVE  Distance(pixel * size, at * stored) <= 2 * stored
  <1> DEFINE m == pixel * size
             t == at * stored
             s == size * stored
             d == (size * part) * stored
  <1>1. m \in Int /\ t \in Int /\ s \in Int /\ d \in Int
    OBVIOUS
  <1>2. s <= 512 * stored
    <2>1. stored * (512 - size) >= 0
      OBVIOUS
    <2>2. stored * (512 - size) = 512 * stored - s
      OBVIOUS
    <2> QED BY <1>1, <2>1, <2>2
  <1>3. d <= 1000 * t + s /\ 1000 * t - s <= d
    <2> DEFINE a == size * part
    <2>1. a \in Int /\ 1000 * at + size - a >= 0 /\ a - 1000 * at + size >= 0
      BY DEF InThousandths
    <2> HIDE DEF a
    <2>2. stored * (1000 * at + size - a) >= 0 /\ stored * (a - 1000 * at + size) >= 0
      BY <2>1
    <2>3. /\ stored * (1000 * at + size - a) = 1000 * t + s - a * stored
          /\ stored * (a - 1000 * at + size) = a * stored - 1000 * t + s
      BY <2>1
    <2>4. a * stored = d
      BY DEF a
    <2> QED BY <1>1, <2>2, <2>3, <2>4
  <1>4. 2000 * m <= 2 * d + 1000 * size /\ 2 * d - 1000 * size <= 2000 * m
    <2> DEFINE w == part * stored
    <2>1. w \in Int /\ 2 * w + 1000 - 2000 * pixel >= 0 /\ 2000 * pixel - 2 * w + 1000 >= 0
      BY DEF InPixels
    <2>2. size * w = d
      OBVIOUS
    <2> HIDE DEF w, d
    <2>3. size * (2 * w + 1000 - 2000 * pixel) >= 0 /\ size * (2000 * pixel - 2 * w + 1000) >= 0
      BY <2>1
    <2>4. /\ size * (2 * w + 1000 - 2000 * pixel) = 2 * (size * w) + 1000 * size - 2000 * m
          /\ size * (2000 * pixel - 2 * w + 1000) = 2000 * m - 2 * (size * w) + 1000 * size
      BY <2>1
    <2> QED BY <1>1, <2>2, <2>3, <2>4
  <1> HIDE DEF m, t, s, d
  <1>5. m - t <= 2 * stored /\ t - m <= 2 * stored
    BY <1>1, <1>2, <1>3, <1>4
  <1> QED BY <1>1, <1>5 DEF Distance, m, t

(* What is cut out for a tile begins and ends where the tile does.             *)
LEMMA EdgesOfCrop ==
    ASSUME NEW size \in Nat \ {0}, size <= 512, NEW stored \in Nat, size <= stored,
           NEW low \in Nat, NEW high \in Nat, high <= size, high - low >= 16
    PROVE  LET start  == StartOf(low, size)
               extent == ExtentOf(high - low, size)
           IN  /\ Distance(LowOf(start, stored) * size, low * stored) <= 2 * stored
               /\ Distance(HighOf(start, extent, stored) * size, high * stored) <= 2 * stored
  <1> DEFINE start == StartOf(low, size)
             extent == ExtentOf(high - low, size)
             first == LowOf(start, stored)
             n == start * stored
             m == (start + extent) * stored
             last == Rounded(m, 1000)
  <1>1. /\ start \in Nat /\ extent \in Nat /\ start + extent <= 1000
        /\ 2 * (size * start) <= 2000 * low + size
        /\ 2000 * low - size <= 2 * (size * start)
        /\ 2 * (size * extent) <= 2000 * (high - low) + size
        /\ 2000 * (high - low) - size <= 2 * (size * extent)
    <2>1. AxisExact(low, high, size)
      BY AxisIsExact
    <2> QED BY <2>1 DEF AxisExact
  <1> HIDE DEF start, extent
  <1>2. n \in Int /\ m \in Int
    BY <1>1
  <1>3. first \in Int /\ 2000 * first <= 2 * n + 1000 /\ 2 * n - 1000 <= 2000 * first
    <2>1. first = Rounded(n, 1000)
      BY DEF LowOf
    <2> HIDE DEF n, first
    <2>2. Rounded(n, 1000) \in Int BY <1>2, RoundedIs
    <2>3. 2 * (1000 * Rounded(n, 1000)) <= 2 * n + 1000 BY <1>2, RoundedIs
    <2>4. 2 * n - 1000 <= 2 * (1000 * Rounded(n, 1000)) BY <1>2, RoundedIs
    <2> QED BY <1>2, <2>1, <2>2, <2>3, <2>4
  <1>4. last \in Int /\ 2000 * last <= 2 * m + 1000 /\ 2 * m - 1000 <= 2000 * last
    <2> HIDE DEF m
    <2>2. Rounded(m, 1000) \in Int BY <1>2, RoundedIs
    <2>3. 2 * (1000 * Rounded(m, 1000)) <= 2 * m + 1000 BY <1>2, RoundedIs
    <2>4. 2 * m - 1000 <= 2 * (1000 * Rounded(m, 1000)) BY <1>2, RoundedIs
    <2> QED BY <1>2, <2>2, <2>3, <2>4
  <1>5. HighOf(start, extent, stored) = Max({first + 1, last})
    BY DEF HighOf
  <1> HIDE DEF first, last
  <1>6. first + 1 <= last
    <2>1. m = n + extent * stored
      BY <1>1
    <2>2. extent * stored >= extent * size
      <3>1. extent * (stored - size) >= 0
        BY <1>1
      <3>2. extent * (stored - size) = extent * stored - extent * size
        BY <1>1
      <3>3. extent * stored \in Int /\ extent * size \in Int
        BY <1>1
      <3> QED BY <3>1, <3>2, <3>3
    <2>3. extent * size = size * extent /\ extent * stored \in Int /\ size * extent \in Int
      BY <1>1
    <2> DEFINE u == extent * stored
               v == size * extent
    <2>4. m = n + u /\ u >= v /\ u \in Int /\ v \in Int
      BY <2>1, <2>2, <2>3
    <2>5. 2000 * (high - low) - size <= 2 * v
      BY <1>1
    <2> HIDE DEF u, v, n, m
    <2> QED BY <1>2, <1>3, <1>4, <2>4, <2>5
  <1>7. HighOf(start, extent, stored) = last
    <2>1. first + 1 \in Int /\ last \in Int
      BY <1>3, <1>4
    <2> DEFINE next == first + 1
    <2> HIDE DEF next
    <2>2. Max({next, last}) \in {next, last} /\ Max({next, last}) >= last
      BY <2>1, MaxOfTwo DEF next
    <2>3. HighOf(start, extent, stored) = Max({next, last})
      BY <1>5 DEF next
    <2> QED BY <1>3, <1>4, <1>6, <2>2, <2>3 DEF next
  <1>8. Distance(first * size, low * stored) <= 2 * stored
    <2>1. InThousandths(low, start, size)
      <3> DEFINE a == size * start
      <3>1. a \in Int /\ 2 * a <= 2000 * low + size /\ 2000 * low - size <= 2 * a
        BY <1>1
      <3> HIDE DEF a
      <3>2. a <= 1000 * low + size /\ 1000 * low - size <= a
        BY <3>1
      <3> QED BY <3>2 DEF a, InThousandths
    <2>2. InPixels(start, first, stored)
      BY <1>3 DEF InPixels
    <2>3. start \in Nat /\ first \in Int
      BY <1>1, <1>3
    <2> QED BY <2>1, <2>2, <2>3, ScaledBack
  <1>9. Distance(last * size, high * stored) <= 2 * stored
    <2> DEFINE part == start + extent
    <2>1. part \in Nat /\ size * part = size * start + size * extent
      BY <1>1
    <2>2. InPixels(part, last, stored)
      BY <1>4 DEF InPixels
    <2> HIDE DEF part
    <2>3. InThousandths(high, part, size)
      <3> DEFINE a == size * start
                 b == size * extent
                 c == size * part
      <3>1. /\ a \in Int /\ b \in Int /\ c \in Int /\ c = a + b
            /\ 2 * a <= 2000 * low + size /\ 2000 * low - size <= 2 * a
            /\ 2 * b <= 2000 * (high - low) + size /\ 2000 * (high - low) - size <= 2 * b
        BY <1>1, <2>1
      <3> HIDE DEF a, b, c
      <3>2. c <= 1000 * high + size /\ 1000 * high - size <= c
        BY <3>1
      <3> QED BY <3>2 DEF c, InThousandths
    <2>4. part \in Nat /\ last \in Int
      BY <1>4, <2>1
    <2> QED BY <2>2, <2>3, <2>4, ScaledBack
  <1> QED BY <1>7, <1>8, <1>9 DEF start, extent, first

-----------------------------------------------------------------------------
(* Induction and recursion over the indices of a sequence, for sets and        *)
(* functions in place of predicates and operators.                           *)

(* Every set of numbers has a least one.                                     *)
LEMMA Least ==
    ASSUME NEW T, T \subseteq Nat, T # {}
    PROVE  \E m \in T : \A k \in T : m <= k
  <1> DEFINE R == OpToRel(<, Nat)
  <1>1. IsWellFoundedOn(R, Nat)
    BY NatLessThanWellFounded
  <1>2. \A a, b \in Nat : a < b => <<a, b>> \in R
    BY DEF OpToRel
  <1> HIDE DEF R
  <1>3. PICK m \in T : \A k \in T : <<k, m>> \notin R
    BY <1>1, WFMin
  <1>4. \A k \in T : ~(k < m)
    BY <1>2, <1>3
  <1>5. \A k \in T : m <= k
    BY <1>4
  <1> QED BY <1>5

(* What holds of 0, and of i if of i - 1, holds up to n.                      *)
LEMMA Induct ==
    ASSUME NEW n \in Nat, NEW P, 0 \in P, \A i \in 1..n : i - 1 \in P => i \in P
    PROVE  \A i \in 0..n : i \in P
  <1> DEFINE T == {i \in 0..n : i \notin P}
  <1> SUFFICES ASSUME T # {} PROVE FALSE
    OBVIOUS
  <1>1. PICK m \in T : \A k \in T : m <= k
    <2>1. T \subseteq Nat OBVIOUS
    <2> HIDE DEF T
    <2> QED BY <2>1, Least
  <1>2. m \in 1..n
    BY <1>1
  <1>3. m - 1 \notin T
    BY <1>1, <1>2
  <1>4. m - 1 \in P
    BY <1>2, <1>3
  <1> QED BY <1>1, <1>2, <1>4

(* The greatest and the least of some indices.                               *)
LEMMA MaxOfIndices ==
    ASSUME NEW n \in Nat, NEW T, T \subseteq 1..n, T # {}
    PROVE  Max(T) \in T /\ \A k \in T : Max(T) >= k
  <1> DEFINE D == {n - k : k \in T}
  <1>1. D \subseteq Nat /\ D # {}
    <2>1. \A k \in T : k \in Int /\ k <= n
      OBVIOUS
    <2>2. \A k \in T : n - k \in Nat
      BY <2>1
    <2>3. PICK k : k \in T
      OBVIOUS
    <2>4. n - k \in D
      BY <2>3
    <2>5. D # {}
      BY <2>4
    <2> QED BY <2>2, <2>5
  <1>2. PICK d \in D : \A e \in D : d <= e
    <2> HIDE DEF D
    <2> QED BY <1>1, Least
  <1>3. PICK m \in T : d = n - m
    OBVIOUS
  <1>4. ASSUME NEW k \in T
        PROVE  m >= k
    <2>1. n - k \in D
      OBVIOUS
    <2>2. d <= n - k
      BY <1>2, <2>1
    <2>3. m \in Int /\ k \in Int
      OBVIOUS
    <2> HIDE DEF D
    <2> QED BY <1>3, <2>2, <2>3
  <1> QED BY <1>4, Zenon DEF Max

(* The least of some numbers.                                                *)
LEMMA MinOfNumbers ==
    ASSUME NEW T, T \subseteq Nat, T # {}
    PROVE  Min(T) \in T /\ \A k \in T : Min(T) <= k
  BY Least, Zenon DEF Min

(* The last of the first k indices, and those before it.                     *)
LEMMA UpTo ==
    ASSUME NEW n \in Nat, NEW k \in 1..n
    PROVE  /\ 1..k \in SUBSET (1..n) /\ 1..k # {}
           /\ Max(1..k) = k
           /\ (1..k) \ {k} = 1..(k - 1)
  <1>1. 1..k \subseteq 1..n /\ 1..k # {} /\ k \in 1..k
    OBVIOUS
  <1>2. Max(1..k) \in 1..k /\ \A j \in 1..k : Max(1..k) >= j
    BY <1>1, MaxOfIndices
  <1>3. Max(1..k) = k
    BY <1>1, <1>2
  <1> QED BY <1>1, <1>3

(* The steps of a fold over n indices, with values in T.                      *)
IsStep(n, T, base, step) ==
    n \in Nat /\ base \in T /\ step \in [T -> [1..n -> T]]

(* What a fold of the library is defined from: a function on the sets of        *)
(* indices, which takes the last index away at each step.                     *)
Folds(g, n, base, step) ==
    /\ g[{}] = base
    /\ \A x \in SUBSET (1..n) : x # {} => g[x] = step[g[x \ {Max(x)}]][Max(x)]

(* As much, of a function that is not known to have its values in T.           *)
FoldsIn(f, n, T, base, step) ==
    /\ f[{}] = base
    /\ \A x \in SUBSET (1..n) :
          x # {} /\ f[x \ {Max(x)}] \in T => f[x] = step[f[x \ {Max(x)}]][Max(x)]

(* What it comes to, one step after the other.                               *)
Leads(h, n, base, step) ==
    h[0] = base /\ \A k \in 1..n : h[k] = step[h[k - 1]][k]

(* The steps lead to f on all n indices.                                     *)
Reaches(f, n, T, base, step) ==
    \E h \in [0..n -> T] : Leads(h, n, base, step) /\ h[n] = f[1..n]

(* The last of some indices, and what is left without it.                    *)
LEMMA LastIndex ==
    ASSUME NEW n \in Nat, NEW x \in SUBSET (1..n), x # {}
    PROVE  Max(x) \in 1..n /\ Max(x) \in x /\ x \ {Max(x)} \in SUBSET (1..n)
  BY MaxOfIndices

(* There is one, for any step.                                               *)
LEMMA Folding ==
    ASSUME NEW n, NEW T, NEW base, NEW step, IsStep(n, T, base, step)
    PROVE  \E g \in [SUBSET (1..n) -> T] : Folds(g, n, base, step)
  <1> n \in Nat /\ base \in T /\ step \in [T -> [1..n -> T]]
    BY DEF IsStep
  <1> DEFINE P == {m \in 0..n : \E g \in [SUBSET (1..m) -> T] : Folds(g, m, base, step)}
  <1>1. 0 \in P
    <2> DEFINE g == [x \in SUBSET (1..0) |-> base]
    <2>1. \A x \in SUBSET (1..0) : x = {}
      OBVIOUS
    <2>2. g \in [SUBSET (1..0) -> T] /\ Folds(g, 0, base, step)
      BY <2>1 DEF Folds
    <2> QED BY <2>2
  <1>2. ASSUME NEW m \in 1..n, m - 1 \in P
        PROVE  m \in P
    <2>1. PICK f \in [SUBSET (1..(m - 1)) -> T] : Folds(f, m - 1, base, step)
      BY <1>2
    <2> DEFINE g == [x \in SUBSET (1..m) |-> IF m \in x THEN step[f[x \ {m}]][m] ELSE f[x]]
    <2>2. \A x \in SUBSET (1..m) : /\ m \in x => x \ {m} \in SUBSET (1..(m - 1))
                                   /\ m \notin x => x \in SUBSET (1..(m - 1))
      <3>1. m \in Nat
        OBVIOUS
      <3>2. \A k \in 1..m : k # m => k \in 1..(m - 1)
        BY <3>1
      <3> QED BY <3>2
    <2>3. ASSUME NEW x \in SUBSET (1..m) PROVE g[x] \in T
      <3>1. CASE m \in x
        BY <2>1, <2>2, <3>1
      <3>2. CASE m \notin x
        BY <2>1, <2>2, <3>2
      <3> QED BY <3>1, <3>2
    <2>4. g[{}] = base
      BY <2>1 DEF Folds
    <2>5. ASSUME NEW x \in SUBSET (1..m), x # {}
          PROVE  g[x] = step[g[x \ {Max(x)}]][Max(x)]
      <3>0. m \in Nat /\ Max(x) \in 1..m /\ Max(x) \in x
        <4>1. m \in Nat /\ x \in SUBSET (1..m) /\ x # {}
          BY <2>5
        <4> HIDE DEF g
        <4> QED BY <4>1, LastIndex
      <3>1. CASE m \in x
        <4>1. Max(x) = m
          <5>1. x \subseteq 1..m /\ x # {} /\ m \in Nat
            BY <2>5
          <5>2. Max(x) >= m
            BY <3>1, <5>1, MaxOfIndices
          <5> HIDE DEF g
          <5> QED BY <3>0, <5>2
        <4>2. x \ {m} \in SUBSET (1..m) /\ m \notin x \ {m}
          OBVIOUS
        <4>3. g[x \ {m}] = f[x \ {m}]
          BY <4>2
        <4>4. g[x] = step[f[x \ {m}]][m]
          BY <3>1
        <4> HIDE DEF g
        <4> QED BY <4>1, <4>3, <4>4
      <3>2. CASE m \notin x
        <4>1. x \in SUBSET (1..(m - 1))
          BY <2>2, <3>2
        <4>2. x \ {Max(x)} \in SUBSET (1..m) /\ m \notin x \ {Max(x)}
          BY <3>2
        <4>3. g[x] = f[x] /\ g[x \ {Max(x)}] = f[x \ {Max(x)}]
          BY <3>2, <4>2
        <4>4. f[x] = step[f[x \ {Max(x)}]][Max(x)]
          BY <2>1, <2>5, <4>1 DEF Folds
        <4> HIDE DEF g
        <4> QED BY <4>3, <4>4
      <3> QED BY <3>1, <3>2
    <2>6. g \in [SUBSET (1..m) -> T]
      BY <2>3
    <2> HIDE DEF g
    <2>7. Folds(g, m, base, step)
      BY <2>4, <2>5 DEF Folds
    <2> QED BY <2>6, <2>7
  <1>3. \A i \in 1..n : i - 1 \in P => i \in P
    BY <1>2
  <1>4. n \in P
    <2> HIDE DEF P
    <2>1. \A i \in 0..n : i \in P
      BY <1>1, <1>3, Induct
    <2> QED BY <2>1
  <1> QED BY <1>4

(* On the first k indices, any such function is what k steps lead to.         *)
LEMMA FoldsTo ==
    ASSUME NEW n, NEW T, NEW base, NEW step, IsStep(n, T, base, step),
           NEW f, FoldsIn(f, n, T, base, step)
    PROVE  Reaches(f, n, T, base, step)
  <1> n \in Nat /\ base \in T /\ step \in [T -> [1..n -> T]]
    BY DEF IsStep
  <1> DEFINE g == [k \in 0..n |-> f[1..k]]
             P == {k \in 0..n : f[1..k] \in T}
  <1>1. f[1..0] = base
    <2>1. 1..0 = {}
      OBVIOUS
    <2> QED BY <2>1 DEF FoldsIn
  <1>2. ASSUME NEW k \in 1..n, f[1..(k - 1)] \in T
        PROVE  f[1..k] = step[f[1..(k - 1)]][k]
    <2>1. /\ 1..k \in SUBSET (1..n) /\ 1..k # {}
          /\ Max(1..k) = k /\ (1..k) \ {k} = 1..(k - 1)
      BY UpTo
    <2> QED BY <1>2, <2>1 DEF FoldsIn
  <1>3. 0 \in P
    BY <1>1
  <1>4. ASSUME NEW k \in 1..n, k - 1 \in P
        PROVE  k \in P
    <2>1. f[1..(k - 1)] \in T
      BY <1>4
    <2>2. f[1..k] \in T
      <3>1. f[1..k] = step[f[1..(k - 1)]][k]
        BY <1>2, <2>1
      <3>2. step[f[1..(k - 1)]] \in [1..n -> T]
        BY <2>1
      <3> QED BY <3>1, <3>2
    <2> QED BY <2>2
  <1>5. \A k \in 0..n : k \in P
    <2>1. \A k \in 1..n : k - 1 \in P => k \in P
      BY <1>4
    <2> HIDE DEF P
    <2> QED BY <1>3, <2>1, Induct
  <1>6. g \in [0..n -> T] /\ g[0] = base /\ g[n] = f[1..n]
    BY <1>1, <1>5
  <1>7. ASSUME NEW k \in 1..n
        PROVE  g[k] = step[g[k - 1]][k]
    <2>1. k \in 0..n /\ k - 1 \in 0..n
      OBVIOUS
    <2> QED BY <1>2, <1>5, <2>1
  <1> HIDE DEF g
  <1> QED BY <1>6, <1>7 DEF Leads, Reaches

(* The elements kept are elements of the sequence whose indices are.          *)
LEMMA SelectedIs ==
    ASSUME NEW S, NEW s \in Seq(S), NEW kept
    PROVE  /\ Selected(s, kept) \in Seq(S)
           /\ \A k \in DOMAIN Selected(s, kept) :
                 \E i \in DOMAIN s : i \in kept /\ Selected(s, kept)[k] = s[i]
  <1> DEFINE n == Len(s)
             T == Seq({s[i] : i \in {j \in DOMAIN s : j \in kept}})
             Take(taken, i) == IF i \in kept THEN Append(taken, s[i]) ELSE taken
             step == [t \in T |-> [i \in 1..n |-> Take(t, i)]]
             ids == [i \in DOMAIN s |-> i]
             IsFold(f) == f = [x \in SUBSET DOMAIN ids |->
                                  IF x = {} THEN <<>> ELSE Take(f[x \ {Max(x)}], ids[Max(x)])]
             fold == CHOOSE f : IsFold(f)
  <1>1. n \in Nat /\ DOMAIN s = 1..n /\ DOMAIN ids = 1..n /\ \A i \in 1..n : ids[i] = i
    OBVIOUS
  <1>2. Selected(s, kept) = fold[1..n]
    <2>1. Selected(s, kept) = fold[DOMAIN ids]
      BY DEF Selected, FoldLeftDomain, FoldLeft, MapThenFoldSet
    <2> HIDE DEF fold, ids
    <2> QED BY <1>1, <2>1
  <1>3. <<>> \in T /\ \A t \in T, i \in 1..n : Take(t, i) \in T
    OBVIOUS
  <1>4. step \in [T -> [1..n -> T]] /\ \A t \in T, i \in 1..n : step[t][i] = Take(t, i)
    <2> HIDE DEF T, Take
    <2> QED BY <1>3
  <1> HIDE DEF n, T, Take, step, ids
  <1>5. IsStep(n, T, <<>>, step)
    BY <1>1, <1>3, <1>4 DEF IsStep
  <1>6. PICK g \in [SUBSET (1..n) -> T] : Folds(g, n, <<>>, step)
    BY <1>5, Folding
  <1>7. IsFold(g)
    <2>1. ASSUME NEW x \in SUBSET (1..n), x # {}
          PROVE  g[x] = Take(g[x \ {Max(x)}], ids[Max(x)])
      <3>1. g[x] = step[g[x \ {Max(x)}]][Max(x)]
        BY <1>6, <2>1 DEF Folds
      <3>2. Max(x) \in 1..n /\ x \ {Max(x)} \in SUBSET (1..n)
        BY <1>1, <2>1, LastIndex
      <3>3. g[x \ {Max(x)}] \in T
        BY <1>6, <3>2
      <3> QED BY <1>1, <1>4, <3>1, <3>2, <3>3
    <2>2. g[{}] = <<>> /\ g = [x \in SUBSET (1..n) |-> g[x]]
      BY <1>6 DEF Folds
    <2> QED BY <1>1, <2>1, <2>2
  <1>8. IsFold(fold)
    <2> HIDE DEF IsFold
    <2> QED BY <1>7
  <1>9. FoldsIn(fold, n, T, <<>>, step)
    <2> HIDE DEF fold
    <2>1. \A x \in SUBSET (1..n) :
              fold[x] = IF x = {} THEN <<>> ELSE Take(fold[x \ {Max(x)}], ids[Max(x)])
      BY <1>1, <1>8
    <2>2. ASSUME NEW x \in SUBSET (1..n), x # {}, fold[x \ {Max(x)}] \in T
          PROVE  fold[x] = step[fold[x \ {Max(x)}]][Max(x)]
      <3>1. Max(x) \in 1..n /\ ids[Max(x)] = Max(x)
        BY <1>1, <2>2, LastIndex
      <3>2. fold[x] = Take(fold[x \ {Max(x)}], Max(x))
        BY <2>1, <2>2, <3>1
      <3> QED BY <1>4, <2>2, <3>1, <3>2
    <2>3. fold[{}] = <<>>
      BY <2>1
    <2> QED BY <2>2, <2>3 DEF FoldsIn
  <1> HIDE DEF fold
  <1>10. fold[1..n] \in T
    <2>1. PICK h \in [0..n -> T] : h[n] = fold[1..n]
      <3>1. Reaches(fold, n, T, <<>>, step)
        BY <1>9, <1>5, FoldsTo
      <3> QED BY <3>1 DEF Reaches
    <2> QED BY <1>1, <2>1
  <1> QED BY <1>2, <1>10 DEF T

-----------------------------------------------------------------------------
(* Ranking.                                                                  *)

(* The elements of one sequence, then those of the other.                    *)
LEMMA ConcatIs ==
    ASSUME NEW S, NEW s \in Seq(S), NEW t \in Seq(S)
    PROVE  /\ s \o t \in Seq(S) /\ Len(s \o t) = Len(s) + Len(t)
           /\ \A m \in 1..Len(s) : (s \o t)[m] = s[m]
           /\ \A m \in 1..Len(t) : (s \o t)[Len(s) + m] = t[m]
  OBVIOUS

(* The element at its place, and those from there on moved by one.            *)
LEMMA InsertedIs ==
    ASSUME NEW S, NEW t \in Seq(S), NEW q \in 1..(Len(t) + 1), NEW e \in S
    PROVE  /\ InsertAt(t, q, e) \in Seq(S) /\ Len(InsertAt(t, q, e)) = Len(t) + 1
           /\ \A m \in 1..(Len(t) + 1) :
                 InsertAt(t, q, e)[m] =
                     IF m < q THEN t[m] ELSE IF m = q THEN e ELSE t[m - 1]
  <1> DEFINE low == SubSeq(t, 1, q - 1)
             high == SubSeq(t, q, Len(t))
             begun == low \o <<e>>
             new == InsertAt(t, q, e)
  <1>1. Len(t) \in Nat /\ q \in 1..(Len(t) + 1)
    OBVIOUS
  <1>2. low \in Seq(S) /\ Len(low) = q - 1 /\ \A m \in 1..(q - 1) : low[m] = t[m]
    BY <1>1
  <1>3. /\ high \in Seq(S) /\ Len(high) = Len(t) + 1 - q
        /\ \A m \in 1..(Len(t) + 1 - q) : high[m] = t[q - 1 + m]
    BY <1>1
  <1>4. <<e>> \in Seq(S) /\ Len(<<e>>) = 1 /\ <<e>>[1] = e
    OBVIOUS
  <1>5. new = begun \o high
    BY DEF InsertAt
  <1> DEFINE one == <<e>>
  <1> HIDE DEF low, high, new, one
  <1>6. /\ begun \in Seq(S) /\ Len(begun) = Len(low) + Len(one)
        /\ \A m \in 1..Len(low) : begun[m] = low[m]
        /\ \A m \in 1..Len(one) : begun[Len(low) + m] = one[m]
    <2>1. one \in Seq(S) /\ low \in Seq(S)
      BY <1>2, <1>4 DEF one
    <2>2. begun = low \o one
      BY DEF one
    <2> HIDE DEF begun
    <2> QED BY <2>1, <2>2, ConcatIs
  <1>7. /\ begun \in Seq(S) /\ Len(begun) = q
        /\ \A m \in 1..(q - 1) : begun[m] = t[m]
        /\ begun[q] = e
    <2>1. Len(one) = 1 /\ one[1] = e
      BY <1>4 DEF one
    <2>2. Len(low) + 1 = q /\ 1 \in 1..Len(one)
      BY <1>1, <1>2, <2>1
    <2> HIDE DEF begun
    <2> QED BY <1>1, <1>2, <1>6, <2>1, <2>2
  <1> HIDE DEF begun
  <1>8. /\ new \in Seq(S) /\ Len(new) = Len(begun) + Len(high)
        /\ \A m \in 1..Len(begun) : new[m] = begun[m]
        /\ \A m \in 1..Len(high) : new[Len(begun) + m] = high[m]
    <2>1. begun \in Seq(S) /\ high \in Seq(S)
      BY <1>3, <1>7
    <2> QED BY <1>5, <2>1, ConcatIs
  <1>9. ASSUME NEW m \in 1..(Len(t) + 1)
        PROVE  new[m] = IF m < q THEN t[m] ELSE IF m = q THEN e ELSE t[m - 1]
    <2>1. CASE m < q
      <3>1. m \in 1..(q - 1) /\ m \in 1..Len(begun)
        BY <1>1, <1>7, <2>1
      <3> QED BY <1>7, <1>8, <2>1, <3>1
    <2>2. CASE m = q
      <3>1. q \in 1..Len(begun)
        BY <1>1, <1>7
      <3> QED BY <1>7, <1>8, <2>2, <3>1
    <2>3. CASE m > q
      <3>1. m - q \in 1..(Len(t) + 1 - q) /\ Len(begun) + (m - q) = m /\ q - 1 + (m - q) = m - 1
        BY <1>1, <1>7, <2>3
      <3>2. m - q \in 1..Len(high)
        BY <1>3, <3>1
      <3>3. new[m] = high[m - q]
        BY <1>8, <3>1, <3>2
      <3>4. high[m - q] = t[m - 1]
        BY <1>3, <3>1
      <3>5. ~(m < q) /\ m # q
        BY <1>1, <2>3
      <3> QED BY <3>3, <3>4, <3>5
    <2> QED BY <1>1, <2>1, <2>2, <2>3
  <1>10. Len(new) = Len(t) + 1
    BY <1>1, <1>3, <1>7, <1>8
  <1> QED BY <1>8, <1>9, <1>10 DEF new

(* The first k of n indices, in some order.                                  *)
Arranged(t, k, n) ==
    /\ t \in Seq(1..n) /\ Len(t) = k
    /\ \A m \in 1..k : t[m] \in 1..k
    /\ \A i \in 1..k : \E m \in 1..k : t[m] = i

(* The next index, put in anywhere.                                          *)
LEMMA ArrangedStays ==
    ASSUME NEW n \in Nat, NEW i \in 1..n, NEW t, Arranged(t, i - 1, n), NEW p \in 0..(i - 1)
    PROVE  Arranged(InsertAt(t, p + 1, i), i, n)
  <1> DEFINE new == InsertAt(t, p + 1, i)
  <1>1. /\ t \in Seq(1..n) /\ Len(t) = i - 1
        /\ \A m \in 1..(i - 1) : t[m] \in 1..(i - 1)
        /\ \A j \in 1..(i - 1) : \E m \in 1..(i - 1) : t[m] = j
    BY Zenon DEF Arranged
  <1> DEFINE q == p + 1
  <1>2. q \in 1..(Len(t) + 1) /\ q = p + 1
    BY <1>1
  <1> HIDE DEF q
  <1>3. /\ new \in Seq(1..n) /\ Len(new) = Len(t) + 1
        /\ \A m \in 1..(Len(t) + 1) :
              new[m] = IF m < q THEN t[m] ELSE IF m = q THEN i ELSE t[m - 1]
    <2> DEFINE S == 1..n
    <2>1. new = InsertAt(t, q, i)
      BY DEF q
    <2>2. t \in Seq(S) /\ i \in S
      BY <1>1
    <2>3. q \in 1..(Len(t) + 1)
      BY <1>2
    <2> HIDE DEF new, S
    <2>4. /\ InsertAt(t, q, i) \in Seq(S) /\ Len(InsertAt(t, q, i)) = Len(t) + 1
          /\ \A m \in 1..(Len(t) + 1) :
                 InsertAt(t, q, i)[m] = IF m < q THEN t[m] ELSE IF m = q THEN i ELSE t[m - 1]
      BY <2>2, <2>3, InsertedIs
    <2> QED BY <2>1, <2>4 DEF S
  <1> HIDE DEF new
  <1>4. /\ new \in Seq(1..n) /\ Len(new) = i
        /\ \A m \in 1..p : new[m] = t[m]
        /\ new[p + 1] = i
        /\ \A m \in (p + 2)..i : new[m] = t[m - 1]
    <2>1. Len(t) + 1 = i
      BY <1>1
    <2>2. \A m \in 1..i : new[m] = IF m < q THEN t[m] ELSE IF m = q THEN i ELSE t[m - 1]
      BY <1>3, <2>1
    <2>3. new \in Seq(1..n) /\ Len(new) = i
      BY <1>3, <2>1
    <2>4. q \in 1..i
      BY <1>2
    <2>5. ASSUME NEW m \in 1..p
          PROVE  new[m] = t[m]
      <3>1. m \in 1..i /\ m < q
        BY <1>2
      <3> QED BY <2>2, <3>1
    <2>6. new[p + 1] = i
      BY <1>2, <2>2, <2>4
    <2>7. ASSUME NEW m \in (p + 2)..i
          PROVE  new[m] = t[m - 1]
      <3>1. m \in 1..i /\ ~(m < q) /\ m # q
        BY <1>2
      <3> QED BY <2>2, <3>1
    <2> QED BY <2>3, <2>5, <2>6, <2>7
  <1>5. ASSUME NEW j \in 1..i
        PROVE  \E m \in 1..i : new[m] = j
    <2>1. CASE j = i
      BY <1>4, <2>1
    <2>2. CASE j # i
      <3>1. PICK m \in 1..(i - 1) : t[m] = j
        <4>1. j \in 1..(i - 1)
          BY <2>2
        <4> QED BY <1>1, <4>1
      <3>2. CASE m <= p
        <4>1. m \in 1..p /\ m \in 1..i
          BY <3>2
        <4> QED BY <1>4, <3>1, <4>1
      <3>3. CASE m > p
        <4>1. m + 1 \in (p + 2)..i /\ m + 1 \in 1..i /\ (m + 1) - 1 = m
          BY <3>3
        <4> QED BY <1>4, <3>1, <4>1
      <3> QED BY <3>2, <3>3
    <2> QED BY <2>1, <2>2
  <1>6. ASSUME NEW m \in 1..i
         PROVE  new[m] \in 1..i
    <2>1. CASE m <= p
      <3>1. m \in 1..p /\ m \in 1..(i - 1)
        BY <2>1
      <3>2. t[m] \in 1..(i - 1)
        BY <1>1, <3>1
      <3>3. new[m] = t[m]
        BY <1>4, <3>1
      <3> QED BY <3>2, <3>3
    <2>2. CASE m = p + 1
      BY <1>4, <2>2
    <2>3. CASE m > p + 1
      <3>1. m \in (p + 2)..i /\ m - 1 \in 1..(i - 1)
        BY <2>3
      <3>2. t[m - 1] \in 1..(i - 1)
        BY <1>1, <3>1
      <3>3. new[m] = t[m - 1]
        BY <1>4, <3>1
      <3> QED BY <3>2, <3>3
    <2> QED BY <2>1, <2>2, <2>3
  <1>7. Arranged(new, i, n)
    BY <1>4, <1>5, <1>6 DEF Arranged
  <1> QED BY <1>7 DEF new

(* Where Ranked puts an index: behind the last of no smaller key.             *)
Place(t, i, key) ==
    LET last == {m \in 1..Len(t) : key[t[m]] >= key[i]}
    IN  IF last # {} THEN Max(last) ELSE 0

(* It is behind an index, or first.                                          *)
LEMMA PlaceIs ==
    ASSUME NEW n \in Nat, NEW key, NEW t, Len(t) = n, NEW i
    PROVE  Place(t, i, key) \in 0..n
  <1> DEFINE last == {m \in 1..Len(t) : key[t[m]] >= key[i]}
             p == Place(t, i, key)
  <1>1. last \subseteq 1..n
    OBVIOUS
  <1>2. p = IF last # {} THEN Max(last) ELSE 0
    BY Zenon DEF Place
  <1> HIDE DEF last, p
  <1>3. last # {} => Max(last) \in last
    BY <1>1, MaxOfIndices
  <1>4. p \in 0..n
    <2>1. last # {} => p \in 1..n
      BY <1>1, <1>2, <1>3
    <2>2. last = {} => p = 0
      BY <1>2
    <2> QED BY <2>1, <2>2
  <1> QED BY <1>4, Zenon DEF p

(* The elements of s, in some order.                                         *)
IsRanking(new, s, n) ==
    \E order \in [1..n -> 1..n] :
        /\ new = [k \in 1..n |-> s[order[k]]]
        /\ \A i \in 1..n : \E k \in 1..n : order[k] = i

(* Ranked moves the elements, and loses none, whatever their keys are.        *)
LEMMA RankedIs ==
    ASSUME NEW s, NEW n \in Nat, DOMAIN s = 1..n, NEW key
    PROVE  IsRanking(Ranked(s, key), s, n)
  <1> DEFINE I == 1..n
             T == Seq(I)
             Insert(order, i) ==
                LET Before(j) == key[j] >= key[i]
                IN  InsertAt(order, SelectLastInSeq(order, Before) + 1, i)
             step == [t \in T |-> [i \in 1..n |-> InsertAt(t, Place(t, i, key) + 1, i)]]
             ids == [i \in DOMAIN s |-> i]
             IsFold(f) == f = [x \in SUBSET DOMAIN ids |->
                                  IF x = {} THEN <<>> ELSE Insert(f[x \ {Max(x)}], ids[Max(x)])]
             fold == CHOOSE f : IsFold(f)
  <1>1. n \in Nat /\ DOMAIN ids = 1..n /\ \A i \in 1..n : ids[i] = i
    OBVIOUS
  <1>2. Ranked(s, key) = [k \in 1..n |-> s[fold[1..n][k]]]
    <2>1. Ranked(s, key) = [k \in DOMAIN s |-> s[fold[DOMAIN ids][k]]]
      BY DEF Ranked, FoldLeftDomain, FoldLeft, MapThenFoldSet
    <2> HIDE DEF fold, ids
    <2> QED BY <1>1, <2>1
  <1>3. \A t, i : Insert(t, i) = InsertAt(t, Place(t, i, key) + 1, i)
    BY DEF SelectLastInSeq, Place
  <1> HIDE DEF Insert
  <1>4. <<>> \in T /\ \A t \in T, i \in 1..n : InsertAt(t, Place(t, i, key) + 1, i) \in T
    <2>1. <<>> \in T
      OBVIOUS
    <2>2. ASSUME NEW t \in T, NEW i \in 1..n
          PROVE  InsertAt(t, Place(t, i, key) + 1, i) \in T
      <3> DEFINE q == Place(t, i, key) + 1
      <3>1. t \in Seq(I) /\ i \in I /\ Len(t) \in Nat
        OBVIOUS
      <3> HIDE DEF I
      <3>2. q \in 1..(Len(t) + 1)
        <4>1. Place(t, i, key) \in 0..Len(t)
          BY <3>1, PlaceIs
        <4> QED BY <3>1, <4>1
      <3> HIDE DEF q
      <3>3. InsertAt(t, q, i) \in Seq(I)
        BY <3>1, <3>2, InsertedIs
      <3> QED BY <3>3 DEF q
    <2> QED BY <2>1, <2>2
  <1>5. /\ step \in [T -> [1..n -> T]]
        /\ \A t \in T, i \in 1..n : step[t][i] = InsertAt(t, Place(t, i, key) + 1, i)
    <2> HIDE DEF T
    <2> QED BY <1>4
  <1> HIDE DEF I, T, step, ids
  <1>6. IsStep(n, T, <<>>, step)
    BY <1>1, <1>4, <1>5 DEF IsStep
  <1>7. PICK g \in [SUBSET (1..n) -> T] : Folds(g, n, <<>>, step)
    BY <1>6, Folding
  <1>8. IsFold(g)
    <2>1. ASSUME NEW x \in SUBSET (1..n), x # {}
          PROVE  g[x] = Insert(g[x \ {Max(x)}], ids[Max(x)])
      <3>1. g[x] = step[g[x \ {Max(x)}]][Max(x)]
        BY <1>7, <2>1 DEF Folds
      <3>2. Max(x) \in 1..n /\ x \ {Max(x)} \in SUBSET (1..n)
        BY <1>1, <2>1, LastIndex
      <3>3. g[x \ {Max(x)}] \in T
        BY <1>7, <3>2
      <3> QED BY <1>1, <1>3, <1>5, <3>1, <3>2, <3>3
    <2>2. g[{}] = <<>> /\ g = [x \in SUBSET (1..n) |-> g[x]]
      BY <1>7 DEF Folds
    <2> QED BY <1>1, <2>1, <2>2
  <1>9. IsFold(fold)
    <2> HIDE DEF IsFold
    <2> QED BY <1>8
  <1>10. FoldsIn(fold, n, T, <<>>, step)
    <2> HIDE DEF fold
    <2>1. \A x \in SUBSET (1..n) :
              fold[x] = IF x = {} THEN <<>> ELSE Insert(fold[x \ {Max(x)}], ids[Max(x)])
      BY <1>1, <1>9
    <2>2. ASSUME NEW x \in SUBSET (1..n), x # {}, fold[x \ {Max(x)}] \in T
          PROVE  fold[x] = step[fold[x \ {Max(x)}]][Max(x)]
      <3>1. Max(x) \in 1..n /\ ids[Max(x)] = Max(x)
        BY <1>1, <2>2, LastIndex
      <3>2. fold[x] = Insert(fold[x \ {Max(x)}], Max(x))
        BY <2>1, <2>2, <3>1
      <3> QED BY <1>3, <1>5, <2>2, <3>1, <3>2
    <2>3. fold[{}] = <<>>
      BY <2>1
    <2> QED BY <2>2, <2>3 DEF FoldsIn
  <1> HIDE DEF fold
  <1>11. PICK h \in [0..n -> T] : Leads(h, n, <<>>, step) /\ h[n] = fold[1..n]
    <2>1. Reaches(fold, n, T, <<>>, step)
      BY <1>6, <1>10, FoldsTo
    <2> QED BY <2>1 DEF Reaches
  <1> DEFINE P == {k \in 0..n : Arranged(h[k], k, n)}
  <1>12. 0 \in P
    <2>1. <<>> \in Seq(1..n) /\ Len(<<>>) = 0 /\ 1..0 = {}
      OBVIOUS
    <2>2. Arranged(<<>>, 0, n)
      BY <2>1 DEF Arranged
    <2> QED BY <1>11, <2>2 DEF Leads
  <1>13. ASSUME NEW k \in 1..n, k - 1 \in P
         PROVE  k \in P
    <2> DEFINE t == h[k - 1]
               p == Place(t, k, key)
    <2>1. Arranged(t, k - 1, n) /\ t \in T
      BY <1>11, <1>13
    <2>2. h[k] = InsertAt(t, p + 1, k)
      BY <1>5, <1>11, <2>1 DEF Leads
    <2> HIDE DEF t
    <2>3. Len(t) = k - 1 /\ k - 1 \in Nat
      BY <2>1 DEF Arranged
    <2>4. p \in 0..(k - 1)
      BY <2>3, PlaceIs
    <2> HIDE DEF p
    <2>5. Arranged(InsertAt(t, p + 1, k), k, n)
      BY <2>1, <2>4, ArrangedStays
    <2> QED BY <2>2, <2>5
  <1>14. n \in P
    <2>1. \A k \in 1..n : k - 1 \in P => k \in P
      BY <1>13
    <2> HIDE DEF P
    <2>2. \A k \in 0..n : k \in P
      BY <1>12, <2>1, Induct
    <2> QED BY <2>2
  <1> DEFINE order == fold[1..n]
  <1>15. Arranged(order, n, n)
    BY <1>11, <1>14
  <1>16. Ranked(s, key) = [k \in 1..n |-> s[order[k]]]
    BY <1>2
  <1> HIDE DEF order
  <1>17. /\ order \in [1..n -> 1..n]
         /\ \A i \in 1..n : \E k \in 1..n : order[k] = i
    <2>1. /\ order \in Seq(1..n) /\ Len(order) = n
          /\ \A i \in 1..n : \E k \in 1..n : order[k] = i
      BY <1>15, Zenon DEF Arranged
    <2>2. order \in [1..n -> 1..n]
      <3>1. order \in Seq(1..n) /\ Len(order) = n
        BY <2>1
      <3> QED BY <3>1
    <2> QED BY <2>1, <2>2
  <1> QED BY <1>16, <1>17 DEF IsRanking

(* The boxes are tiles of the areas.                                         *)
LEMMA BoxesAre ==
    ASSUME NEW B, NEW areas, NEW n \in Nat, DOMAIN areas = 1..n, NEW side,
           \A k \in 1..n : TilesIn(areas[k], side, Max({8, side \div 2})) \in Seq(B)
    PROVE  Boxes(areas, side) \in Seq(B)
  <1> DEFINE T == Seq(B)
             Add(boxes, area) == boxes \o TilesIn(area, side, Max({8, side \div 2}))
             step == [t \in T |-> [k \in 1..n |-> Add(t, areas[k])]]
             IsFold(f) == f = [x \in SUBSET DOMAIN areas |->
                                  IF x = {} THEN <<>> ELSE Add(f[x \ {Max(x)}], areas[Max(x)])]
             fold == CHOOSE f : IsFold(f)
  <1>1. n \in Nat /\ DOMAIN areas = 1..n
    OBVIOUS
  <1>2. Boxes(areas, side) = fold[1..n]
    <2>1. Boxes(areas, side) = fold[DOMAIN areas]
      BY DEF Boxes, FoldLeft, MapThenFoldSet
    <2> HIDE DEF fold
    <2> QED BY <1>1, <2>1
  <1>3. <<>> \in T /\ \A t \in T, k \in 1..n : Add(t, areas[k]) \in T
    <2>1. <<>> \in T
      OBVIOUS
    <2>2. ASSUME NEW t \in T, NEW k \in 1..n
          PROVE  Add(t, areas[k]) \in T
      <3> DEFINE more == TilesIn(areas[k], side, Max({8, side \div 2}))
      <3>1. t \in Seq(B) /\ more \in Seq(B)
        OBVIOUS
      <3> HIDE DEF more
      <3>2. t \o more \in Seq(B)
        BY <3>1, ConcatIs
      <3> QED BY <3>2 DEF more
    <2> QED BY <2>1, <2>2
  <1>4. step \in [T -> [1..n -> T]] /\ \A t \in T, k \in 1..n : step[t][k] = Add(t, areas[k])
    <2> HIDE DEF T, Add
    <2> QED BY <1>3
  <1> HIDE DEF T, Add, step
  <1>5. IsStep(n, T, <<>>, step)
    BY <1>1, <1>3, <1>4 DEF IsStep
  <1>6. PICK g \in [SUBSET (1..n) -> T] : Folds(g, n, <<>>, step)
    BY <1>5, Folding
  <1>7. IsFold(g)
    <2>1. ASSUME NEW x \in SUBSET (1..n), x # {}
          PROVE  g[x] = Add(g[x \ {Max(x)}], areas[Max(x)])
      <3>1. g[x] = step[g[x \ {Max(x)}]][Max(x)]
        BY <1>6, <2>1 DEF Folds
      <3>2. Max(x) \in 1..n /\ x \ {Max(x)} \in SUBSET (1..n)
        BY <1>1, <2>1, LastIndex
      <3>3. g[x \ {Max(x)}] \in T
        BY <1>6, <3>2
      <3> QED BY <1>4, <3>1, <3>2, <3>3
    <2>2. g[{}] = <<>> /\ g = [x \in SUBSET (1..n) |-> g[x]]
      BY <1>6 DEF Folds
    <2> QED BY <1>1, <2>1, <2>2
  <1>8. IsFold(fold)
    <2> HIDE DEF IsFold
    <2> QED BY <1>7
  <1>9. FoldsIn(fold, n, T, <<>>, step)
    <2> HIDE DEF fold
    <2>1. \A x \in SUBSET (1..n) :
              fold[x] = IF x = {} THEN <<>> ELSE Add(fold[x \ {Max(x)}], areas[Max(x)])
      BY <1>1, <1>8
    <2>2. ASSUME NEW x \in SUBSET (1..n), x # {}, fold[x \ {Max(x)}] \in T
          PROVE  fold[x] = step[fold[x \ {Max(x)}]][Max(x)]
      <3>1. Max(x) \in 1..n
        BY <1>1, <2>2, LastIndex
      <3>2. fold[x] = Add(fold[x \ {Max(x)}], areas[Max(x)])
        BY <2>1, <2>2
      <3> QED BY <1>4, <2>2, <3>1, <3>2
    <2>3. fold[{}] = <<>>
      BY <2>1
    <2> QED BY <2>2, <2>3 DEF FoldsIn
  <1> HIDE DEF fold
  <1>10. PICK h \in [0..n -> T] : Leads(h, n, <<>>, step) /\ h[n] = fold[1..n]
    <2>1. Reaches(fold, n, T, <<>>, step)
      BY <1>5, <1>9, FoldsTo
    <2> QED BY <2>1 DEF Reaches
  <1>11. n \in 0..n
    BY <1>1
  <1> QED BY <1>2, <1>10, <1>11 DEF T

(* The total is at least what any of the clusters adds to it.                 *)
LEMMA TotalIs ==
    ASSUME NEW kept, NEW n \in Nat, DOMAIN kept = 1..n, \A i \in 1..n : Len(kept[i]) \in Nat
    PROVE  LET Plus(m, cluster) == m + Len(cluster)
               total == FoldLeft(Plus, 0, kept)
           IN  total \in Nat /\ \A i \in 1..n : Len(kept[i]) <= total
  <1> DEFINE T == Nat
             Plus(m, cluster) == m + Len(cluster)
             total == FoldLeft(Plus, 0, kept)
             step == [t \in T |-> [k \in 1..n |-> Plus(t, kept[k])]]
             IsFold(f) == f = [x \in SUBSET DOMAIN kept |->
                                  IF x = {} THEN 0 ELSE Plus(f[x \ {Max(x)}], kept[Max(x)])]
             fold == CHOOSE f : IsFold(f)
  <1>1. n \in Nat /\ DOMAIN kept = 1..n
    OBVIOUS
  <1>2. total = fold[1..n]
    <2>1. total = fold[DOMAIN kept]
      BY DEF FoldLeft, MapThenFoldSet
    <2> HIDE DEF fold, total
    <2> QED BY <1>1, <2>1
  <1>3. 0 \in T /\ \A t \in T, k \in 1..n : Plus(t, kept[k]) \in T
    OBVIOUS
  <1>4. step \in [T -> [1..n -> T]] /\ \A t \in T, k \in 1..n : step[t][k] = Plus(t, kept[k])
    <2> HIDE DEF T, Plus
    <2> QED BY <1>3
  <1> HIDE DEF T, Plus, step, total
  <1>5. IsStep(n, T, 0, step)
    BY <1>1, <1>3, <1>4 DEF IsStep
  <1>6. PICK g \in [SUBSET (1..n) -> T] : Folds(g, n, 0, step)
    BY <1>5, Folding
  <1>7. IsFold(g)
    <2>1. ASSUME NEW x \in SUBSET (1..n), x # {}
          PROVE  g[x] = Plus(g[x \ {Max(x)}], kept[Max(x)])
      <3>1. g[x] = step[g[x \ {Max(x)}]][Max(x)]
        BY <1>6, <2>1 DEF Folds
      <3>2. Max(x) \in 1..n /\ x \ {Max(x)} \in SUBSET (1..n)
        BY <1>1, <2>1, LastIndex
      <3>3. g[x \ {Max(x)}] \in T
        BY <1>6, <3>2
      <3> QED BY <1>4, <3>1, <3>2, <3>3
    <2>2. g[{}] = 0 /\ g = [x \in SUBSET (1..n) |-> g[x]]
      BY <1>6 DEF Folds
    <2> QED BY <1>1, <2>1, <2>2
  <1>8. IsFold(fold)
    <2> HIDE DEF IsFold
    <2> QED BY <1>7
  <1>9. FoldsIn(fold, n, T, 0, step)
    <2> HIDE DEF fold
    <2>1. \A x \in SUBSET (1..n) :
              fold[x] = IF x = {} THEN 0 ELSE Plus(fold[x \ {Max(x)}], kept[Max(x)])
      BY <1>1, <1>8
    <2>2. ASSUME NEW x \in SUBSET (1..n), x # {}, fold[x \ {Max(x)}] \in T
          PROVE  fold[x] = step[fold[x \ {Max(x)}]][Max(x)]
      <3>1. Max(x) \in 1..n
        BY <1>1, <2>2, LastIndex
      <3>2. fold[x] = Plus(fold[x \ {Max(x)}], kept[Max(x)])
        BY <2>1, <2>2
      <3> QED BY <1>4, <2>2, <3>1, <3>2
    <2>3. fold[{}] = 0
      BY <2>1
    <2> QED BY <2>2, <2>3 DEF FoldsIn
  <1> HIDE DEF fold
  <1>10. PICK h \in [0..n -> T] : Leads(h, n, 0, step) /\ h[n] = fold[1..n]
    <2>1. Reaches(fold, n, T, 0, step)
      BY <1>5, <1>9, FoldsTo
    <2> QED BY <2>1 DEF Reaches
  <1>11. ASSUME NEW k \in 1..n
         PROVE  /\ h[k] = h[k - 1] + Len(kept[k])
                /\ h[k] \in Nat /\ h[k - 1] \in Nat /\ Len(kept[k]) \in Nat
    <2>1. k - 1 \in 0..n /\ k \in 0..n
      OBVIOUS
    <2>2. h[k - 1] \in T /\ h[k] \in T
      BY <2>1
    <2>3. h[k] = Plus(h[k - 1], kept[k])
      BY <1>4, <1>10, <2>2 DEF Leads
    <2> QED BY <2>2, <2>3 DEF T, Plus
  <1> DEFINE P == {m \in 0..n : \A i \in 1..m : Len(kept[i]) <= h[m]}
  <1>12. 0 \in P
    <2>1. 1..0 = {}
      OBVIOUS
    <2> QED BY <2>1
  <1>13. ASSUME NEW m \in 1..n, m - 1 \in P
         PROVE  m \in P
    <2>1. ASSUME NEW i \in 1..m
          PROVE  Len(kept[i]) <= h[m]
      <3>1. CASE i = m
        BY <1>11, <3>1
      <3>2. CASE i # m
        <4>1. i \in 1..(m - 1) /\ i \in 1..n
          BY <3>2
        <4>2. Len(kept[i]) <= h[m - 1] /\ Len(kept[i]) \in Nat
          BY <1>11, <1>13, <4>1
        <4>3. h[m] = h[m - 1] + Len(kept[m]) /\ h[m - 1] \in Nat /\ Len(kept[m]) \in Nat
          BY <1>11
        <4> HIDE DEF P
        <4> DEFINE before == h[m - 1]
                   added == Len(kept[m])
                   own == Len(kept[i])
        <4>4. own <= before /\ own \in Nat /\ before \in Nat /\ added \in Nat /\ h[m] = before + added
          BY <4>2, <4>3
        <4> HIDE DEF before, added, own
        <4>5. own <= h[m]
          BY <4>4
        <4> QED BY <4>5 DEF own
      <3> QED BY <3>1, <3>2
    <2> QED BY <2>1
  <1>14. n \in P
    <2>1. \A m \in 1..n : m - 1 \in P => m \in P
      BY <1>13
    <2> HIDE DEF P
    <2>2. \A m \in 0..n : m \in P
      BY <1>12, <2>1, Induct
    <2> QED BY <2>2
  <1>15. total = h[n] /\ h[n] \in T
    BY <1>2, <1>10
  <1> QED BY <1>14, <1>15 DEF T, total, Plus

-----------------------------------------------------------------------------
(* Clusters.                                                                 *)

(* What Clusters makes of tiles: clusters with a tile at least.               *)
Groups(TT) == Seq(TT) \ {<<>>}

(* Of a cluster, in numbers.                                                 *)
LEMMA GroupIs ==
    ASSUME NEW TT, NEW c \in Groups(TT)
    PROVE  /\ c \in Seq(TT) /\ Len(c) \in Nat \ {0} /\ DOMAIN c = 1..Len(c)
           /\ \A i \in 1..Len(c) : c[i] \in TT
  <1>1. c \in Seq(TT) /\ c # <<>>
    BY DEF Groups
  <1> QED BY <1>1

(* A tile is a cluster, and one with another tile is.                         *)
LEMMA GroupGrows ==
    ASSUME NEW TT, NEW t \in TT
    PROVE  /\ <<t>> \in Groups(TT)
           /\ \A c \in Groups(TT) : Append(c, t) \in Groups(TT)
  <1>1. <<t>> \in Seq(TT) /\ <<t>> # <<>>
    OBVIOUS
  <1>2. ASSUME NEW c \in Groups(TT)
        PROVE  Append(c, t) \in Seq(TT) /\ Append(c, t) # <<>>
    <2>1. c \in Seq(TT)
      BY DEF Groups
    <2>2. Len(Append(c, t)) = Len(c) + 1 /\ Len(c) \in Nat
      BY <2>1
    <2>3. Append(c, t) \in Seq(TT)
      BY <2>1
    <2>4. Append(c, t) # <<>>
      BY <2>2, <2>3
    <2> QED BY <2>3, <2>4
  <1>3. \A c : c \in Groups(TT) <=> c \in Seq(TT) /\ c # <<>>
    BY DEF Groups
  <1> QED BY <1>1, <1>2, <1>3, Zenon

(* A ranking has the elements of the sequence, and as many.                   *)
LEMMA RankedIn ==
    ASSUME NEW S, NEW s \in Seq(S), NEW n, n = Len(s), NEW key
    PROVE  /\ Ranked(s, key) \in Seq(S) /\ Len(Ranked(s, key)) = n
           /\ \A k \in 1..n : \E i \in 1..n : Ranked(s, key)[k] = s[i]
  <1>1. n \in Nat /\ DOMAIN s = 1..n /\ \A i \in 1..n : s[i] \in S
    OBVIOUS
  <1> DEFINE new == Ranked(s, key)
  <1>2. IsRanking(new, s, n)
    BY <1>1, RankedIs
  <1> HIDE DEF new
  <1>3. PICK order \in [1..n -> 1..n] : new = [k \in 1..n |-> s[order[k]]]
    BY <1>2 DEF IsRanking
  <1>4. \A k \in 1..n : order[k] \in 1..n /\ new[k] = s[order[k]] /\ new[k] \in S
    BY <1>1, <1>3
  <1>5. new = [k \in 1..n |-> new[k]]
    BY <1>3, <1>4
  <1>6. new \in Seq(S) /\ Len(new) = n
    BY <1>1, <1>4, <1>5
  <1> QED BY <1>4, <1>6 DEF new

(* A tile joins a cluster, or is a cluster of its own.                         *)
LEMMA JoinedIs ==
    ASSUME NEW TT, NEW structure, NEW clusters \in Seq(Groups(TT)), NEW t \in TT
    PROVE  /\ Joined(clusters, t, Near(clusters, t, structure)) \in Seq(Groups(TT))
           /\ Joined(clusters, t, Near(clusters, t, structure)) # <<>>
  <1> DEFINE G == Groups(TT)
             near == Near(clusters, t, structure)
             new == Joined(clusters, t, near)
  <1>1. <<t>> \in G /\ \A c \in G : Append(c, t) \in G
    BY GroupGrows
  <1>2. near \subseteq DOMAIN clusters
    BY DEF Near
  <1>3. clusters \in Seq(G)
    OBVIOUS
  <1>4. DOMAIN clusters = 1..Len(clusters) /\ Len(clusters) \in Nat
    BY <1>3
  <1>5. CASE clusters = <<>> \/ near = {}
    <2>1. new = Append(clusters, <<t>>)
      BY <1>5 DEF Joined
    <2> HIDE DEF G, near, new
    <2>2. new \in Seq(G) /\ new # <<>>
      BY <1>1, <1>3, <2>1
    <2> QED BY <2>2 DEF G, near, new
  <1>6. CASE ~(clusters = <<>> \/ near = {})
    <2> DEFINE i == Min(near)
               more == Append(clusters[i], t)
    <2>1. new = [clusters EXCEPT ![i] = more]
      BY <1>6 DEF Joined
    <2> HIDE DEF near
    <2>2. near \subseteq Nat /\ near # {}
      BY <1>2, <1>4, <1>6
    <2>3. i \in near
      BY <2>2, MinOfNumbers
    <2>4. i \in 1..Len(clusters)
      BY <1>2, <1>4, <2>3
    <2> HIDE DEF i, G
    <2>5. clusters[i] \in G
      BY <1>3, <2>4
    <2>6. more \in G
      BY <1>1, <2>5
    <2> HIDE DEF new, more
    <2>7. new \in Seq(G) /\ new # <<>>
      BY <1>3, <2>1, <2>4, <2>6
    <2> QED BY <2>7 DEF G, near, new
  <1> QED BY <1>5, <1>6

(* _cluster_tiles makes clusters that are not empty, and one at least.        *)
LEMMA ClustersAre ==
    ASSUME NEW TT, NEW structure, NEW tiles \in Seq(TT), tiles # <<>>
    PROVE  /\ Clusters(tiles, structure) \in Seq(Groups(TT))
           /\ Clusters(tiles, structure) # <<>>
  <1> DEFINE n == Len(tiles)
             quality == [i \in DOMAIN tiles |-> tiles[i].quality]
             sorted == Ranked(tiles, quality)
             G == Groups(TT)
             T == Seq(G)
             Put(clusters, tile) == Joined(clusters, tile, Near(clusters, tile, structure))
             clusters == FoldLeft(Put, <<>>, sorted)
             size == [i \in DOMAIN clusters |-> Len(clusters[i])]
             step == [t \in T |-> [k \in 1..n |-> Put(t, sorted[k])]]
             IsFold(f) == f = [x \in SUBSET DOMAIN sorted |->
                                  IF x = {} THEN <<>> ELSE Put(f[x \ {Max(x)}], sorted[Max(x)])]
             fold == CHOOSE f : IsFold(f)
  <1>a. n \in Nat \ {0} /\ DOMAIN tiles = 1..n /\ \A i \in 1..n : tiles[i] \in TT
    OBVIOUS
  <1>b. Clusters(tiles, structure) = Ranked(clusters, size)
    BY DEF Clusters
  <1>c. sorted \in Seq(TT) /\ Len(sorted) = n
    <2>1. n = Len(tiles)
      OBVIOUS
    <2> HIDE DEF n, quality
    <2> QED BY <2>1, RankedIn
  <1> HIDE DEF n, quality, sorted
  <1>1. n \in Nat /\ DOMAIN sorted = 1..n /\ \A k \in 1..n : sorted[k] \in TT
    BY <1>a, <1>c
  <1>2. clusters = fold[1..n]
    <2>1. clusters = fold[DOMAIN sorted]
      BY DEF FoldLeft, MapThenFoldSet
    <2> HIDE DEF fold, clusters
    <2> QED BY <1>1, <2>1
  <1>d. ASSUME NEW t \in T, NEW k \in 1..n
        PROVE  Put(t, sorted[k]) \in T /\ Put(t, sorted[k]) # <<>>
    <2>1. sorted[k] \in TT
      BY <1>1
    <2> QED BY <2>1, JoinedIs
  <1>3. <<>> \in T /\ \A t \in T, k \in 1..n : Put(t, sorted[k]) \in T
    <2>1. <<>> \in T
      OBVIOUS
    <2> HIDE DEF T, Put
    <2> QED BY <1>d, <2>1
  <1>4. step \in [T -> [1..n -> T]] /\ \A t \in T, k \in 1..n : step[t][k] = Put(t, sorted[k])
    <2> HIDE DEF T, Put
    <2> QED BY <1>3
  <1> HIDE DEF T, Put, step, clusters
  <1>5. IsStep(n, T, <<>>, step)
    BY <1>1, <1>3, <1>4 DEF IsStep
  <1>6. PICK g \in [SUBSET (1..n) -> T] : Folds(g, n, <<>>, step)
    BY <1>5, Folding
  <1>7. IsFold(g)
    <2>1. ASSUME NEW x \in SUBSET (1..n), x # {}
          PROVE  g[x] = Put(g[x \ {Max(x)}], sorted[Max(x)])
      <3>1. g[x] = step[g[x \ {Max(x)}]][Max(x)]
        BY <1>6, <2>1 DEF Folds
      <3>2. Max(x) \in 1..n /\ x \ {Max(x)} \in SUBSET (1..n)
        BY <1>1, <2>1, LastIndex
      <3>3. g[x \ {Max(x)}] \in T
        BY <1>6, <3>2
      <3> QED BY <1>4, <3>1, <3>2, <3>3
    <2>2. g[{}] = <<>> /\ g = [x \in SUBSET (1..n) |-> g[x]]
      BY <1>6 DEF Folds
    <2> QED BY <1>1, <2>1, <2>2
  <1>8. IsFold(fold)
    <2> HIDE DEF IsFold
    <2> QED BY <1>7
  <1>9. FoldsIn(fold, n, T, <<>>, step)
    <2> HIDE DEF fold
    <2>1. \A x \in SUBSET (1..n) :
              fold[x] = IF x = {} THEN <<>> ELSE Put(fold[x \ {Max(x)}], sorted[Max(x)])
      BY <1>1, <1>8
    <2>2. ASSUME NEW x \in SUBSET (1..n), x # {}, fold[x \ {Max(x)}] \in T
          PROVE  fold[x] = step[fold[x \ {Max(x)}]][Max(x)]
      <3>1. Max(x) \in 1..n
        BY <1>1, <2>2, LastIndex
      <3>2. fold[x] = Put(fold[x \ {Max(x)}], sorted[Max(x)])
        BY <2>1, <2>2
      <3> QED BY <1>4, <2>2, <3>1, <3>2
    <2>3. fold[{}] = <<>>
      BY <2>1
    <2> QED BY <2>2, <2>3 DEF FoldsIn
  <1> HIDE DEF fold
  <1>10. PICK h \in [0..n -> T] : Leads(h, n, <<>>, step) /\ h[n] = fold[1..n]
    <2>1. Reaches(fold, n, T, <<>>, step)
      BY <1>5, <1>9, FoldsTo
    <2> QED BY <2>1 DEF Reaches
  <1>11. h[n] \in T /\ h[n] # <<>>
    <2>1. n \in 1..n /\ n \in 0..n /\ n - 1 \in 0..n
      BY <1>a
    <2>2. h[n - 1] \in T
      BY <2>1
    <2>3. h[n] = Put(h[n - 1], sorted[n])
      BY <1>4, <1>10, <2>1, <2>2 DEF Leads
    <2> QED BY <1>d, <2>1, <2>2, <2>3
  <1>12. clusters \in Seq(G) /\ clusters # <<>>
    BY <1>2, <1>10, <1>11 DEF T
  <1> DEFINE m == Len(clusters)
  <1> HIDE DEF G
  <1>13. m \in Nat \ {0}
    BY <1>12
  <1>14. m = Len(clusters)
    OBVIOUS
  <1> HIDE DEF m, size
  <1>15. Ranked(clusters, size) \in Seq(G) /\ Len(Ranked(clusters, size)) = m
    BY <1>12, <1>14, RankedIn
  <1>16. Clusters(tiles, structure) \in Seq(G) /\ Len(Clusters(tiles, structure)) = m
    BY <1>b, <1>15
  <1>17. Clusters(tiles, structure) # <<>>
    BY <1>13, <1>16
  <1> QED BY <1>16, <1>17 DEF G

(* The tile that is shown for a cluster is one of it.                         *)
LEMMA ValueIs ==
    ASSUME NEW TT, NEW c \in Groups(TT), NEW weight, NEW size
    PROVE  /\ ClusterValue(c, weight, size).weight = weight
           /\ \E t \in TT :
                 ClusterValue(c, weight, size).box = Normalized(t.box, size.width, size.height)
  <1> DEFINE n == Len(c)
             closeness == [i \in DOMAIN c |-> -LabDistance(Twice(c[i].lab), Center(c))]
             sorted == Ranked(c, closeness)
             value == ClusterValue(c, weight, size)
  <1>1. c \in Seq(TT) /\ n \in Nat \ {0} /\ n = Len(c)
    BY GroupIs
  <1>2. /\ value.weight = weight
        /\ value.box = Normalized(sorted[1].box, size.width, size.height)
    BY DEF ClusterValue
  <1> HIDE DEF n, closeness, value
  <1>3. sorted \in Seq(TT) /\ Len(sorted) = n
    BY <1>1, RankedIn
  <1> HIDE DEF sorted
  <1>4. sorted[1] \in TT
    BY <1>1, <1>3
  <1> QED BY <1>2, <1>4 DEF value

-----------------------------------------------------------------------------
(* Profiles.                                                                 *)

(* A color of a palette: its sample is a tile.                               *)
Represents(value, TT, size) ==
    /\ 0 < value.weight[1] /\ value.weight[1] <= value.weight[2]
    /\ \E t \in TT : value.box = Normalized(t.box, size.width, size.height)

(* A profile of such colors, of as many as its structure has.                 *)
Sound(profile, TT, size) ==
    profile.known =>
        /\ profile.structure \in {"solid", "multicolor"}
        /\ profile.confidence \in 0..100
        /\ Len(profile.palette) \in (IF profile.structure = "solid" THEN {1} ELSE 2..5)
        /\ \A i \in DOMAIN profile.palette : Represents(profile.palette[i], TT, size)

(* What is made of a cluster is a color of a palette.                         *)
LEMMA ValueRepresents ==
    ASSUME NEW TT, NEW c \in Groups(TT),
           NEW part \in Nat \ {0}, NEW total \in Nat, part <= total, NEW size
    PROVE  Represents(ClusterValue(c, <<part, total>>, size), TT, size)
  <1> DEFINE weight == <<part, total>>
             value == ClusterValue(c, weight, size)
  <1>1. weight[1] = part /\ weight[2] = total
    OBVIOUS
  <1> HIDE DEF weight
  <1>2. /\ value.weight = weight
        /\ \E t \in TT : value.box = Normalized(t.box, size.width, size.height)
    BY ValueIs
  <1> HIDE DEF value
  <1>3. 0 < value.weight[1] /\ value.weight[1] <= value.weight[2]
    BY <1>1, <1>2
  <1> QED BY <1>2, <1>3 DEF Represents, value, weight

(* round(100 * part / whole), bounded, is a confidence from_dict accepts.      *)
LEMMA ConfidenceIs ==
    ASSUME NEW part \in Nat, NEW whole \in Nat \ {0}
    PROVE  Clamped(1, 100, Rounded(100 * part, whole)) \in 0..100
  <1> DEFINE n == 100 * part
  <1>1. n \in Int
    OBVIOUS
  <1> HIDE DEF n
  <1> DEFINE r == Rounded(n, whole)
  <1>2. r \in Int
    BY <1>1, RoundedIs
  <1> HIDE DEF r
  <1>3. Clamped(1, 100, r) \in Int /\ 1 <= Clamped(1, 100, r) /\ Clamped(1, 100, r) <= 100
    BY <1>2, ClampedIn
  <1>4. Clamped(1, 100, r) \in 0..100
    BY <1>3
  <1> QED BY <1>4 DEF r, n

(* The profile of a solid color has one color.                                *)
LEMMA SolidIs ==
    ASSUME NEW TT, NEW primary \in Groups(TT),
           NEW tiles \in Seq(TT), tiles # <<>>, NEW size
    PROVE  Sound(Solid(primary, tiles, size), TT, size)
  <1> DEFINE profile == Solid(primary, tiles, size)
             confidence == Clamped(1, 100, Rounded(100 * Len(primary), Len(tiles)))
             value == ClusterValue(primary, <<1, 1>>, size)
  <1>1. Len(tiles) \in Nat \ {0}
    OBVIOUS
  <1>2. Len(primary) \in Nat
    BY GroupIs
  <1>3. confidence \in 0..100
    BY <1>1, <1>2, ConfidenceIs
  <1>4. Represents(value, TT, size)
    <2>1. 1 \in Nat \ {0} /\ 1 \in Nat /\ 1 <= 1
      OBVIOUS
    <2> QED BY <2>1, ValueRepresents
  <1>5. profile = Uncertain
        \/ profile = [known |-> TRUE, structure |-> "solid",
                      confidence |-> confidence, palette |-> <<value>>]
    BY DEF Solid, Profile
  <1> HIDE DEF profile, confidence, value
  <1>6. CASE profile = Uncertain
    BY <1>6 DEF Sound, Uncertain, profile
  <1>7. CASE profile = [known |-> TRUE, structure |-> "solid",
                        confidence |-> confidence, palette |-> <<value>>]
    <2>1. /\ profile.structure = "solid" /\ profile.confidence = confidence
          /\ profile.palette = <<value>>
      BY <1>7
    <2>2. Len(profile.palette) = 1 /\ DOMAIN profile.palette = {1} /\ profile.palette[1] = value
      BY <2>1
    <2> QED BY <1>3, <1>4, <2>1, <2>2 DEF Sound, profile
  <1> QED BY <1>5, <1>6, <1>7

(* Of the clusters two to five are kept.                                     *)
LEMMA SupportedIs ==
    ASSUME NEW G, NEW clusters \in Seq(G), NEW tiles
    PROVE  Supported(clusters, tiles) \in Seq(G) /\ Len(Supported(clusters, tiles)) <= 5
  <1> DEFINE least == Max({2, (8 * Len(tiles) + 99) \div 100})
             large == Selected(clusters, {i \in DOMAIN clusters : Len(clusters[i]) >= least})
             k == Min({5, Len(large)})
  <1>1. large \in Seq(G)
    BY SelectedIs
  <1>2. Supported(clusters, tiles) = SubSeq(large, 1, k)
    BY DEF Supported
  <1> HIDE DEF large
  <1>3. k \in Nat /\ k <= 5 /\ k <= Len(large)
    <2> DEFINE n == Len(large)
    <2>1. 5 \in Int /\ n \in Int /\ n \in Nat
      BY <1>1
    <2> HIDE DEF n
    <2>2. Min({5, n}) \in {5, n} /\ Min({5, n}) <= 5 /\ Min({5, n}) <= n
      BY <2>1, MinOfTwo
    <2> QED BY <2>1, <2>2 DEF n
  <1> HIDE DEF k
  <1> QED BY <1>1, <1>2, <1>3

(* Top left first they are still the same.                                   *)
LEMMA PaletteIs ==
    ASSUME NEW TT, NEW kept \in Seq(Groups(TT)), NEW total \in Nat,
           \A i \in DOMAIN kept : Len(kept[i]) <= total, NEW size
    PROVE  /\ Len(Palette(kept, total, size)) = Len(kept)
           /\ \A i \in DOMAIN Palette(kept, total, size) :
                 Represents(Palette(kept, total, size)[i], TT, size)
  <1> DEFINE G == Groups(TT)
             n == Len(kept)
             Corner(cluster) == Min({cluster[i].box.left + cluster[i].box.top : i \in DOMAIN cluster})
             key == [i \in DOMAIN kept |-> -Corner(kept[i])]
             ranked == Ranked(kept, key)
             palette == Palette(kept, total, size)
  <1>1. n \in Nat /\ n = Len(kept) /\ DOMAIN kept = 1..n /\ kept \in Seq(G) /\ \A i \in 1..n : kept[i] \in G
    OBVIOUS
  <1>2. palette = [i \in DOMAIN ranked |-> ClusterValue(ranked[i], <<Len(ranked[i]), total>>, size)]
    BY DEF Palette
  <1>3. /\ ranked \in Seq(G) /\ Len(ranked) = n
        /\ \A k \in 1..n : \E i \in 1..n : ranked[k] = kept[i]
    <2> HIDE DEF G, n, key
    <2> QED BY <1>1, RankedIn
  <1> HIDE DEF n, key, ranked, palette
  <1>4. DOMAIN ranked = 1..n
    <2> HIDE DEF G
    <2> QED BY <1>3
  <1>5. DOMAIN palette = 1..n /\ Len(palette) = n
    BY <1>1, <1>2, <1>4
  <1>6. ASSUME NEW k \in 1..n
        PROVE  Represents(palette[k], TT, size)
    <2>1. PICK i \in 1..n : ranked[k] = kept[i]
      BY <1>3
    <2>2. kept[i] \in Groups(TT) /\ Len(kept[i]) <= total
      BY <1>1
    <2> DEFINE c == kept[i]
               part == Len(c)
    <2>3. part \in Nat \ {0}
      BY <2>2, GroupIs
    <2>4. palette[k] = ClusterValue(c, <<part, total>>, size)
      BY <1>2, <1>4, <2>1
    <2>5. c \in Groups(TT) /\ part <= total
      BY <2>2
    <2> HIDE DEF c, part
    <2> QED BY <2>3, <2>4, <2>5, ValueRepresents
  <1> QED BY <1>1, <1>5, <1>6 DEF palette

(* That of several has two to five.                                          *)
LEMMA MulticolorIs ==
    ASSUME NEW TT, NEW kept \in Seq(Groups(TT)), Len(kept) <= 5,
           NEW tiles \in Seq(TT), tiles # <<>>, NEW size
    PROVE  Sound(Multicolor(kept, tiles, size), TT, size)
  <1> DEFINE n == Len(kept)
             Plus(m, cluster) == m + Len(cluster)
             total == FoldLeft(Plus, 0, kept)
             profile == Multicolor(kept, tiles, size)
             confidence == Clamped(1, 100, Rounded(100 * total, Len(tiles)))
             palette == Palette(kept, total, size)
  <1>1. /\ n \in Nat /\ n <= 5 /\ DOMAIN kept = 1..n
        /\ \A i \in 1..n : kept[i] \in Groups(TT)
        /\ Len(tiles) \in Nat \ {0}
    OBVIOUS
  <1>2. \A i \in 1..n : Len(kept[i]) \in Nat
    BY <1>1, GroupIs
  <1>3. \/ profile = Uncertain
        \/ /\ n >= 2
           /\ profile = [known |-> TRUE, structure |-> "multicolor",
                         confidence |-> confidence, palette |-> palette]
    <2> DEFINE known == Profile("multicolor", Rounded(100 * total, Len(tiles)), palette)
    <2>1. profile = IF n < 2 THEN Uncertain ELSE known
      BY DEF Multicolor
    <2>2. known = [known |-> TRUE, structure |-> "multicolor",
                   confidence |-> confidence, palette |-> palette]
      BY DEF Profile
    <2> HIDE DEF n, profile, known, confidence, palette
    <2>3. n < 2 \/ n >= 2
      BY <1>1
    <2> QED BY <1>1, <2>1, <2>2, <2>3
  <1>4. total \in Nat /\ \A i \in 1..n : Len(kept[i]) <= total
    BY <1>1, <1>2, TotalIs
  <1> HIDE DEF total
  <1>5. confidence \in 0..100
    BY <1>1, <1>4, ConfidenceIs
  <1>6. Len(palette) = n /\ \A i \in DOMAIN palette : Represents(palette[i], TT, size)
    <2>1. \A i \in DOMAIN kept : Len(kept[i]) <= total
      BY <1>1, <1>4
    <2> QED BY <1>4, <2>1, PaletteIs
  <1> HIDE DEF n, profile, confidence, palette
  <1>7. CASE profile = Uncertain
    BY <1>7 DEF Sound, Uncertain, profile
  <1>8. CASE n >= 2 /\ profile = [known |-> TRUE, structure |-> "multicolor",
                                  confidence |-> confidence, palette |-> palette]
    <2>1. /\ profile.structure = "multicolor" /\ profile.confidence = confidence
          /\ profile.palette = palette
      BY <1>8
    <2>2. Len(profile.palette) \in 2..5
      BY <1>1, <1>6, <1>8, <2>1
    <2> QED BY <1>5, <1>6, <2>1, <2>2 DEF Sound, profile
  <1> QED BY <1>3, <1>7, <1>8

(* So has any that analyze_reference makes of tiles.                         *)
LEMMA ProfileOfTilesIs ==
    ASSUME NEW TT, NEW tiles \in Seq(TT), NEW structure, NEW size
    PROVE  Sound(ProfileOfTiles(tiles, structure, size), TT, size)
  <1> DEFINE profile == ProfileOfTiles(tiles, structure, size)
             clusters == Clusters(tiles, structure)
             G == Groups(TT)
  <1>1. Len(tiles) < 3 \/ Len(tiles) >= 3
    OBVIOUS
  <1>2. CASE Len(tiles) < 3
    <2>1. ~(Len(tiles) >= 3)
      BY <1>2
    <2>2. profile = Uncertain
      BY <1>2, <2>1, Zenon DEF ProfileOfTiles
    <2> HIDE DEF profile
    <2>3. ~profile.known
      BY <2>2 DEF Uncertain
    <2> QED BY <2>3 DEF Sound, profile
  <1>3. CASE Len(tiles) >= 3
    <2>1. tiles # <<>> /\ ~(Len(tiles) < 3)
      BY <1>3
    <2>2. clusters \in Seq(G) /\ clusters # <<>>
      BY <2>1, ClustersAre
    <2>3. CASE structure = "solid"
      <3> DEFINE primary == clusters[1]
      <3>1. primary \in G
        <4> HIDE DEF clusters, G
        <4> QED BY <2>2
      <3>2. profile = Solid(primary, tiles, size)
        BY <1>3, <2>1, <2>3, Zenon DEF ProfileOfTiles
      <3> HIDE DEF primary, profile
      <3>3. Sound(Solid(primary, tiles, size), TT, size)
        BY <2>1, <3>1, SolidIs
      <3> QED BY <3>2, <3>3 DEF profile
    <2>4. CASE structure # "solid"
      <3> DEFINE kept == Supported(clusters, tiles)
      <3>1. kept \in Seq(G) /\ Len(kept) <= 5
        <4> HIDE DEF clusters, G
        <4> QED BY <2>2, SupportedIs
      <3>2. profile = Multicolor(kept, tiles, size)
        BY <1>3, <2>1, <2>4, Zenon DEF ProfileOfTiles
      <3> HIDE DEF kept, profile
      <3>3. Sound(Multicolor(kept, tiles, size), TT, size)
        BY <2>1, <3>1, MulticolorIs
      <3> QED BY <3>2, <3>3 DEF profile
    <2> QED BY <2>3, <2>4
  <1> QED BY <1>1, <1>2, <1>3

-----------------------------------------------------------------------------
(* Tiles.                                                                    *)

(* A tile of a working copy: at least sixteen pixels of it each way.           *)
Cuttable(tile, size) ==
    /\ Inside(tile, size.width, size.height)
    /\ tile.right - tile.left >= 16 /\ tile.bottom - tile.top >= 16

(* All of them.                                                             *)
CutBoxes(size) == {box \in [left : Int, top : Int, right : Int, bottom : Int] : Cuttable(box, size)}

(* What the intake accepts and stores.                                       *)
IsPicture(picture) == picture.width \in Nat \ {0} /\ picture.height \in Nat \ {0}

(* The size of the working copy, as numbers.                                 *)
LEMMA WorkingSize ==
    ASSUME NEW picture, picture.width \in Nat \ {0}, picture.height \in Nat \ {0}
    PROVE  LET size == Working(picture)
           IN  /\ size.width \in Nat \ {0} /\ size.width <= 512 /\ size.width <= picture.width
               /\ size.height \in Nat \ {0} /\ size.height <= 512 /\ size.height <= picture.height
  <1> DEFINE size == Working(picture)
  <1>1. /\ size.width \in 1..512 /\ size.width <= picture.width
        /\ size.height \in 1..512 /\ size.height <= picture.height
    BY WorkingIs
  <1>2. \A n \in 1..512 : n \in Nat \ {0} /\ n <= 512
    OBVIOUS
  <1> HIDE DEF size
  <1>3. /\ size.width \in Nat \ {0} /\ size.width <= 512 /\ size.width <= picture.width
        /\ size.height \in Nat \ {0} /\ size.height <= 512 /\ size.height <= picture.height
    BY <1>1, <1>2, Zenon
  <1> QED BY <1>3 DEF size

(* TilesIn is a sequence of tiles that lie in the picture.                     *)
LEMMA TilesInAre ==
    ASSUME NEW size, size.width \in Nat, size.height \in Nat,
           NEW area, AreaIn(area, size.width, size.height),
           NEW side \in Nat, side >= 16, NEW stride \in Nat \ {0}
    PROVE  TilesIn(area, side, stride) \in Seq(CutBoxes(size))
  <1> DEFINE ys == Steps(area.top, area.bottom - side, stride)
             xs == Steps(area.left, area.right - side, stride)
             n == Len(ys) * Len(xs)
             B == CutBoxes(size)
             tiles == TilesIn(area, side, stride)
             row(i) == (i - 1) \div Len(xs) + 1
             column(i) == ((i - 1) % Len(xs)) + 1
  <1>1. /\ area.left \in Int /\ area.right \in Int /\ area.top \in Int /\ area.bottom \in Int
    BY DEF AreaIn
  <1>2. area.right - side \in Int /\ area.bottom - side \in Int
    BY <1>1
  <1>3. xs \in Seq(Int)
    BY <1>1, <1>2, StepsAre
  <1>4. ys \in Seq(Int)
    BY <1>1, <1>2, StepsAre
  <1>5. tiles = [i \in 1..n |-> [left |-> xs[column(i)], top |-> ys[row(i)],
                                  right |-> xs[column(i)] + side, bottom |-> ys[row(i)] + side]]
    BY DEF TilesIn
  <1> HIDE DEF xs, ys, tiles
  <1>6. Len(xs) \in Nat /\ Len(ys) \in Nat /\ n \in Nat
    BY <1>3, <1>4
  <1>7. DOMAIN tiles = 1..n
    BY <1>5
  <1>8. ASSUME NEW i \in 1..n
        PROVE  tiles[i] \in B
    <2>1. row(i) \in 1..Len(ys) /\ column(i) \in 1..Len(xs)
      BY <1>6, RowAndColumn, Zenon
    <2>2. tiles[i] = [left |-> xs[column(i)], top |-> ys[row(i)],
                      right |-> xs[column(i)] + side, bottom |-> ys[row(i)] + side]
      BY <1>5
    <2> HIDE DEF row, column, n
    <2>3. xs[column(i)] \in Int /\ ys[row(i)] \in Int
      BY <1>3, <1>4, <2>1
    <2>4. tiles[i] \in [left : Int, top : Int, right : Int, bottom : Int]
      BY <2>2, <2>3
    <2>5. i \in DOMAIN TilesIn(area, side, stride) /\ side \in Nat \ {0, 1}
      BY <1>7 DEF tiles
    <2>6. /\ Inside(tiles[i], size.width, size.height)
          /\ tiles[i].right - tiles[i].left = side /\ tiles[i].bottom - tiles[i].top = side
      BY <2>5, TilesLieIn DEF tiles
    <2>7. Cuttable(tiles[i], size)
      BY <2>6 DEF Cuttable
    <2> QED BY <2>4, <2>7 DEF CutBoxes
  <1> HIDE DEF n, B
  <1>9. tiles = [i \in 1..n |-> tiles[i]]
    BY <1>5
  <1>10. tiles \in Seq(B)
    BY <1>6, <1>8, <1>9
  <1> QED BY <1>10 DEF tiles, B

(* An area the provider may locate is a box of the picture.                   *)
LEMMA RegionIsValid ==
    ASSUME NEW region \in Regions
    PROVE  BoxValid(region)
  <1>1. region \in [x : 0..999, y : 0..999, width : 1..1000, height : 1..1000]
    BY DEF Regions
  <1>2. region.x + region.width <= 1000 /\ region.y + region.height <= 1000
    BY DEF Regions
  <1>3. region.x \in 0..999 /\ region.y \in 0..999
    BY <1>1
  <1>4. region.width \in 1..1000 /\ region.height \in 1..1000
    BY <1>1
  <1> QED BY <1>2, <1>3, <1>4 DEF BoxValid

(* All the tiles of a picture, clean or not.                                 *)
LEMMA AllTilesAre ==
    ASSUME NEW size, size.width \in Nat, size.height \in Nat,
           NEW located, located.material \in Seq(Regions)
    PROVE  Boxes(Areas(size, located), TileSide(size)) \in Seq(CutBoxes(size))
  <1> DEFINE areas == Areas(size, located)
             side == TileSide(size)
             stride == Max({8, side \div 2})
             B == CutBoxes(size)
  <1>1. side \in Nat /\ side >= 16
    BY TileSideIs
  <1>2. stride \in Nat \ {0}
    <2> DEFINE half == side \div 2
    <2> HIDE DEF side
    <2>1. half \in Int
      BY <1>1
    <2> HIDE DEF half
    <2>2. 8 \in Int
      OBVIOUS
    <2>3. Max({8, half}) \in {8, half} /\ Max({8, half}) >= 8
      BY <2>1, <2>2, MaxOfTwo, Zenon
    <2> QED BY <2>1, <2>3 DEF half
  <1>3. \A j \in DOMAIN located.material : BoxValid(located.material[j])
    <2>1. \A j \in DOMAIN located.material : located.material[j] \in Regions
      OBVIOUS
    <2>2. \A r \in Regions : BoxValid(r)
      BY RegionIsValid
    <2> QED BY <2>1, <2>2
  <1>4. \E n \in Nat : DOMAIN areas = 1..n
    <2>1. CASE located.confidence >= 50 /\ located.material # <<>>
      <3>1. DOMAIN areas = DOMAIN located.material
        BY <2>1 DEF Areas
      <3> HIDE DEF areas
      <3> QED BY <3>1
    <2>2. CASE ~(located.confidence >= 50 /\ located.material # <<>>)
      <3> DEFINE area == [left |-> Rounded(size.width, 10), top |-> Rounded(size.height, 10),
                          right |-> Rounded(9 * size.width, 10), bottom |-> Rounded(9 * size.height, 10)]
      <3>1. areas = <<area>>
        BY <2>2 DEF Areas
      <3> HIDE DEF areas, area
      <3>2. DOMAIN areas = 1..1
        BY <3>1
      <3> QED BY <3>2
    <2> QED BY <2>1, <2>2
  <1>5. PICK n \in Nat : DOMAIN areas = 1..n
    BY <1>4
  <1>6. ASSUME NEW k \in 1..n
        PROVE  TilesIn(areas[k], side, stride) \in Seq(B)
    <2>1. k \in DOMAIN Areas(size, located)
      BY <1>5
    <2>2. AreaIn(areas[k], size.width, size.height)
      BY <1>3, <2>1, AreasAreIn
    <2> HIDE DEF areas, side, stride
    <2> QED BY <1>1, <1>2, <2>2, TilesInAre
  <1>7. \A k \in 1..n : TilesIn(areas[k], side, Max({8, side \div 2})) \in Seq(B)
    BY <1>6
  <1> HIDE DEF areas, side, B
  <1>8. Boxes(areas, side) \in Seq(B)
    BY <1>5, <1>7, BoxesAre
  <1> QED BY <1>8 DEF areas, side, B

(* _candidate_tiles returns tiles of the picture.                             *)
LEMMA TilesAre ==
    ASSUME NEW picture, IsPicture(picture),
           NEW located, located.material \in Seq(Regions), NEW structure
    PROVE  LET tiles == Tiles(picture, located, structure)
           IN  \E n \in Nat : /\ tiles = [k \in 1..n |-> tiles[k]]
                             /\ \A k \in 1..n : tiles[k].box \in CutBoxes(Working(picture))
  <1> DEFINE size == Working(picture)
             excluded == [i \in DOMAIN located.excluded |->
                             Scaled(located.excluded[i], size.width, size.height)]
             B == CutBoxes(size)
             boxes == Boxes(Areas(size, located), TileSide(size))
             kept == {i \in DOMAIN boxes :
                         Clean(Look(picture, boxes[i]), boxes[i], excluded, structure)}
             clean == Selected(boxes, kept)
             tiles == Tiles(picture, located, structure)
  <1>1. size.width \in Nat /\ size.height \in Nat
    BY WorkingSize DEF IsPicture
  <1>2. boxes \in Seq(B)
    <2> HIDE DEF size
    <2> QED BY <1>1, AllTilesAre
  <1>3. tiles = [i \in DOMAIN clean |-> Tile(Look(picture, clean[i]), clean[i])]
    BY DEF Tiles
  <1> HIDE DEF boxes, kept, B
  <1>4. clean \in Seq(B)
    BY <1>2, SelectedIs
  <1> DEFINE n == Len(clean)
  <1> HIDE DEF clean, tiles
  <1>5. n \in Nat /\ DOMAIN clean = 1..n /\ \A k \in 1..n : clean[k] \in B
    BY <1>4
  <1>6. ASSUME NEW k \in 1..n
        PROVE  tiles[k].box \in B
    <2>1. tiles[k] = Tile(Look(picture, clean[k]), clean[k])
      BY <1>3, <1>5
    <2>2. tiles[k].box = clean[k]
      BY <2>1 DEF Tile
    <2> QED BY <1>5, <2>2
  <1> HIDE DEF n
  <1>7. tiles = [k \in 1..n |-> tiles[k]]
    BY <1>3, <1>5
  <1> QED BY <1>5, <1>6, <1>7 DEF tiles, B

-----------------------------------------------------------------------------
(* The crop of a tile.                                                       *)

(* A sample can be cut out again: the box stored for a tile is one that         *)
(* _normalized_box_valid accepts, and build_clean_reference, which scales it to *)
(* the stored picture, cuts a piece that is not empty, does not reach beyond    *)
(* the picture, and is the tile, up to two pixels of the working copy.         *)
THEOREM SampleCanBeCut ==
    ASSUME NEW picture, IsPicture(picture),
           NEW tile, Cuttable(tile, Working(picture)),
           NEW cluster,
           cluster.box = Normalized(tile, Working(picture).width, Working(picture).height)
    PROVE  LET crop == Crop(picture, cluster)
           IN  /\ BoxValid(cluster.box)
               /\ Inside(crop, picture.width, picture.height)
               /\ CutsOut(crop, tile, picture)
  <1> DEFINE size == Working(picture)
             box == cluster.box
             crop == Crop(picture, cluster)
  <1>0. picture.width \in Nat \ {0} /\ picture.height \in Nat \ {0}
    BY DEF IsPicture
  <1>1. /\ size.width \in Nat \ {0} /\ size.width <= 512 /\ size.width <= picture.width
        /\ size.height \in Nat \ {0} /\ size.height <= 512 /\ size.height <= picture.height
    BY <1>0, WorkingSize
  <1>2. box = Normalized(tile, size.width, size.height)
    OBVIOUS
  <1>3. /\ Inside(tile, size.width, size.height)
        /\ tile.right - tile.left >= 16 /\ tile.bottom - tile.top >= 16
    BY DEF Cuttable
  <1> HIDE DEF size, box
  <1>4. BoxValid(box)
    BY <1>1, <1>2, <1>3, NormalizedIsValid
  <1>5. /\ tile.left \in Nat /\ tile.right \in Nat /\ tile.right <= size.width
        /\ tile.top \in Nat /\ tile.bottom \in Nat /\ tile.bottom <= size.height
    BY <1>1, <1>3 DEF Inside
  <1> DEFINE x == StartOf(tile.left, size.width)
             w == ExtentOf(tile.right - tile.left, size.width)
             y == StartOf(tile.top, size.height)
             h == ExtentOf(tile.bottom - tile.top, size.height)
  <1>6. box = [x |-> x, width |-> w, y |-> y, height |-> h]
    BY <1>2 DEF Normalized, StartOf, ExtentOf
  <1>7. /\ LowOf(x, picture.width) \in Nat /\ HighOf(x, w, picture.width) \in Nat
        /\ LowOf(x, picture.width) < HighOf(x, w, picture.width)
        /\ HighOf(x, w, picture.width) <= picture.width
    <2>1. picture.width \in Nat BY <1>0
    <2> QED BY <1>1, <1>3, <1>5, <2>1, CropAxis
  <1>8. /\ LowOf(y, picture.height) \in Nat /\ HighOf(y, h, picture.height) \in Nat
        /\ LowOf(y, picture.height) < HighOf(y, h, picture.height)
        /\ HighOf(y, h, picture.height) <= picture.height
    <2>1. picture.height \in Nat BY <1>0
    <2> QED BY <1>1, <1>3, <1>5, <2>1, CropAxis
  <1>9. /\ Distance(LowOf(x, picture.width) * size.width, tile.left * picture.width)
               <= 2 * picture.width
        /\ Distance(HighOf(x, w, picture.width) * size.width, tile.right * picture.width)
               <= 2 * picture.width
    <2>1. picture.width \in Nat BY <1>0
    <2> QED BY <1>1, <1>3, <1>5, <2>1, EdgesOfCrop
  <1>10. /\ Distance(LowOf(y, picture.height) * size.height, tile.top * picture.height)
               <= 2 * picture.height
        /\ Distance(HighOf(y, h, picture.height) * size.height, tile.bottom * picture.height)
               <= 2 * picture.height
    <2>1. picture.height \in Nat BY <1>0
    <2> QED BY <1>1, <1>3, <1>5, <2>1, EdgesOfCrop
  <1> HIDE DEF x, y, w, h
  <1>11. box.x = x /\ box.y = y /\ box.width = w /\ box.height = h
    BY <1>6
  <1>12. crop = [left |-> LowOf(x, picture.width), top |-> LowOf(y, picture.height),
                 right |-> HighOf(x, w, picture.width), bottom |-> HighOf(y, h, picture.height)]
    <2>1. crop = Scaled(box, picture.width, picture.height)
      BY DEF Crop, box
    <2>2. Scaled(box, picture.width, picture.height) =
              [left |-> LowOf(box.x, picture.width), top |-> LowOf(box.y, picture.height),
               right |-> HighOf(box.x, box.width, picture.width),
               bottom |-> HighOf(box.y, box.height, picture.height)]
      BY DEF Scaled, LowOf, HighOf
    <2> QED BY <1>11, <2>1, <2>2
  <1> HIDE DEF crop
  <1>13. /\ crop.left = LowOf(x, picture.width) /\ crop.right = HighOf(x, w, picture.width)
         /\ crop.top = LowOf(y, picture.height) /\ crop.bottom = HighOf(y, h, picture.height)
    BY <1>12
  <1>14. Inside(crop, picture.width, picture.height)
    BY <1>7, <1>8, <1>13 DEF Inside
  <1>15. CutsOut(crop, tile, picture)
    BY <1>13, <1>9, <1>10 DEF CutsOut, size
  <1> QED BY <1>4, <1>14, <1>15 DEF size, box, crop

-----------------------------------------------------------------------------
(* The analysis.                                                             *)

(* The profile is read back, and each of its colors has a sample.             *)
IsUsable(profile, picture, tiles) ==
    profile.known => /\ Readable(profile)
                     /\ \A i \in DOMAIN profile.palette : Samples(picture, profile.palette[i], tiles)

(* The sample of a color of the palette is a part of the picture.             *)
LEMMA SampleIsTile ==
    ASSUME NEW picture, IsPicture(picture), NEW tiles,
           \A k \in DOMAIN tiles : tiles[k].box \in CutBoxes(Working(picture)),
           NEW value, Represents(value, {tiles[k] : k \in DOMAIN tiles}, Working(picture))
    PROVE  /\ 0 < value.weight[1] /\ value.weight[1] <= value.weight[2]
           /\ BoxValid(value.box)
           /\ Samples(picture, value, tiles)
  <1>1. 0 < value.weight[1] /\ value.weight[1] <= value.weight[2]
    BY DEF Represents
  <1>2. PICK k \in DOMAIN tiles :
            value.box = Normalized(tiles[k].box, Working(picture).width, Working(picture).height)
    BY DEF Represents
  <1> DEFINE crop == Crop(picture, value)
  <1>3. Cuttable(tiles[k].box, Working(picture))
    BY DEF CutBoxes
  <1>4. /\ BoxValid(value.box)
        /\ Inside(crop, picture.width, picture.height)
        /\ CutsOut(crop, tiles[k].box, picture)
    BY <1>2, <1>3, SampleCanBeCut
  <1> HIDE DEF crop
  <1>5. /\ 0 <= crop.left /\ crop.left < crop.right /\ crop.right <= picture.width
        /\ 0 <= crop.top /\ crop.top < crop.bottom /\ crop.bottom <= picture.height
    BY <1>4 DEF Inside
  <1>6. Samples(picture, value, tiles)
    BY <1>4, <1>5 DEF Samples, crop
  <1> QED BY <1>1, <1>4, <1>6

(* Whatever the picture, what is measured of its parts, the areas located in    *)
(* it and the structure chosen: a profile analyze_reference returns is one       *)
(* from_dict reads back, and what is cut out for a color of its palette is a     *)
(* part of the picture, and, up to two pixels of the working copy on each side,  *)
(* a tile that _candidate_tiles took from an area of material.                  *)
THEOREM AnalysisIsUsable ==
    ASSUME NEW picture, IsPicture(picture),
           NEW located, located.material \in Seq(Regions), NEW structure
    PROVE  IsUsable(Analyzed(picture, located, structure), picture,
                    Tiles(picture, located, structure))
  <1> DEFINE size == Working(picture)
             tiles == Tiles(picture, located, structure)
             TT == {tiles[k] : k \in DOMAIN tiles}
             profile == Analyzed(picture, located, structure)
  <1>1. PICK n \in Nat : /\ tiles = [k \in 1..n |-> tiles[k]]
                         /\ \A k \in 1..n : tiles[k].box \in CutBoxes(size)
    BY TilesAre
  <1>2. profile = ProfileOfTiles(tiles, structure, size)
    BY DEF Analyzed
  <1> HIDE DEF tiles, profile, size
  <1>3. DOMAIN tiles = 1..n /\ \A k \in DOMAIN tiles : tiles[k].box \in CutBoxes(size)
    BY <1>1
  <1>4. tiles \in Seq(TT)
    <2>1. \A k \in 1..n : tiles[k] \in TT
      BY <1>3
    <2> HIDE DEF TT
    <2> QED BY <1>1, <2>1
  <1>5. Sound(profile, TT, size)
    <2> HIDE DEF TT
    <2> QED BY <1>2, <1>4, ProfileOfTilesIs
  <1> SUFFICES ASSUME profile.known
               PROVE  /\ Readable(profile)
                      /\ \A i \in DOMAIN profile.palette :
                            Samples(picture, profile.palette[i], tiles)
    BY DEF IsUsable, profile, tiles
  <1>6. /\ profile.structure \in {"solid", "multicolor"}
        /\ profile.confidence \in 0..100
        /\ Len(profile.palette) \in (IF profile.structure = "solid" THEN {1} ELSE 2..5)
        /\ \A i \in DOMAIN profile.palette : Represents(profile.palette[i], TT, size)
    BY <1>5 DEF Sound
  <1>7. \A i \in DOMAIN profile.palette :
            /\ 0 < profile.palette[i].weight[1]
            /\ profile.palette[i].weight[1] <= profile.palette[i].weight[2]
            /\ BoxValid(profile.palette[i].box)
            /\ Samples(picture, profile.palette[i], tiles)
    BY <1>3, <1>6, SampleIsTile DEF size
  <1>8. Readable(profile)
    BY <1>6, <1>7 DEF Readable
  <1> QED BY <1>7, <1>8

===============================================================================
