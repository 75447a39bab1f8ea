------------------------- MODULE CounterScalingProofs -------------------------
(***************************************************************************)
(* Proofs about CounterScaling, for every word width and every mantissa    *)
(* that holds a word: how far scaleCounter is from                         *)
(* raw * enabled / running.                                                *)
(***************************************************************************)
EXTENDS CounterScaling, CommonProofs

(* The three roundings of scaleCounter. *)

\* The largest word is positive and a long double.
LEMMA Words ==
  /\ Width \in Nat /\ Mantissa \in Nat /\ Width >= 1 /\ Mantissa >= Width
  /\ 2 ^ Width \in Nat /\ 2 ^ Mantissa \in Nat /\ 2 <= 2 ^ Width
  /\ 2 ^ Width <= 2 ^ Mantissa /\ MaxWord = 2 ^ Width - 1 /\ MaxWord \in Nat
  /\ MaxWord >= 1 /\ \A n : n \in Word <=> n \in Nat /\ n <= MaxWord
<1>1. Width \in Nat /\ Mantissa \in Nat /\ Width >= 1 /\ Mantissa >= Width /\ 1 \in Nat
  BY WidthAssumption
<1>2. 2 ^ Width \in Nat /\ 2 ^ Mantissa \in Nat
  BY <1>1, PowerType
<1>3. 2 <= 2 ^ Width /\ 2 ^ Width <= 2 ^ Mantissa
  BY <1>1, PowersGrow, SmallPowers
<1> DEFINE p == 2 ^ Width
<1> HIDE DEF p
<1>4. p \in Nat /\ 2 <= p /\ MaxWord = p - 1 /\ Word = 0 .. p - 1
  BY <1>2, <1>3 DEF p, MaxWord, Word
<1>5. MaxWord \in Nat /\ MaxWord >= 1 /\ \A n : n \in Word <=> n \in Nat /\ n <= MaxWord
  BY <1>4
<1> QED
  BY <1>1, <1>2, <1>3, <1>5 DEF MaxWord

\* 2 * Width bits hold a product of two words.
LEMMA SquareOfWords ==
  2 ^ (2 * Width) = 2 ^ Width * 2 ^ Width
<1>1. Width \in Nat /\ Width + Width = 2 * Width
  BY Words
<1> QED
  BY <1>1, PowerAdds

\* Sides, of a long double.
LEMMA LongDoubleSides ==
  ASSUME NEW a \in Nat, NEW b \in Nat, NEW c \in Nat, NEW d \in Nat,
         Near(a, b, c, d, Mantissa), NEW N \in Nat
  PROVE  /\ N <= 2 ^ Mantissa /\ N * b <= a => N * d <= c
         /\ N < 2 ^ Mantissa /\ a <= N * b => c <= N * d
         /\ N <= 2 ^ Mantissa /\ N * b <= 2 * a => N * d <= 2 * c
         /\ N < 2 ^ Mantissa /\ 2 * a <= N * b => 2 * c <= N * d
         /\ N <= 2 ^ Mantissa /\ N * b <= 8 * a => N * d <= 8 * c
         /\ N < 2 ^ Mantissa /\ 8 * a <= N * b => 8 * c <= N * d
<1>1. Mantissa \in Nat \ {0}
  BY Words
<1> QED
  BY <1>1, Sides

\* The fractions that scaleCounter rounds: at least a half, and no larger than
\* a product of two words.
WordSized(a, b) == a \in Nat \ {0} /\ b \in Nat \ {0} /\ b <= 2 * a /\ a <= b * 2 ^ (2 * Width)

\* A long double holds them.
LEMMA LongDoubled ==
  ASSUME NEW a, NEW b, WordSized(a, b)
  PROVE  \E c \in Nat, d \in Nat \ {0} :
           LongDouble(<<a, b>>) = <<c, d>> /\ Near(a, b, c, d, Mantissa)
<1>1. Mantissa \in Nat \ {0} /\ 2 * Width \in Nat /\ 2 * Mantissa \in Nat /\ 2 * Width <= 2 * Mantissa
  BY Words
<1>2. 2 ^ (2 * Width) <= 2 ^ (2 * Mantissa) /\ 2 ^ (2 * Width) \in Nat /\ 2 ^ (2 * Mantissa) \in Nat
  BY <1>1, PowersGrow, PowerType
<1>3. 2 <= 2 ^ Mantissa /\ 2 ^ Mantissa \in Nat
  BY Words
<1> DEFINE H == 2 ^ Mantissa
           P == 2 ^ (2 * Width)
           Q == 2 ^ (2 * Mantissa)
<1>4. a \in Nat \ {0} /\ b \in Nat \ {0} /\ b <= 2 * a /\ a <= b * P
  BY DEF WordSized
<1> HIDE DEF H, P, Q
<1>5. b <= a * H /\ a <= b * Q
  <2>1. 2 * a <= a * H /\ b * P <= b * Q
    BY <1>2, <1>3, <1>4 DEF H, P, Q
  <2>2. a * H \in Int /\ b * P \in Int /\ b * Q \in Int
    BY <1>2, <1>3, <1>4 DEF H, P, Q
  <2> QED
    BY <1>4, <2>1, <2>2
<1>6. InRange(a, b, Mantissa)
  BY <1>4, <1>5 DEF InRange, H, Q
<1> QED
  BY <1>1, <1>6, Rounded DEF LongDouble

\* The product of the count and the time, and its quotient by the other time.
LEMMA Extrapolating ==
  ASSUME NEW raw \in Word \ {0}, NEW enabled \in Word, NEW running \in Word \ {0},
         running < enabled
  PROVE  \E p, q \in Nat, d, f \in Nat \ {0} :
           /\ Extrapolated(raw, enabled, running) = <<q, f>>
           /\ Near(raw * enabled, 1, p, d, Mantissa) /\ Near(p, d * running, q, f, Mantissa)
           /\ raw * (d * running) <= p
<1> DEFINE P == raw * enabled
           W == 2 ^ Width
           H == 2 ^ Mantissa
<1>1. /\ W \in Nat /\ H \in Nat /\ 2 <= W /\ W <= H /\ 2 ^ (2 * Width) = W * W
      /\ raw \in Nat /\ raw >= 1 /\ raw <= W - 1 /\ enabled \in Nat /\ enabled <= W - 1
      /\ running \in Nat /\ running >= 1 /\ running + 1 <= enabled
  BY Words, SquareOfWords
<1> HIDE DEF W, H
<1>2. P \in Nat /\ 1 <= P /\ P <= W * W /\ P <= raw * W
  <2>1. \A x, y, z \in Nat : y <= z => x * y <= x * z
    OBVIOUS
  <2>2. raw * 1 <= raw * enabled /\ raw * enabled <= raw * W /\ W * raw <= W * W
    BY <1>1, <2>1
  <2>3. raw * W = W * raw /\ raw * W \in Nat /\ raw * enabled \in Nat /\ W * W \in Nat
    BY <1>1
  <2> QED
    BY <1>1, <2>2, <2>3
<1> HIDE DEF P
<1>3. WordSized(P, 1)
  <2>1. P <= 1 * (W * W) /\ P >= 1 /\ 1 <= 2 * P
    BY <1>1, <1>2
  <2> QED
    BY <1>1, <1>2, <2>1 DEF WordSized
<1>4. PICK p \in Nat, d \in Nat \ {0} : LongDouble(<<P, 1>>) = <<p, d>> /\ Near(P, 1, p, d, Mantissa)
  BY <1>3, LongDoubled
<1>5. H * p <= H * (P * d) + P * d /\ H * (P * d) <= H * p + P * d
  BY <1>1, <1>2, <1>4 DEF Near, H
<1>6. P * d <= H * (raw * d)
  <2>1. P * d <= (raw * W) * d
    BY <1>1, <1>2, Scaled, raw * W \in Int
  <2>2. (raw * W) * d = W * (raw * d) /\ raw * d \in Nat
    BY <1>1
  <2>3. W * (raw * d) <= H * (raw * d)
    BY <1>1, <2>2
  <2>4. P * d \in Int /\ W * (raw * d) \in Int /\ H * (raw * d) \in Int
    BY <1>1, <1>2, <2>2
  <2> QED
    BY <2>1, <2>2, <2>3, <2>4
<1>7. p <= P * d + raw * d /\ P * d <= p + raw * d
  <2>1. /\ H * (P * d + raw * d) = H * (P * d) + H * (raw * d)
        /\ H * (p + raw * d) = H * p + H * (raw * d)
        /\ P * d \in Nat /\ raw * d \in Nat
    BY <1>1, <1>2
  <2>2. H * p <= H * (P * d + raw * d) /\ H * (P * d) <= H * (p + raw * d)
    BY <1>1, <1>2, <1>5, <1>6, <2>1
  <2>3. \A x, y \in Int : H * x <= H * y => x <= y
    <3> SUFFICES ASSUME NEW x \in Int, NEW y \in Int PROVE H * x <= H * y => x <= y
      OBVIOUS
    <3>1. H \in Nat \ {0} /\ x * H = H * x /\ y * H = H * y
      BY <1>1
    <3> QED
      BY <3>1, Scaled
  <2> QED
    BY <2>1, <2>2, <2>3
<1>8. raw * (d * running) <= p
  <2>1. (raw * d) * (running + 1) <= (raw * d) * enabled
    BY <1>1
  <2>2. /\ (raw * d) * (running + 1) = raw * (d * running) + raw * d
        /\ (raw * d) * enabled = P * d
        /\ raw * (d * running) \in Nat /\ raw * d \in Nat /\ P * d \in Nat
    BY <1>1, <1>2 DEF P
  <2> QED
    BY <1>7, <2>1, <2>2
<1>9. WordSized(p, d * running)
  <2>1. d * running \in Nat \ {0} /\ d * running <= raw * (d * running)
    BY <1>1
  <2>2. p <= (d * running) * (W * W)
    <3>1. raw * (enabled + 1) <= W * W
      <4>1. raw * (enabled + 1) <= W * (enabled + 1)
        BY <1>1
      <4>2. W * (enabled + 1) <= W * W
        BY <1>1
      <4>3. raw * (enabled + 1) \in Nat /\ W * (enabled + 1) \in Nat /\ W * W \in Nat
        BY <1>1
      <4> QED
        BY <4>1, <4>2, <4>3
    <3>2. (raw * (enabled + 1)) * d <= (W * W) * d
      BY <1>1, <3>1, Scaled, raw * (enabled + 1) \in Int, W * W \in Int
    <3>3. (raw * (enabled + 1)) * d = P * d + raw * d
      BY <1>1 DEF P
    <3>4. (W * W) * d <= (d * running) * (W * W)
      <4>1. \A x \in Nat : x <= x * running
        BY <1>1
      <4>2. (W * W) * d \in Nat /\ ((W * W) * d) * running = (d * running) * (W * W)
        BY <1>1
      <4> QED
        BY <4>1, <4>2
    <3>5. /\ P * d + raw * d \in Int /\ (W * W) * d \in Int
          /\ (d * running) * (W * W) \in Int
      BY <1>1, <1>2
    <3> QED
      BY <1>7, <3>2, <3>3, <3>4, <3>5
  <2>3. d * running <= p /\ p # 0
    BY <1>1, <1>8, <2>1
  <2> QED
    BY <1>1, <2>1, <2>2, <2>3 DEF WordSized
<1>10. PICK q \in Nat, f \in Nat \ {0} :
         LongDouble(<<p, d * running>>) = <<q, f>> /\ Near(p, d * running, q, f, Mantissa)
  BY <1>9, LongDoubled
<1>11. Extrapolated(raw, enabled, running) = <<q, f>>
  <2>1. Times(Whole(raw), Whole(enabled)) = <<P, 1 * 1>>
    BY DEF Times, Whole, P
  <2>2. Over(<<p, d>>, Whole(running)) = <<p * 1, d * running>>
    BY DEF Over, Whole
  <2>3. 1 * 1 = 1 /\ p * 1 = p
    OBVIOUS
  <2> QED
    BY <1>4, <1>10, <2>1, <2>2, <2>3 DEF Extrapolated
<1> QED
  BY <1>4, <1>8, <1>10, <1>11 DEF P

\* The half that is added before the truncation.
LEMMA Halved ==
  ASSUME NEW q \in Nat, NEW f \in Nat \ {0}, q < MaxWord * f
  PROVE  \E s \in Nat, g \in Nat \ {0} :
           /\ LongDouble(Plus(<<q, f>>, <<1, 2>>)) = <<s, g>>
           /\ Near(2 * q + f, 2 * f, s, g, Mantissa)
<1> DEFINE W == 2 ^ Width
<1>1. W \in Nat /\ 2 <= W /\ MaxWord = W - 1 /\ 2 ^ (2 * Width) = W * W
  BY Words, SquareOfWords
<1> HIDE DEF W
<1>2. Plus(<<q, f>>, <<1, 2>>) = <<2 * q + f, 2 * f>>
  <2>1. Plus(<<q, f>>, <<1, 2>>) = <<q * 2 + 1 * f, f * 2>>
    BY DEF Plus
  <2> QED
    BY <2>1
<1>3. WordSized(2 * q + f, 2 * f)
  <2>1. 2 * q + f \in Nat \ {0} /\ 2 * f \in Nat \ {0} /\ 2 * f <= 2 * (2 * q + f)
    OBVIOUS
  <2>2. (W - 1) * f = W * f - f /\ W * f \in Nat
    BY <1>1
  <2>3. 2 * q + f <= 2 * (W * f)
    BY <1>1, <2>2
  <2>4. W * f <= (W * f) * W
    <3>1. \A x \in Nat : x <= x * W
      BY <1>1
    <3> QED
      BY <2>2, <3>1
  <2>5. 2 * ((W * f) * W) = (2 * f) * (W * W)
    BY <1>1
  <2>6. 2 * q + f <= (2 * f) * (W * W)
    BY <1>1, <2>2, <2>3, <2>4, <2>5
  <2> QED
    BY <1>1, <2>1, <2>6 DEF WordSized
<1> QED
  BY <1>2, <1>3, LongDoubled

\* The errors of the three roundings and of the truncation: less than one from
\* the product, at most a half from each of the others, less than one again.
LEMMA ErrorsAddUp ==
  ASSUME NEW P \in Nat, NEW running \in Nat \ {0},
         NEW p \in Nat, NEW d \in Nat \ {0}, Near(P, 1, p, d, Mantissa),
         NEW q \in Nat, NEW f \in Nat \ {0}, Near(p, d * running, q, f, Mantissa),
         q < MaxWord * f,
         NEW s \in Nat, NEW g \in Nat \ {0}, Near(2 * q + f, 2 * f, s, g, Mantissa),
         NEW v \in Nat, v * g <= s, s < v * g + g
  PROVE  2 * v * running < 2 * P + 5 * running /\ 2 * P < 2 * v * running + 5 * running
<1> DEFINE H == 2 ^ Mantissa
           R == d * running
<1>1. H \in Nat /\ MaxWord \in Nat /\ MaxWord + 1 <= H
  BY Words
<1>2. R \in Nat /\ R > 0 /\ d > 0 /\ f > 0 /\ g > 0 /\ running > 0
  OBVIOUS
<1>3. H * p <= H * (P * d) + P * d /\ H * (P * d) <= H * p + P * d
  BY DEF Near
<1>4. p < MaxWord * R
  <2>1. ASSUME MaxWord * R <= p PROVE FALSE
    <3>1. MaxWord * f <= q
      <4> HIDE DEF R
      <4>1. Near(p, R, q, f, Mantissa)
        BY DEF R
      <4>2. MaxWord \in Nat /\ MaxWord <= 2 ^ Mantissa
        BY <1>1
      <4>3. R \in Nat /\ f \in Nat
        BY <1>2
      <4>4. MaxWord <= 2 ^ Mantissa /\ MaxWord * R <= p => MaxWord * f <= q
        BY <4>1, <4>2, <4>3, LongDoubleSides
      <4> QED
        BY <2>1, <4>2, <4>4
    <3> QED
      BY <1>1, <3>1
  <2> QED
    BY <1>1, <1>2, <2>1
<1> HIDE DEF H
<1>5. 2 * (q * R) <= 2 * (p * f) + R * f /\ 2 * (p * f) <= 2 * (q * R) + R * f
  <2>1. p < R * H
    BY <1>1, <1>2, <1>4
  <2> QED
    BY <2>1 DEF Near, H
<1>6. P * d < H * R
  <2>1. H * p < H * (MaxWord * R)
    BY <1>1, <1>2, <1>4
  <2>2. H * (MaxWord * R) <= (H - 1) * (H * R)
    <3>1. MaxWord * (H * R) <= (H - 1) * (H * R)
      <4>1. \A x, y \in Int, z \in Nat : x <= y => x * z <= y * z
        OBVIOUS
      <4> QED
        BY <1>1, <1>2, <4>1
    <3> QED
      BY <1>1, <1>2, <3>1
  <2>3. (H - 1) * (P * d) < (H - 1) * (H * R)
    <3>1. (H - 1) * (P * d) = H * (P * d) - P * d
      BY <1>1
    <3>2. H * (P * d) \in Nat /\ P * d \in Nat /\ H * p \in Nat /\ (H - 1) * (H * R) \in Int
          /\ H * (MaxWord * R) \in Int
      BY <1>1, <1>2
    <3> QED
      BY <1>3, <2>1, <2>2, <3>1, <3>2
  <2>4. (P * d) * (H - 1) < (H * R) * (H - 1)
    BY <1>1, <1>2, <2>3
  <2>5. H - 1 \in Nat \ {0} /\ P * d \in Int /\ H * R \in Int
    BY <1>1, <1>2, Words
  <2> QED
    BY <2>4, <2>5, Scaled
<1>7. p < P * d + R /\ P * d < p + R
  <2>1. H * (P * d + R) = H * (P * d) + H * R /\ H * (p + R) = H * p + H * R
    BY <1>1, <1>2
  <2>2. H * (P * d) \in Nat /\ P * d \in Nat /\ H * p \in Nat /\ H * R \in Nat
    BY <1>1, <1>2
  <2>3. H * p < H * (P * d + R) /\ H * (P * d) < H * (p + R)
    BY <1>3, <1>6, <2>1, <2>2
  <2>4. \A x, y \in Int : H * x < H * y => x < y
    <3> SUFFICES ASSUME NEW x \in Int, NEW y \in Int PROVE H * x < H * y => x < y
      OBVIOUS
    <3>1. H \in Nat \ {0} /\ x * H = H * x /\ y * H = H * y
      BY <1>1, Words DEF H
    <3> QED
      BY <3>1, Scaled
  <2> QED
    BY <1>2, <2>2, <2>3, <2>4
<1>8. s * f <= (q + f) * g /\ q * g <= s * f
  <2>1. q < MaxWord * f => 2 * q + f < (2 * f) * H
    <3>1. (MaxWord + 1) * f <= H * f /\ (MaxWord + 1) * f = MaxWord * f + f
      BY <1>1, <1>2
    <3>2. (2 * f) * H = 2 * (H * f) /\ H * f \in Nat /\ MaxWord * f \in Nat
      BY <1>1, <1>2
    <3> QED
      BY <1>2, <3>1, <3>2
  <2>2. /\ 2 * (s * (2 * f)) <= 2 * ((2 * q + f) * g) + (2 * f) * g
        /\ 2 * ((2 * q + f) * g) <= 2 * (s * (2 * f)) + (2 * f) * g
    BY <2>1 DEF Near, H
  <2>3. /\ 2 * (s * (2 * f)) = 4 * (s * f) /\ (2 * f) * g = 2 * (f * g)
        /\ 2 * ((2 * q + f) * g) = 4 * (q * g) + 2 * (f * g)
        /\ (q + f) * g = q * g + f * g
        /\ s * f \in Nat /\ f * g \in Nat /\ q * g \in Nat
    OBVIOUS
  <2> QED
    BY <2>2, <2>3
<1>9. v * f <= q + f /\ q < v * f + f
  <2>1. (v * g) * f <= s * f /\ s * f < (v * g + g) * f
    BY Scaled, v * g \in Int, v * g + g \in Int, s \in Int
  <2>2. /\ (v * g) * f = (v * f) * g /\ (v * g + g) * f = (v * f + f) * g
        /\ (v * f) * g \in Int /\ s * f \in Int /\ (q + f) * g \in Int /\ q * g \in Int
        /\ (v * f + f) * g \in Int
    OBVIOUS
  <2>3. (v * f) * g <= (q + f) * g /\ q * g < (v * f + f) * g
    BY <1>8, <2>1, <2>2
  <2>4. v * f \in Int /\ q + f \in Int /\ v * f + f \in Int /\ q \in Int
    OBVIOUS
  <2> QED
    BY <2>3, <2>4, Scaled
<1>10. 2 * (v * R) <= 2 * p + 3 * R /\ 2 * p < 2 * (v * R) + 3 * R
  <2>1. (v * f) * R <= (q + f) * R /\ q * R < (v * f + f) * R
    BY <1>2, <1>9, Scaled, v * f \in Int, q + f \in Int, v * f + f \in Int, q \in Int
  <2>2. /\ (v * f) * R = (v * R) * f /\ (q + f) * R = q * R + R * f
        /\ (v * f + f) * R = (v * R) * f + R * f
        /\ (2 * (v * R)) * f = 2 * ((v * R) * f) /\ (2 * p + 3 * R) * f = 2 * (p * f) + 3 * (R * f)
        /\ (2 * p) * f = 2 * (p * f) /\ (2 * (v * R) + 3 * R) * f = 2 * ((v * R) * f) + 3 * (R * f)
        /\ (v * R) * f \in Nat /\ R * f \in Nat /\ q * R \in Nat /\ p * f \in Nat
    BY <1>2
  <2>3. /\ (2 * (v * R)) * f <= (2 * p + 3 * R) * f
        /\ (2 * p) * f < (2 * (v * R) + 3 * R) * f
    BY <1>5, <2>1, <2>2
  <2>4. 2 * (v * R) \in Int /\ 2 * p + 3 * R \in Int /\ 2 * p \in Int /\ 2 * (v * R) + 3 * R \in Int
    BY <1>2
  <2> QED
    BY <2>3, <2>4, Scaled
<1>11. (2 * v * running) * d < (2 * P + 5 * running) * d
       /\ (2 * P) * d < (2 * v * running + 5 * running) * d
  <2>1. /\ (2 * v * running) * d = 2 * (v * R) /\ (2 * P + 5 * running) * d = 2 * (P * d) + 5 * R
        /\ (2 * P) * d = 2 * (P * d) /\ (2 * v * running + 5 * running) * d = 2 * (v * R) + 5 * R
        /\ v * R \in Nat /\ P * d \in Nat
    OBVIOUS
  <2> QED
    BY <1>2, <1>7, <1>10, <2>1
<1> QED
  BY <1>11, Scaled, 2 * v * running \in Int, 2 * P + 5 * running \in Int, 2 * P \in Int,
     2 * v * running + 5 * running \in Int

\* The largest word stands for something above the largest word, or for
\* something that is less than two below it.
LEMMA SaturatedIsClose ==
  ASSUME NEW P \in Nat, NEW running \in Nat \ {0},
         NEW p \in Nat, NEW d \in Nat \ {0}, Near(P, 1, p, d, Mantissa),
         NEW q \in Nat, NEW f \in Nat \ {0}, Near(p, d * running, q, f, Mantissa),
         MaxWord * f <= q, P < MaxWord * running
  PROVE  MaxWord * running < P + 2 * running
<1> DEFINE H == 2 ^ Mantissa
           R == d * running
           X == MaxWord
<1>1. H \in Nat /\ X \in Nat /\ X >= 1 /\ X < H /\ X - 1 \in Nat /\ X - 1 < 2 ^ Mantissa
  BY Words
<1>2. R \in Nat /\ R > 0 /\ d > 0 /\ f > 0
  OBVIOUS
<1>3. H * p <= H * (P * d) + P * d
  BY DEF Near
<1>4. (X - 1) * R < p
  <2>1. ASSUME p <= (X - 1) * R PROVE FALSE
    <3> HIDE DEF R, X
    <3>1. Near(p, R, q, f, Mantissa)
      BY DEF R
    <3>2. q <= (X - 1) * f
      BY <1>1, <1>2, <2>1, <3>1, LongDoubleSides
    <3>3. (X - 1) * f = X * f - f /\ X * f \in Nat
      BY <1>1
    <3> QED
      BY <1>2, <3>2, <3>3 DEF X
  <2> QED
    BY <1>1, <1>2, <2>1
<1> HIDE DEF H, X
<1>5. P * d < X * R
  <2>1. P * d < (X * running) * d
    BY <1>1, Scaled, P \in Int, X * running \in Int DEF X
  <2> QED
    BY <1>1, <2>1
<1>6. p < P * d + R
  <2>1. X * R <= H * R /\ H * R \in Nat /\ X * R \in Nat /\ H * (P * d) \in Nat /\ P * d \in Nat
    BY <1>1, <1>2
  <2>2. H * (P * d + R) = H * (P * d) + H * R /\ H * p \in Nat
    BY <1>1, <1>2
  <2>3. p * H < (P * d + R) * H
    BY <1>1, <1>3, <1>5, <2>1, <2>2
  <2>4. H \in Nat \ {0} /\ P * d + R \in Int
    BY <1>1, <1>2
  <2> QED
    BY <2>3, <2>4, Scaled
<1>7. (X * running) * d < (P + 2 * running) * d
  <2>1. /\ (X * running) * d = X * R /\ (P + 2 * running) * d = P * d + 2 * R
        /\ (X - 1) * R = X * R - R /\ X * R \in Nat /\ P * d \in Nat
    BY <1>1
  <2> QED
    BY <1>2, <1>4, <1>6, <2>1
<1>8. X * running < P + 2 * running
  BY <1>1, <1>7, Scaled, X * running \in Int, P + 2 * running \in Int
<1> QED
  BY <1>8 DEF X

\* A whole quotient of a product that is a word is computed exactly.
LEMMA WholeQuotient ==
  ASSUME NEW T \in Nat, NEW running \in Nat \ {0}, T * running \in Word,
         NEW p \in Nat, NEW d \in Nat \ {0}, Near(T * running, 1, p, d, Mantissa),
         NEW q \in Nat, NEW f \in Nat \ {0}, Near(p, d * running, q, f, Mantissa)
  PROVE  q = T * f
<1> DEFINE P == T * running
           R == d * running
<1>1. P \in Nat /\ P < 2 ^ Mantissa /\ T <= P /\ R \in Nat
  <2>1. P \in Nat /\ P <= MaxWord
    BY Words
  <2>2. T <= P
    OBVIOUS
  <2> QED
    BY <2>1, <2>2, Words
<1>2. P * d = T * R
  OBVIOUS
<1> HIDE DEF P, R
<1>3. Near(P, 1, p, d, Mantissa) /\ Near(p, R, q, f, Mantissa)
  BY DEF P, R
<1>4. P * d <= p /\ p <= P * d
  <2>1. P * 1 = P /\ 1 \in Nat /\ P <= 2 ^ Mantissa
    BY <1>1, Words
  <2> QED
    BY <1>1, <1>3, <2>1, LongDoubleSides
<1>5. p = T * R /\ T < 2 ^ Mantissa /\ T <= 2 ^ Mantissa
  BY <1>1, <1>2, <1>4, Words
<1>6. T * f <= q /\ q <= T * f
  BY <1>1, <1>3, <1>5, LongDoubleSides
<1> QED
  BY <1>6

\* What is below the largest word stays below it when a half is added.
LEMMA StaysAWord ==
  ASSUME NEW p \in Nat, NEW R \in Nat \ {0},
         NEW q \in Nat, NEW f \in Nat \ {0}, Near(p, R, q, f, Mantissa), q < MaxWord * f, MaxWord >= 2,
         NEW s \in Nat, NEW g \in Nat \ {0}, Near(2 * q + f, 2 * f, s, g, Mantissa)
  PROVE  s < (MaxWord + 1) * g
<1> DEFINE X == MaxWord
           S == 2 * q + f
<1>1. X \in Nat /\ X < 2 ^ Mantissa /\ X <= 2 ^ Mantissa /\ 2 * f \in Nat /\ S \in Nat
      /\ q < X * f /\ X >= 2
  BY Words
<1>2. ASSUME S <= X * (2 * f) PROVE s <= X * g
  <2> HIDE DEF X, S
  <2>1. Near(S, 2 * f, s, g, Mantissa)
    BY DEF S
  <2> QED
    BY <1>1, <1>2, <2>1, LongDoubleSides
<1>3. CASE R * 2 ^ (Mantissa - 1) <= p
  <2>1. f = 1
    BY <1>3 DEF Near
  <2>2. S <= X * (2 * f)
    BY <1>1, <2>1
  <2> QED
    BY <1>1, <1>2, <2>2
<1>4. CASE Mantissa = Width /\ ~(R * 2 ^ (Mantissa - 1) <= p)
  <2> DEFINE h == 2 ^ (Mantissa - 1)
  <2>1. h \in Nat /\ X + 1 = 2 * h /\ h < 2 ^ Mantissa /\ h >= 1
    <3>1. Mantissa - 1 \in Nat /\ (Mantissa - 1) + 1 = Mantissa
      BY Words
    <3>2. h \in Nat \ {0} /\ 2 ^ Mantissa = 2 * h
      BY <3>1, PowerType, PowerDoubles
    <3> QED
      BY <1>4, <3>2, Words
  <2> HIDE DEF h
  <2>2. p <= h * R
    BY <1>4, <2>1 DEF h
  <2>3. q <= h * f
    BY <2>1, <2>2, LongDoubleSides
  <2>4. (h + 1) * (2 * f) <= X * (2 * f)
    BY <1>1, <2>1
  <2>5. (h + 1) * (2 * f) = 2 * (h * f) + 2 * f /\ h * f \in Nat /\ X * (2 * f) \in Nat
    BY <1>1, <2>1
  <2>6. S <= X * (2 * f)
    BY <1>1, <2>3, <2>4, <2>5
  <2> QED
    BY <1>1, <1>2, <2>6
<1>5. CASE Mantissa # Width
  <2>1. 2 * X + 1 < 2 ^ Mantissa
    <3>1. Width + 1 \in Nat /\ Width + 1 <= Mantissa /\ Width \in Nat /\ Mantissa \in Nat
      BY <1>5, Words
    <3>2. 2 ^ (Width + 1) <= 2 ^ Mantissa /\ 2 ^ (Width + 1) = 2 * 2 ^ Width
      BY <3>1, PowersGrow, PowerDoubles
    <3> QED
      BY <3>2, Words
  <2> HIDE DEF X
  <2>2. 2 * S <= (2 * X + 1) * (2 * f)
    <3>1. (2 * X + 1) * (2 * f) = 4 * (X * f) + 2 * f /\ X * f \in Nat
      BY <1>1
    <3> QED
      BY <1>1, <3>1
  <2> HIDE DEF S
  <2>3. Near(S, 2 * f, s, g, Mantissa) /\ 2 * X + 1 \in Nat
    BY <1>1 DEF S
  <2>4. 2 * s <= (2 * X + 1) * g
    BY <1>1, <2>1, <2>2, <2>3, LongDoubleSides
  <2>5. (2 * X + 1) * g = 2 * (X * g) + g /\ (X + 1) * g = X * g + g /\ X * g \in Nat
    BY <1>1
  <2>6. s < (X + 1) * g
    BY <2>4, <2>5
  <2> QED
    BY <2>6 DEF X
<1> QED
  BY <1>3, <1>4, <1>5

-----------------------------------------------------------------------------
(* scaleCounter. *)

\* A quotient that the largest word bounds saturates.
LEMMA Saturated ==
  ASSUME NEW q \in Nat, NEW f \in Nat \ {0}
  PROVE  Saturates(<<q, f>>) <=> MaxWord * f <= q
<1>1. Saturates(<<q, f>>) <=> q * 1 >= MaxWord * f
  BY DEF Saturates, AtLeast, Whole
<1>2. MaxWord * f \in Int /\ q * 1 = q
  BY Words
<1> QED
  BY <1>1, <1>2

\* Any other is truncated to a word, after a half was added.
LEMMA Truncation ==
  ASSUME NEW raw, NEW enabled \in Nat, NEW running \in Nat, running < enabled,
         NEW q \in Nat, NEW f \in Nat \ {0}, Extrapolated(raw, enabled, running) = <<q, f>>,
         q < MaxWord * f,
         NEW s \in Nat, NEW g \in Nat \ {0}, LongDouble(Plus(<<q, f>>, <<1, 2>>)) = <<s, g>>,
         s < (MaxWord + 1) * g,
         NEW v, v = ScaleCounter(raw, enabled, running)
  PROVE  v \in Word /\ v * g <= s /\ s < v * g + g
<1> DEFINE w == s \div g
<1>1. w \in Nat /\ w * g <= s /\ s < w * g + g
  BY Quotient
<1>2. Truncated(<<s, g>>) = w
  BY DEF Truncated
<1> HIDE DEF w
<1>3. MaxWord \in Nat /\ MaxWord + 1 = 2 ^ Width /\ 2 ^ Width \in Nat \ {0}
  BY Words
<1>4. w < MaxWord + 1
  <2>1. w * g < (MaxWord + 1) * g
    BY <1>1, <1>3
  <2> QED
    BY <1>1, <1>3, <2>1, Scaled
<1>5. w % 2 ^ Width = w
  BY <1>1, <1>3, <1>4
<1>6. v = w
  <2>1. ~Saturates(<<q, f>>)
    <3>1. MaxWord * f \in Int
      BY Words
    <3> QED
      BY <3>1, Saturated
  <2>2. v = Truncated(LongDouble(Plus(<<q, f>>, <<1, 2>>))) % 2 ^ Width
    BY <2>1 DEF ScaleCounter
  <2>3. v = w % 2 ^ Width
    BY <1>2, <2>2, Zenon
  <2> QED
    BY <1>5, <2>3
<1> QED
  BY <1>1, <1>3, <1>4, <1>6, Words

\* raw is not zero and the group ran for part of the time.
LEMMA ScaledUp ==
  ASSUME NEW raw \in Word \ {0}, NEW enabled \in Word, NEW running \in Word \ {0},
         running < enabled,
         NEW v, v = ScaleCounter(raw, enabled, running)
  PROVE  /\ v \in Word /\ raw <= v
         /\ \/ /\ 2 * v * running < 2 * (raw * enabled) + 5 * running
               /\ 2 * (raw * enabled) < 2 * v * running + 5 * running
            \/ v = MaxWord /\ MaxWord * running <= raw * enabled
         /\ \A T \in Nat : T * running = raw * enabled /\ raw * enabled \in Word
                           /\ 2 * T < MaxWord => v = T
<1> DEFINE P == raw * enabled
           X == MaxWord
<1>1. PICK p, q \in Nat, d, f \in Nat \ {0} :
        /\ Extrapolated(raw, enabled, running) = <<q, f>>
        /\ Near(P, 1, p, d, Mantissa) /\ Near(p, d * running, q, f, Mantissa)
        /\ raw * (d * running) <= p
  BY Extrapolating
<1>2. /\ P \in Nat /\ X \in Nat /\ X >= 2 /\ raw \in Nat /\ raw <= X /\ raw < 2 ^ Mantissa
      /\ running \in Nat \ {0} /\ enabled \in Nat /\ d * running \in Nat \ {0}
      /\ X < 2 ^ Mantissa /\ X \in Word
  BY Words
<1> HIDE DEF P, X
<1>3. ASSUME NEW T \in Nat, T * running = P, P \in Word, 2 * T < X
      PROVE  q = T * f /\ q < X * f /\ 2 * T + 1 < 2 ^ Mantissa
  <2>1. q = T * f
    BY <1>1, <1>2, <1>3, WholeQuotient
  <2>2. T * f < X * f
    BY <1>2, <1>3, Scaled, T \in Int, X \in Int
  <2>3. 2 * T + 1 <= X
    BY <1>2, <1>3
  <2> QED
    BY <1>2, <2>1, <2>2, <2>3, Words
<1>4. CASE X * f <= q
  <2>1. v = X
    BY <1>1, <1>2, <1>4, Saturated DEF ScaleCounter, X
  <2>2. \/ /\ 2 * v * running < 2 * P + 5 * running
           /\ 2 * P < 2 * v * running + 5 * running
        \/ v = X /\ X * running <= P
    <3>1. CASE P < X * running
      <4>1. X * running < P + 2 * running
        BY <1>1, <1>2, <1>4, <3>1, SaturatedIsClose DEF X
      <4>2. 2 * X * running = 2 * (X * running) /\ X * running \in Nat
        BY <1>2
      <4> QED
        BY <1>2, <2>1, <3>1, <4>1, <4>2
    <3>2. CASE X * running <= P
      BY <2>1, <3>2
    <3> QED
      BY <1>2, <3>1, <3>2
  <2>3. \A T \in Nat : T * running = P /\ P \in Word /\ 2 * T < X => v = T
    <3>1. X * f \in Int
      BY <1>2
    <3> QED
      BY <1>3, <1>4, <3>1
  <2> QED
    BY <1>2, <2>1, <2>2, <2>3 DEF P, X
<1>5. CASE ~(X * f <= q)
  <2>1. q < X * f /\ q < MaxWord * f
    BY <1>2, <1>5 DEF X
  <2>2. PICK s \in Nat, g \in Nat \ {0} :
          /\ LongDouble(Plus(<<q, f>>, <<1, 2>>)) = <<s, g>>
          /\ Near(2 * q + f, 2 * f, s, g, Mantissa)
    BY <2>1, Halved
  <2>3. s < (MaxWord + 1) * g
    BY <1>1, <1>2, <2>1, <2>2, StaysAWord DEF X
  <2>4. v \in Word /\ v * g <= s /\ s < v * g + g
    <3>1. enabled \in Nat /\ running \in Nat
      BY <1>2
    <3> QED
      BY <1>1, <2>1, <2>2, <2>3, <3>1, Truncation
  <2>5. v \in Nat
    BY <2>4, Words
  <2>6. raw <= v
    <3>1. raw * f <= q
      <4> DEFINE R == d * running
      <4>1. raw * R <= p /\ Near(p, R, q, f, Mantissa) /\ R \in Nat /\ f \in Nat /\ raw <= 2 ^ Mantissa
        BY <1>1, <1>2, Words
      <4> HIDE DEF R
      <4> QED
        BY <1>2, <4>1, LongDoubleSides
    <3>2. raw * (2 * f) <= 2 * q + f
      BY <1>2, <3>1
    <3>3. raw * g <= s
      <4> DEFINE a == 2 * q + f
                 b == 2 * f
      <4>1. raw * b <= a /\ Near(a, b, s, g, Mantissa) /\ a \in Nat /\ b \in Nat
            /\ g \in Nat /\ raw <= 2 ^ Mantissa
        BY <1>2, <2>2, <3>2, Words
      <4> HIDE DEF a, b
      <4> QED
        BY <1>2, <4>1, LongDoubleSides
    <3>4. raw * g < (v + 1) * g
      <4>1. (v + 1) * g = v * g + g /\ raw * g \in Int /\ v * g + g \in Int
        BY <1>2, <2>5
      <4> QED
        BY <2>4, <3>3, <4>1
    <3>5. raw < v + 1
      BY <1>2, <2>5, <3>4, Scaled, raw \in Int, v + 1 \in Int
    <3> QED
      BY <1>2, <2>5, <3>5
  <2>7. 2 * v * running < 2 * P + 5 * running /\ 2 * P < 2 * v * running + 5 * running
    BY <1>1, <1>2, <2>1, <2>2, <2>4, <2>5, ErrorsAddUp
  <2>8. ASSUME NEW T \in Nat, T * running = P, P \in Word, 2 * T < X PROVE v = T
    <3>1. q = T * f /\ 2 * T + 1 < 2 ^ Mantissa
      BY <1>3, <2>8
    <3>2. 2 * s = (2 * T + 1) * g
      <4> DEFINE a == 2 * q + f
                 b == 2 * f
                 N == 2 * T + 1
      <4>1. /\ N * b <= 2 * a /\ 2 * a <= N * b /\ Near(a, b, s, g, Mantissa)
            /\ a \in Nat /\ b \in Nat /\ N \in Nat /\ N < 2 ^ Mantissa /\ N <= 2 ^ Mantissa
        BY <2>2, <3>1, Words
      <4> HIDE DEF a, b, N
      <4>2. N * g <= 2 * s /\ 2 * s <= N * g
        BY <4>1, LongDoubleSides
      <4>3. N * g \in Int
        BY <4>1
      <4> QED
        BY <4>2, <4>3 DEF N
    <3>3. (2 * T + 1) * g = 2 * (T * g) + g /\ T * g \in Int /\ v * g \in Int
          /\ (v + 1) * g = v * g + g /\ (T + 1) * g = T * g + g
      BY <2>5
    <3>4. v * g < (T + 1) * g /\ T * g < (v + 1) * g
      BY <2>4, <3>2, <3>3
    <3>5. v < T + 1 /\ T < v + 1
      BY <2>5, <3>4, Scaled, v \in Int, T \in Int, v + 1 \in Int, T + 1 \in Int
    <3> QED
      BY <2>5, <3>5
  <2> QED
    BY <2>4, <2>6, <2>7, <2>8 DEF P, X
<1> QED
  BY <1>4, <1>5

\* A counter that counted nothing stays at zero: the half that is added is lost.
LEMMA ScaledZero ==
  ASSUME NEW enabled \in Word, NEW running \in Word \ {0}, running < enabled
  PROVE  ScaleCounter(0, enabled, running) = 0
<1>1. enabled \in Nat /\ running \in Nat /\ 0 \in Nat /\ 1 \in Nat \ {0}
  BY Words
<1>2. Extrapolated(0, enabled, running) = <<0, 1>>
  <2>1. Times(Whole(0), Whole(enabled)) = <<0, 1>>
    BY <1>1 DEF Times, Whole
  <2>2. Over(<<0, 1>>, Whole(running)) = <<0, running>>
    BY <1>1 DEF Over, Whole
  <2>3. LongDouble(<<0, 1>>) = <<0, 1>> /\ LongDouble(<<0, running>>) = <<0, 1>>
    BY DEF LongDouble, Round, Whole
  <2> QED
    BY <2>1, <2>2, <2>3 DEF Extrapolated
<1>3. 0 < MaxWord * 1 /\ MaxWord \in Nat
  BY Words
<1>4. PICK s \in Nat, g \in Nat \ {0} :
        /\ LongDouble(Plus(<<0, 1>>, <<1, 2>>)) = <<s, g>>
        /\ Near(2 * 0 + 1, 2 * 1, s, g, Mantissa)
  BY <1>1, <1>3, Halved
<1>5. 2 * s = g
  <2>1. Near(1, 2, s, g, Mantissa)
    BY <1>4
  <2>2. 1 * 2 <= 2 * 1 /\ 2 * 1 <= 1 * 2 /\ 1 < 2 ^ Mantissa /\ 1 <= 2 ^ Mantissa
        /\ 2 \in Nat /\ g \in Nat
    BY Words
  <2>3. 1 * g <= 2 * s /\ 2 * s <= 1 * g
    BY <1>1, <2>1, <2>2, LongDoubleSides
  <2> QED
    BY <2>3
<1>6. s < (MaxWord + 1) * g
  <2>1. (MaxWord + 1) * g = MaxWord * g + g /\ MaxWord * g \in Nat
    BY <1>3
  <2> QED
    BY <1>5, <2>1
<1> DEFINE v == ScaleCounter(0, enabled, running)
<1>7. v \in Word /\ v * g <= s
  <2>1. v = ScaleCounter(0, enabled, running)
    OBVIOUS
  <2> HIDE DEF v
  <2> QED
    BY <1>1, <1>2, <1>3, <1>4, <1>6, <2>1, Truncation
<1> HIDE DEF v
<1>8. v \in Nat
  BY <1>7, Words
<1>9. ASSUME v >= 1 PROVE FALSE
  <2>1. 1 * g <= v * g
    BY <1>8, <1>9, Scaled, v \in Int, 1 \in Int
  <2> QED
    BY <1>5, <1>7, <1>8, <2>1
<1>10. v = 0
  BY <1>8, <1>9
<1> QED
  BY <1>10 DEF v

\* scaleCounter for every count and all times of a word, in which the group ran.
THEOREM ScaledAccurately ==
  ASSUME NEW raw \in Word, NEW enabled \in Word, NEW running \in Word \ {0},
         NEW v, v = ScaleCounter(raw, enabled, running)
  PROVE  /\ v \in Word /\ v >= raw
         /\ running >= enabled => v = raw
         /\ running < enabled =>
              \/ /\ 2 * v * running < 2 * (raw * enabled) + 5 * running
                 /\ 2 * (raw * enabled) < 2 * v * running + 5 * running
              \/ v = MaxWord /\ raw * enabled >= MaxWord * running
         /\ /\ running < enabled /\ raw * enabled \in Word /\ (raw * enabled) % running = 0
            /\ 2 * ((raw * enabled) \div running) < MaxWord
            => v * running = raw * enabled
<1>1. raw \in Nat /\ enabled \in Nat /\ running \in Nat \ {0} /\ raw * enabled \in Nat
      /\ MaxWord * running \in Nat
  BY Words
<1>2. CASE running >= enabled
  <2>1. v = raw
    BY <1>2 DEF ScaleCounter
  <2> QED
    BY <1>1, <1>2, <2>1
<1>3. CASE running < enabled /\ raw = 0
  <2>1. v = 0
    BY <1>3, ScaledZero
  <2>2. raw * enabled = 0 /\ v * running = 0 /\ 2 * v * running = 0
    BY <1>1, <1>3, <2>1
  <2>3. ~(running >= enabled)
    BY <1>1, <1>3
  <2>4. 2 * v * running < 2 * (raw * enabled) + 5 * running
        /\ 2 * (raw * enabled) < 2 * v * running + 5 * running
    BY <1>1, <2>2
  <2> QED
    BY <1>1, <1>3, <2>1, <2>2, <2>3, <2>4
<1>4. CASE running < enabled /\ raw # 0
  <2>1. /\ v \in Word /\ raw <= v
        /\ \/ /\ 2 * v * running < 2 * (raw * enabled) + 5 * running
              /\ 2 * (raw * enabled) < 2 * v * running + 5 * running
           \/ v = MaxWord /\ MaxWord * running <= raw * enabled
        /\ \A T \in Nat : T * running = raw * enabled /\ raw * enabled \in Word
                          /\ 2 * T < MaxWord => v = T
    BY <1>4, ScaledUp
  <2>2. ~(running >= enabled) /\ v \in Nat
    BY <1>1, <1>4, <2>1, Words
  <2>3. ASSUME raw * enabled \in Word, (raw * enabled) % running = 0,
               2 * ((raw * enabled) \div running) < MaxWord
        PROVE  v * running = raw * enabled
    <3> DEFINE P == raw * enabled
               T == P \div running
    <3>1. P = running * T + (P % running) /\ T \in Nat
      <4> HIDE DEF P
      <4>1. P \in Nat
        BY <1>1 DEF P
      <4>2. P \div running \in Nat
        BY <1>1, <4>1, Quotient
      <4> QED
        BY <1>1, <4>1, <4>2
    <3> HIDE DEF T
    <3>2. T * running = raw * enabled
      BY <1>1, <2>3, <3>1
    <3> QED
      BY <2>1, <2>3, <3>1, <3>2 DEF T
  <2>4. v >= raw
    BY <1>1, <2>1, <2>2
  <2>5. \/ /\ 2 * v * running < 2 * (raw * enabled) + 5 * running
           /\ 2 * (raw * enabled) < 2 * v * running + 5 * running
        \/ v = MaxWord /\ raw * enabled >= MaxWord * running
    BY <1>1, <2>1
  <2> QED
    BY <2>1, <2>2, <2>3, <2>4, <2>5
<1> QED
  BY <1>1, <1>2, <1>3, <1>4

\* A group that counts one event per tick is extrapolated exactly, although its
\* product may need more bits than the mantissa has.
THEOREM SteadyIsExact ==
  ASSUME NEW running \in Nat \ {0}, NEW enabled \in Nat, running <= enabled,
         16 * enabled < 2 ^ Width
  PROVE  ScaleCounter(running, enabled, running) = enabled
<1>1. 2 ^ Width \in Nat /\ 2 ^ Mantissa \in Nat /\ 2 ^ Width <= 2 ^ Mantissa
      /\ MaxWord = 2 ^ Width - 1 /\ MaxWord \in Nat /\ running >= 1
      /\ running \in Word \ {0} /\ enabled \in Word
  BY Words
<1>2. CASE running = enabled
  BY <1>2 DEF ScaleCounter
<1>3. CASE running < enabled
  <2> DEFINE P == running * enabled
  <2>1. PICK p, q \in Nat, d, f \in Nat \ {0} :
          /\ Extrapolated(running, enabled, running) = <<q, f>>
          /\ Near(P, 1, p, d, Mantissa) /\ Near(p, d * running, q, f, Mantissa)
    BY <1>1, <1>3, Extrapolating
  <2> DEFINE R == d * running
             H == 2 ^ Mantissa
  <2>2. R \in Nat /\ R > 0 /\ P \in Nat /\ P * d = enabled * R /\ H \in Nat /\ Near(p, R, q, f, Mantissa)
    BY <1>1, <2>1
  <2>3. H * p <= H * (P * d) + P * d /\ H * (P * d) <= H * p + P * d
    BY <2>1 DEF Near
  <2> HIDE DEF P, R, H
  <2>4. (8 * enabled - 1) * R <= 8 * p /\ 8 * p <= (8 * enabled + 1) * R
    <3> DEFINE E == enabled * R
    <3>1. 8 * E <= H * R
      <4>1. 8 * enabled <= H /\ (8 * enabled) * R <= H * R
        BY <1>1, <2>2, Scaled, 8 * enabled \in Int, H \in Int DEF H
      <4> QED
        BY <2>2, <4>1
    <3>2. E \in Nat /\ H * p \in Nat /\ H * E \in Nat /\ H * R \in Nat
      BY <2>2
    <3> HIDE DEF E
    <3>3. P * d = E
      BY <2>2 DEF E
    <3>4. 8 * (H * p) <= 8 * (H * E) + H * R /\ 8 * (H * E) <= 8 * (H * p) + H * R
      BY <2>3, <3>1, <3>2, <3>3
    <3>5. /\ (8 * p) * H = 8 * (H * p) /\ (8 * E + R) * H = 8 * (H * E) + H * R
          /\ (8 * E) * H = 8 * (H * E) /\ (8 * p + R) * H = 8 * (H * p) + H * R
      BY <2>2, <3>2
    <3>6. 8 * p <= 8 * E + R /\ 8 * E <= 8 * p + R
      <4>1. (8 * p) * H <= (8 * E + R) * H /\ (8 * E) * H <= (8 * p + R) * H
        BY <3>4, <3>5
      <4>2. H \in Nat \ {0} /\ 8 * p \in Int /\ 8 * E \in Int /\ 8 * E + R \in Int /\ 8 * p + R \in Int
        BY <1>1, <2>2, <3>2 DEF H
      <4> QED
        BY <4>1, <4>2, Scaled
    <3>7. (8 * enabled - 1) * R = 8 * E - R /\ (8 * enabled + 1) * R = 8 * E + R
      BY <2>2 DEF E
    <3> QED
      BY <2>2, <3>2, <3>6, <3>7
  <2>5. (8 * enabled - 1) * f <= 8 * q /\ 8 * q <= (8 * enabled + 1) * f
    <3>1. 8 * enabled - 1 \in Nat /\ 8 * enabled + 1 \in Nat
          /\ 8 * enabled - 1 <= 2 ^ Mantissa /\ 8 * enabled + 1 < 2 ^ Mantissa
      BY <1>1, <1>3
    <3> DEFINE N == 8 * enabled - 1
               O == 8 * enabled + 1
    <3> HIDE DEF N, O
    <3>2. N \in Nat /\ O \in Nat /\ N <= 2 ^ Mantissa /\ O < 2 ^ Mantissa
          /\ N * R <= 8 * p /\ 8 * p <= O * R /\ f \in Nat
      BY <2>4, <3>1 DEF N, O
    <3>3. N * f <= 8 * q
      BY <2>2, <3>2, LongDoubleSides
    <3>4. 8 * q <= O * f
      BY <2>2, <3>2, LongDoubleSides
    <3> QED
      BY <3>3, <3>4 DEF N, O
  <2>6. q < MaxWord * f
    <3>1. 8 * enabled + 1 < 8 * MaxWord
      BY <1>1, <1>3
    <3>2. (8 * enabled + 1) * f < (8 * MaxWord) * f
      BY <1>1, <3>1, Scaled, 8 * enabled + 1 \in Int, 8 * MaxWord \in Int
    <3>3. (8 * MaxWord) * f = 8 * (MaxWord * f) /\ MaxWord * f \in Int
          /\ (8 * enabled + 1) * f \in Int
      BY <1>1
    <3> QED
      BY <2>5, <3>2, <3>3
  <2>7. PICK s \in Nat, g \in Nat \ {0} :
          /\ LongDouble(Plus(<<q, f>>, <<1, 2>>)) = <<s, g>>
          /\ Near(2 * q + f, 2 * f, s, g, Mantissa)
    BY <2>6, Halved
  <2>8. (8 * enabled + 3) * g <= 8 * s /\ 8 * s <= (8 * enabled + 5) * g
    <3> DEFINE N == 8 * enabled + 3
               O == 8 * enabled + 5
               a == 2 * q + f
               b == 2 * f
    <3>1. N \in Nat /\ O \in Nat /\ N <= 2 ^ Mantissa /\ O < 2 ^ Mantissa
      BY <1>1, <1>3
    <3>2. a \in Nat /\ b \in Nat /\ Near(a, b, s, g, Mantissa) /\ g \in Nat
      BY <2>7
    <3>3. N * b <= 8 * a /\ 8 * a <= O * b
      <4>1. /\ N * b = 16 * (enabled * f) + 6 * f /\ O * b = 16 * (enabled * f) + 10 * f
            /\ (8 * enabled - 1) * f = 8 * (enabled * f) - f
            /\ (8 * enabled + 1) * f = 8 * (enabled * f) + f
            /\ enabled * f \in Nat
        OBVIOUS
      <4> QED
        BY <2>5, <4>1
    <3> HIDE DEF N, O, a, b
    <3>4. N * g <= 8 * s
      BY <3>1, <3>2, <3>3, LongDoubleSides
    <3>5. 8 * s <= O * g
      BY <3>1, <3>2, <3>3, LongDoubleSides
    <3> QED
      BY <3>4, <3>5 DEF N, O
  <2>9. enabled * g <= s /\ s < (enabled + 1) * g
    <3>1. /\ (8 * enabled + 3) * g = 8 * (enabled * g) + 3 * g
          /\ (8 * enabled + 5) * g = 8 * (enabled * g) + 5 * g
          /\ (enabled + 1) * g = enabled * g + g /\ enabled * g \in Nat
      OBVIOUS
    <3> QED
      BY <2>8, <3>1
  <2>10. s < (MaxWord + 1) * g
    <3>1. (enabled + 1) * g <= (MaxWord + 1) * g
      BY <1>1, Scaled, enabled + 1 \in Int, MaxWord + 1 \in Int
    <3>2. (enabled + 1) * g \in Int /\ (MaxWord + 1) * g \in Int
      BY <1>1
    <3> QED
      BY <2>9, <3>1, <3>2
  <2> DEFINE v == ScaleCounter(running, enabled, running)
  <2>11. v \in Word /\ v * g <= s /\ s < v * g + g
    <3>1. v = ScaleCounter(running, enabled, running) /\ running \in Nat
      OBVIOUS
    <3> HIDE DEF v
    <3> QED
      BY <1>3, <2>1, <2>6, <2>7, <2>10, <3>1, Truncation
  <2> HIDE DEF v
  <2>12. v \in Nat /\ v * g + g = (v + 1) * g /\ v * g \in Int
    BY <2>11, Words
  <2>13. enabled * g < (v + 1) * g /\ v * g < (enabled + 1) * g
    <3>1. enabled * g \in Int /\ (enabled + 1) * g \in Int /\ (v + 1) * g \in Int
      BY <2>12
    <3> QED
      BY <2>9, <2>11, <2>12, <3>1
  <2>14. enabled < v + 1 /\ v < enabled + 1
    BY <2>12, <2>13, Scaled, enabled \in Int, v + 1 \in Int, v \in Int, enabled + 1 \in Int
  <2>15. v = enabled
    BY <2>12, <2>14
  <2> QED
    BY <2>15 DEF v
<1> QED
  BY <1>2, <1>3
=============================================================================
