------------------------------- MODULE Shamir --------------------------------
(***************************************************************************)
(* The threshold scheme of crypto/recovery.py, for one byte of a key: the  *)
(* code treats the bytes one by one and alike.                             *)
(*                                                                         *)
(* A byte is the set of its bits that are one, so XOR is the symmetric     *)
(* difference; a share is a pair of an x-coordinate and a value.           *)
(***************************************************************************)
EXTENDS Integers, Sequences, FiniteSets, FiniteSetsExt, Folds, SequencesExt

Bit    == 0 .. 7
Byte   == SUBSET Bit
Zero   == {}
One    == {0}
ByteOf(n) == {i \in Bit : (n \div 2^i) % 2 = 1}

IRREDUCIBLE == {0, 1, 3, 4, 8}

gf_add(a, b) == (a \ b) \cup (b \ a)

(* a <<= 1, reduced *)
Doubled(a) ==
    LET s == {i + 1 : i \in a}
    IN  IF 8 \in s THEN gf_add(s, IRREDUCIBLE) ELSE s

(* a, doubled 0 to 7 times *)
Doublings(a) == FoldLeftDomain(LAMBDA d, i : Append(d, Doubled(d[i])), <<a>>, <<1, 2, 3, 4, 5, 6, 7>>)

gf_mul(a, b) ==
    LET d == Doublings(a)
    IN  FoldSet(LAMBDA i, sum : gf_add(sum, d[i + 1]), Zero, b)

Squared(a) == gf_mul(a, a)

(* a^254, by square and multiply over the bits of 254. *)
gf_inv[a \in Byte] ==
    LET step(s, i) == <<IF i \in ByteOf(254) THEN gf_mul(s[1], s[2]) ELSE s[1], Squared(s[2])>>
    IN  FoldLeft(step, <<One, a>>, <<0, 1, 2, 3, 4, 5, 6, 7>>)[1]

(* Mutation: the coefficients are not reversed. *)
eval_polyForward(coeffs, x) == FoldLeft(LAMBDA sum, c : gf_add(gf_mul(sum, x), c), Zero, coeffs)

(* Horner's rule, from the highest coefficient. *)
eval_poly(coeffs, x) == FoldRight(LAMBDA c, sum : gf_add(gf_mul(sum, x), c), coeffs, Zero)

(* points: a set, as no two of its shares have one x-coordinate. *)
lagrange_interpolate(points, x) ==
    LET product(f(_), i) == FoldSet(LAMBDA j, prod : gf_mul(prod, f(j)), One, points \ {i})
        basis(i) == gf_mul(product(LAMBDA j : gf_add(x, j[1]), i),
                           gf_inv[product(LAMBDA j : gf_add(i[1], j[1]), i)])
    IN  FoldSet(LAMBDA i, sum : gf_add(sum, gf_mul(i[2], basis(i))), Zero, points)

(* The polynomials a split may choose: the secret, then random coefficients. *)
Polynomials(secret, threshold, random) == {<<secret>> \o c : c \in [1 .. threshold - 1 -> random]}

split_secret(coeffs, total) == {<<ByteOf(x), eval_poly(coeffs, ByteOf(x))>> : x \in 1 .. total}

recover_secret(shares) == lagrange_interpolate(shares, Zero)

-----------------------------------------------------------------------------
(* What the runs check of a secret s, for a few coefficients and the smallest
   thresholds. *)

Sample  == {Zero, One, {7}, {1, 4, 6}, Bit}
Splits  == {<<2, 2>>, <<2, 3>>, <<3, 4>>}

(* Any shares at or over the threshold give the secret back, whatever the
   coefficients. *)
Recovers(s) ==
    \A split \in Splits : \A c \in Polynomials(s, split[1], Sample) :
        \A held \in SUBSET split_secret(c, split[2]) :
            Cardinality(held) >= split[1] => recover_secret(held) = s

(* One share of two, the first or the last, may come from any other secret. *)
Hides(s) ==
    \A t \in Sample : \A x \in {1, 255} :
        LET share(c) == eval_poly(c, ByteOf(x))
        IN  {share(c) : c \in Polynomials(s, 2, Byte)} = {share(c) : c \in Polynomials(t, 2, Byte)}

(* The code says of inversion only that it is Fermat's little theorem. *)
Inverts == \A a \in Byte \ {Zero} : gf_mul(a, gf_inv[a]) = One
==============================================================================
