----------------------------- MODULE Fractions -----------------------------
(***************************************************************************)
(* Positive fractions in lowest terms, as pairs <<numerator, denominator>>. *)
(***************************************************************************)
LOCAL INSTANCE Integers

gcd[p \in Nat \X Nat] == IF p[2] = 0 THEN p[1] ELSE gcd[<<p[2], p[1] % p[2]>>]

Frac(m, n)  == <<m \div gcd[<<m, n>>], n \div gcd[<<m, n>>]>>
Plus(f, g)  == Frac(f[1] * g[2] + g[1] * f[2], f[2] * g[2])
Times(f, g) == Frac(f[1] * g[1], f[2] * g[2])
Over(f, g)  == Frac(f[1] * g[2], f[2] * g[1])
AtMost(f, g) == f[1] * g[2] <= g[1] * f[2]

\* The nearest whole number, halves up.
Nearest(f) == (2 * f[1] + f[2]) \div (2 * f[2])
=============================================================================
