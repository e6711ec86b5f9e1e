------------------------------- MODULE Ed25519 -------------------------------
(***************************************************************************)
(* The signatures a messenger makes in the browser (services/crypto.ts):   *)
(* Ed25519 written out on big integers, here over a small field.  The      *)
(* formulas are those of the code with its constants as parameters.        *)
(*                                                                         *)
(* SHA-512 is external: what it returns here is any scalar.  clamp clears  *)
(* the bits below the cofactor and sets the top one; the parameters give   *)
(* the scalars it can return.                                              *)
(***************************************************************************)
EXTENDS Integers, Sequences

CONSTANTS P,        \* the prime of the field
          L,        \* the order of the base point
          N, M,     \* d = -N / M
          Bx, By,   \* the base point
          Clamped,  \* the scalars clamp returns
          Hashes    \* bound: what SHA-512 returns, as numbers

VARIABLES seed,     \* the private scalar derived from the PRF material
          rHash, kHash,  \* SHA-512 of the nonce and of the challenge
          step,     \* what ed25519Sign has computed
          point     \* A, then R, then both

vars == <<seed, rHash, kHash, step, point>>

Field == 0..(P - 1)

mod(a, m) == a % m

\* Square and multiply: a round takes the lowest bit of what is left of exp.
powRound(b, m) == <<b[1] \div 2, mod(b[2] * b[2], m),
                    IF b[1] % 2 = 1 THEN mod(b[3] * b[2], m) ELSE b[3]>>
modPow(base, exp, m) ==
    LET loop[i \in Nat] == IF i = 0 THEN <<exp, mod(base, m), 1>>
                           ELSE powRound(loop[i - 1], m)
    IN loop[CHOOSE i \in 0..exp : loop[i][1] = 0][3]
modInverse(a, m) == modPow(a, m - 2, m)

\* JavaScript's remainder has the sign of the dividend, so d is negative; TLA+'s never is.
D == -((N * modInverse(M, P)) % P)

\* Points in extended coordinates <<X, Y, Z, T>>: x = X/Z, y = Y/Z, x*y = T/Z.
Point == Field \X Field \X Field \X Field
ZERO == <<0, 1, 1, 0>>
pointAdd(p, q) ==
    LET A == mod((p[2] - p[1]) * (q[2] - q[1]), P)
        B == mod((p[2] + p[1]) * (q[2] + q[1]), P)
        C == mod(mod(p[4] * 2 * D, P) * q[4], P)
        Z == mod(p[3] * 2 * q[3], P)
        E == mod(B - A, P)   F == mod(Z - C, P)
        G == mod(Z + C, P)   H == mod(B + A, P)
    IN <<mod(E * F, P), mod(G * H, P), mod(F * G, P), mod(E * H, P)>>
\* Mutant: the last coordinate of the sum of two is left out of doubling.
pointDouble_T(p) ==
    LET A == mod(p[1] * p[1], P)   B == mod(p[2] * p[2], P)
        C == mod(2 * p[3] * p[3], P)
        H == mod(A + B, P)
        E == mod(H - mod((p[1] + p[2]) * (p[1] + p[2]), P), P)
        G == mod(A - B, P)         F == mod(C + G, P)
    IN <<mod(E * F, P), mod(G * H, P), mod(F * G, P), mod(E * G, P)>>
pointDouble(p) ==
    LET A == mod(p[1] * p[1], P)   B == mod(p[2] * p[2], P)
        C == mod(2 * p[3] * p[3], P)
        H == mod(A + B, P)
        E == mod(H - mod((p[1] + p[2]) * (p[1] + p[2]), P), P)
        G == mod(A - B, P)         F == mod(C + G, P)
    IN <<mod(E * F, P), mod(G * H, P), mod(F * G, P), mod(E * H, P)>>

\* Double and add: a round takes the lowest bit of what is left of s.
round(b) == <<b[1] \div 2, pointDouble(b[2]),
              IF b[1] % 2 = 1 THEN pointAdd(b[3], b[2]) ELSE b[3]>>
scalarMult(s, p) ==
    LET loop[i \in Nat] == IF i = 0 THEN <<s, p, ZERO>> ELSE round(loop[i - 1])
    IN loop[CHOOSE i \in 0..s : loop[i][1] = 0][3]

\* y and the parity of x: what the bytes of a point hold.
pointToBytes(p) == LET zi == modInverse(p[3], P) IN
                   [y |-> mod(p[2] * zi, P), odd |-> mod(p[1] * zi, P) % 2 = 1]
getBasePoint == <<Bx, By, 1, mod(Bx * By, P)>>
-----------------------------------------------------------------------------
(* deriveKeypair and ed25519Sign, from one hash to the next.               *)

Init == /\ seed \in Clamped /\ rHash \in Hashes /\ kHash \in Hashes
        /\ step = "derive" /\ point = [A |-> ZERO, R |-> ZERO, S |-> 0]

deriveKeypair == /\ step = "derive" /\ step' = "nonce"
                 /\ point' = [point EXCEPT !.A = scalarMult(seed, getBasePoint)]
                 /\ UNCHANGED <<seed, rHash, kHash>>
nonce == /\ step = "nonce" /\ step' = "challenge"
         /\ point' = [point EXCEPT !.R = scalarMult(mod(rHash, L), getBasePoint)]
         /\ UNCHANGED <<seed, rHash, kHash>>
ed25519Sign == /\ step = "challenge" /\ step' = "signed"
               /\ point' = [point EXCEPT !.S = mod(mod(rHash, L) + mod(kHash, L) * seed, L)]
               /\ UNCHANGED <<seed, rHash, kHash>>

Next == deriveKeypair \/ nonce \/ ed25519Sign
Spec == Init /\ [][Next]_vars
-----------------------------------------------------------------------------
(* Properties                                                              *)

TypeOK == /\ seed \in Clamped /\ {rHash, kHash} \subseteq Hashes
          /\ step \in {"derive", "nonce", "challenge", "signed"}
          /\ point \in [A : Point, R : Point, S : 0..(L - 1)]

\* The reference: affine points of the curve, their sum by the law of the curve
\* and the s-fold sum one by one; and the equation a verifier checks, with no
\* step of the signer.
Curve == LET d == D IN
         {c \in Field \X Field :
            mod(c[2] * c[2] - c[1] * c[1], P) = mod(1 + mod(d * c[1] * c[1], P) * c[2] * c[2], P)}
Cross(a, b) == mod(mod(D * a[1] * b[1], P) * a[2] * b[2], P)
IsSum(c, a, b) == LET k == Cross(a, b) IN
                  /\ mod(c[1] * (1 + k), P) = mod(a[1] * b[2] + a[2] * b[1], P)
                  /\ mod(c[2] * (1 - k), P) = mod(a[2] * b[2] + a[1] * b[1], P)
Sum(a, b) == CHOOSE c \in Curve : IsSum(c, a, b)
Times(s, a) == LET times[i \in Nat] == IF i = 0 THEN <<0, 1>> ELSE Sum(times[i - 1], a)
               IN times[s]
Bytes(a) == [y |-> a[2], odd |-> a[1] % 2 = 1]
Affine(p) == CHOOSE c \in Curve : Bytes(c) = pointToBytes(p)

Known(p)  == \E c \in Curve : Bytes(c) = pointToBytes(p)

Base == <<Bx, By>>
Multiples == {Times(n, Base) : n \in 0..(L - 1)}
Power(u, n) == LET power[i \in Nat] == IF i = 0 THEN 1 ELSE mod(power[i - 1] * u, P)
               IN power[n]

\* What makes the constants a curve with a point of order L: P is a prime, by what Fermat's
\* theorem says of one; -1 is a square (the code's I) and d is none; the law is associative
\* on the multiples of the base point; and L of them make the neutral point.
CurveAssumption ==
    /\ P \in Nat /\ P % 2 = 1 /\ P > 2 /\ L \in Nat \ {0} /\ N \in Nat /\ M \in Nat
    /\ \A u \in Field \ {0} : Power(u, P - 1) = 1
    /\ \E i \in Field : mod(i * i + 1, P) = 0
    /\ \A u \in Field : mod(u * u - D, P) # 0
    /\ \A a, b \in Multiples : Sum(Sum(a, b), Base) = Sum(a, Sum(b, Base))
    /\ Base \in Curve /\ Times(L, Base) = <<0, 1>>
    /\ Clamped \subseteq Nat /\ Hashes \subseteq Nat

\* What is signed verifies: R and the public key, read back from their bytes, are
\* points of the curve, and S times the base point is R plus the challenge times
\* the public key, all computed by the law of the curve.
SignatureVerifies ==
    step = "signed" =>
        /\ Known(point.R) /\ Known(point.A)
        /\ Times(point.S, Base)
             = Sum(Affine(point.R), Times(mod(kHash, L), Affine(point.A)))
=============================================================================
