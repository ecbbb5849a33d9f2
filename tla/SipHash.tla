------------------------------ MODULE SipHash -------------------------------
(***************************************************************************)
(* SipHash-2-4 (truenas_siphash/src/lib.rs), for TLC to compute: a u64 is  *)
(* four limbs of sixteen bits, the least significant first.                *)
(***************************************************************************)
EXTENDS Integers, Sequences, SequencesExt, Bitwise

Limb == 2 ^ 16

\* Four of something: the limbs of a word, the words of the state.
Four(f(_)) == <<f(1), f(2), f(3), f(4)>>

\* f(x), with x computed before f is entered.
Then(x, f(_)) == CHOOSE y \in {f(z) : z \in {x}} : TRUE

Xor64(x, y) == Four(LAMBDA i : x[i] ^^ y[i])

\* The sum of the i lowest limbs, with the carry of the ones below.
RECURSIVE Sum64(_, _, _)
Sum64(x, y, i) ==
    IF i = 0 THEN 0 ELSE x[i] + y[i] + (Sum64(x, y, i - 1) \div Limb)

WrappingAdd(x, y) == Four(LAMBDA i : Sum64(x, y, i) % Limb)

RotateLeft(x, n) ==
    LET from(i) == x[((i - 1 - n \div 16) % 4) + 1]
        r == n % 16
    IN Four(LAMBDA i : ((from(i) * 2 ^ r) % Limb)
                          + (from(i - 1) \div 2 ^ (16 - r)))

FromLeBytes(b) == Four(LAMBDA i : b[2 * i - 1] + 256 * b[2 * i])

INITIAL == << <<\h6575, \h7073, \h6d65, \h736f>>, <<\h6f6d, \h6e64, \h7261, \h646f>>,
              <<\h7261, \h6e65, \h6765, \h6c79>>, <<\h6573, \h7974, \h6462, \h7465>> >>

\* Key::new
Key(bytes) ==
    LET k == <<FromLeBytes(SubSeq(bytes, 1, 8)), FromLeBytes(SubSeq(bytes, 9, 16))>>
    IN Four(LAMBDA i : Xor64(k[((i - 1) % 2) + 1], INITIAL[i]))

\* sip_round: each half adds, rotates and mixes, then the halves cross.
SipRound(v) ==
    LET a0 == WrappingAdd(v[1], v[2])
        a2 == WrappingAdd(v[3], v[4])
        a1 == Xor64(RotateLeft(v[2], 13), a0)
        a3 == Xor64(RotateLeft(v[4], 16), a2)
        b2 == WrappingAdd(a2, a1)
        b0 == WrappingAdd(RotateLeft(a0, 32), a3)
    IN <<b0, Xor64(RotateLeft(a1, 17), b2),
         RotateLeft(b2, 32), Xor64(RotateLeft(a3, 21), b0)>>

Compress(v, m) ==
    LET twice == Then(Then([v EXCEPT ![4] = Xor64(@, m)], SipRound), SipRound)
    IN Then(twice, LAMBDA w : [w EXCEPT ![1] = Xor64(@, m)])

Finalize(v) ==
    LET w == [v EXCEPT ![3] = Xor64(@, <<\hff, 0, 0, 0>>)]
    IN Then(Then(Then(Then(w, SipRound), SipRound), SipRound), SipRound)

\* last_word: the tail, null bytes, and the length in the top byte.
LastWord(tail, len) ==
    FromLeBytes([i \in 1 .. 8 |-> IF i <= Len(tail) THEN tail[i]
                                  ELSE IF i = 8 THEN len % 256 ELSE 0])

RECURSIVE Absorb(_, _, _)
Absorb(v, data, len) ==
    IF Len(data) < 8 THEN Compress(v, LastWord(data, len))
    ELSE Then(Compress(v, FromLeBytes(SubSeq(data, 1, 8))),
              LAMBDA w : Absorb(w, SubSeq(data, 9, Len(data)), len))

\* Key::hash
Hash(key, data) ==
    LET out(v) == Xor64(Xor64(v[1], v[2]), Xor64(v[3], v[4]))
    IN Then(Then(Absorb(key, data, Len(data)), Finalize), out)
=============================================================================
